----------------------- MODULE RemoteVoiceSourceProofs -----------------------
(* Proofs about RemoteVoiceSource, for every size of the cushion and of the *)
(* queue, every concealment budget and every number of frames and faults.   *)
EXTENDS RemoteVoiceSource, TLAPS

----------------------------------------------------------------------------
(* Sequences.                                                               *)

(* What Tail returns.                                                       *)
LEMMA TailFacts ==
  ASSUME NEW S, NEW q \in Seq(S), q # <<>>
  PROVE  /\ Head(q) \in S /\ Head(q) = q[1] /\ 1 \in 1..Len(q)
         /\ Tail(q) \in Seq(S) /\ Len(Tail(q)) = Len(q) - 1
         /\ \A i \in 1..Len(Tail(q)) : Tail(q)[i] = q[i + 1] /\ i + 1 \in 1..Len(q)
  OBVIOUS

(* What Append returns.                                                     *)
LEMMA AppendFacts ==
  ASSUME NEW S, NEW q \in Seq(S), NEW e \in S
  PROVE  /\ Append(q, e) \in Seq(S) /\ Len(Append(q, e)) = Len(q) + 1
         /\ \A i \in 1..Len(q) : Append(q, e)[i] = q[i]
         /\ Append(q, e)[Len(q) + 1] = e
  OBVIOUS

(* The queue after enqueueOpusFrame holds frames, and at most the limit.    *)
LEMMA EnqueuedFacts ==
  ASSUME pending \in Seq(Frames), Len(pending) <= MaxQueued, NEW f \in Frames
  PROVE  Enqueued(f) \in Seq(Frames) /\ Len(Enqueued(f)) <= MaxQueued
<1>1. MaxQueued \in Nat /\ MaxQueued > 0 /\ Len(pending) \in Nat
  BY BufferAssumption
<1>2. CASE Len(pending) < MaxQueued
  BY <1>1, <1>2, AppendFacts DEF Enqueued
<1>3. CASE ~(Len(pending) < MaxQueued)
  <2>1. pending # <<>>
    BY <1>1, <1>3
  <2>2. Tail(pending) \in Seq(Frames) /\ Len(Tail(pending)) = Len(pending) - 1
    BY <2>1, TailFacts
  <2>3. QED
    BY <1>1, <1>3, <2>2, AppendFacts DEF Enqueued
<1>4. QED
  BY <1>2, <1>3

----------------------------------------------------------------------------
(* Types, and where concealment may come from.                              *)

(* The types and NoSmear are inductive together.                            *)
SourceInv == TypeOK /\ NoSmear

(* They hold initially.                                                     *)
LEMMA InitSource == Init => SourceInv
<1> SUFFICES ASSUME Init PROVE SourceInv
  OBVIOUS
<1>1. talking \in BOOLEAN /\ playing \in BOOLEAN
  BY Zenon DEF Init
<1>2. heard \in Frames \cup {NoFrame}
  BY Zenon DEF Init
<1>3. net \in Seq(Frames) /\ pending \in Seq(Frames) /\ Len(pending) <= MaxQueued
  BY BufferAssumption DEF Init
<1>4. NoSmear
  BY DEF Init, NoSmear
<1>5. QED
  BY <1>1, <1>2, <1>3, <1>4, BufferAssumption, BoundAssumption
  DEF Init, SourceInv, TypeOK, NoCue

(* The cue overlay keeps its types, whatever the voice does.                *)
LEMMA CueTypes ==
  ASSUME TypeOK, MixCue
  PROVE  /\ slot' \in 0..MaxCues /\ cue' \in 0..MaxCues /\ left' \in 0..CueChunks
         /\ triggered' \in 0..MaxCues /\ finished' \in 0..MaxCues
  BY BufferAssumption, BoundAssumption DEF TypeOK, MixCue, NoCue

(* Every chunk leaves the other threads' variables alone.                   *)
LEMMA ChunkTypes ==
  ASSUME TypeOK, Chunk
  PROVE  /\ talking' \in BOOLEAN /\ sent' \in 0..MaxFrames
         /\ net' \in Seq(Frames)
         /\ losses' \in 0..MaxLosses /\ overtakes' \in 0..MaxOvertakes
         /\ paths' \in {"none", "direct", "radio"}
         /\ slot' \in 0..MaxCues /\ cue' \in 0..MaxCues /\ left' \in 0..CueChunks
         /\ triggered' \in 0..MaxCues /\ finished' \in 0..MaxCues
  BY CueTypes DEF TypeOK, Chunk, sender, network

(* Every step preserves them.                                               *)
LEMMA NextSource == SourceInv /\ [Next]_vars => SourceInv'
<1> SUFFICES ASSUME SourceInv, [Next]_vars PROVE SourceInv'
  OBVIOUS
<1> USE BufferAssumption, BoundAssumption DEF SourceInv
<1>1. ASSUME NEW last \in BOOLEAN, SendFrame(last) PROVE SourceInv'
  <2>1. [n |-> sent + 1, last |-> last] \in Frames
    BY <1>1 DEF SendFrame, TypeOK, Frames
  <2>2. net' \in Seq(Frames)
    BY <1>1, <2>1, AppendFacts DEF SendFrame, TypeOK
  <2>3. sent' \in 0..MaxFrames
    BY <1>1 DEF SendFrame, TypeOK
  <2>4. talking' \in BOOLEAN
    BY <1>1, Zenon DEF SendFrame
  <2>5. QED
    BY <1>1, <2>2, <2>3, <2>4 DEF SendFrame, TypeOK, NoSmear, buffer, beep
<1>2. ASSUME Lose PROVE SourceInv'
  <2>1. net' \in Seq(Frames)
    BY <1>2, TailFacts DEF Lose, TypeOK
  <2>2. QED
    BY <1>2, <2>1 DEF Lose, TypeOK, NoSmear, sender, buffer, beep
<1>3. ASSUME Overtake PROVE SourceInv'
  <2>1. net' \in Seq(Frames)
    BY <1>3 DEF Overtake, TypeOK
  <2>2. QED
    BY <1>3, <2>1 DEF Overtake, TypeOK, NoSmear, sender, buffer, beep
<1>4. ASSUME EnqueueOpusFrame PROVE SourceInv'
  <2>1. Head(net) \in Frames /\ net' \in Seq(Frames)
    BY <1>4, TailFacts DEF EnqueueOpusFrame, TypeOK
  <2>2. pending' \in Seq(Frames) /\ Len(pending') <= MaxQueued
    BY <1>4, <2>1, EnqueuedFacts DEF EnqueueOpusFrame, TypeOK
  <2>3. QED
    BY <1>4, <2>1, <2>2 DEF EnqueueOpusFrame, TypeOK, NoSmear, sender, beep
<1>5. ASSUME NEW p \in {"none", "direct", "radio"}, SetStates(p) PROVE SourceInv'
  BY <1>5 DEF SetStates, TypeOK, NoSmear, sender, network, buffer, beep
<1>6. ASSUME TriggerBeep PROVE SourceInv'
  BY <1>6 DEF TriggerBeep, TypeOK, NoSmear, sender, network, buffer
<1>7. ASSUME RenderInaudible PROVE SourceInv'
  <2>1. pending' \in Seq(Frames) /\ Len(pending') <= MaxQueued
    BY <1>7 DEF RenderInaudible
  <2>2. playing' \in BOOLEAN
    BY <1>7, Zenon DEF RenderInaudible
  <2>3. QED
    BY <1>7, <2>1, <2>2, ChunkTypes DEF RenderInaudible, TypeOK, NoSmear
<1>8. ASSUME RenderWait PROVE SourceInv'
  BY <1>8, ChunkTypes DEF RenderWait, MayPlay, TypeOK, NoSmear
<1>9. ASSUME RenderFrame PROVE SourceInv'
  <2>1. /\ Head(pending) \in Frames
        /\ pending' \in Seq(Frames) /\ Len(pending') <= MaxQueued
    BY <1>9, TailFacts DEF RenderFrame, TypeOK
  <2>2. playing' \in BOOLEAN
    BY <1>9, Zenon DEF RenderFrame, PlaysOn
  <2>3. NoSmear'
    BY <1>9 DEF RenderFrame, PlaysOn, NoSmear
  <2>4. QED
    BY <1>9, <2>1, <2>2, <2>3, ChunkTypes DEF RenderFrame, TypeOK
<1>10. ASSUME RenderSilence PROVE SourceInv'
  <2>1. playing' \in BOOLEAN
    BY <1>10, Zenon DEF RenderSilence
  <2>2. conceal' \in 0..MaxConceal
    BY <1>10 DEF RenderSilence, TypeOK
  <2>3. QED
    BY <1>10, <2>1, <2>2, ChunkTypes DEF RenderSilence, TypeOK, NoSmear
<1>11. ASSUME RenderConcealment PROVE SourceInv'
  BY <1>11, ChunkTypes DEF RenderConcealment, TypeOK, NoSmear
<1>12. ASSUME UNCHANGED vars PROVE SourceInv'
  BY <1>12 DEF vars, TypeOK, NoSmear
<1>13. QED
  BY <1>1, <1>2, <1>3, <1>4, <1>5, <1>6, <1>7, <1>8, <1>9, <1>10, <1>11, <1>12
  DEF Next, Render

(* The type invariant, with the bound on the queue.                         *)
THEOREM TypeCorrect == Spec => []TypeOK
<1>1. SourceInv => TypeOK
  BY DEF SourceInv
<1>2. QED
  BY InitSource, NextSource, <1>1, PTL DEF Spec

(* No concealment is played after the end of a talkspurt.                   *)
THEOREM SmearCorrect == Spec => []NoSmear
<1>1. SourceInv => NoSmear
  BY DEF SourceInv
<1>2. QED
  BY InitSource, NextSource, <1>1, PTL DEF Spec

----------------------------------------------------------------------------
(* The order in which frames are heard, while none overtakes another.       *)

(* q holds frames in the order in which they were sent, all of them after   *)
(* frame a and up to frame b.                                               *)
Ascending(q, a, b) ==
  /\ \A i \in 1..Len(q) : a < q[i].n /\ q[i].n <= b
  /\ \A i, j \in 1..Len(q) : i < j => q[i].n < q[j].n

(* What is queued comes after what was heard, and what is on its way after  *)
(* what is queued.                                                          *)
Ordered ==
  /\ heard.n <= sent
  /\ Ascending(pending, heard.n, sent)
  /\ Ascending(net, heard.n, sent)
  /\ \A i \in 1..Len(pending), j \in 1..Len(net) : pending[i].n < net[j].n

OrderInv == overtakes = MaxOvertakes => Ordered

(* The numbers of frames are integers.                                      *)
LEMMA FrameNumbers ==
  ASSUME TypeOK
  PROVE  /\ heard.n \in Int /\ sent \in Int
         /\ net \in Seq(Frames) /\ pending \in Seq(Frames)
         /\ \A i \in 1..Len(net) : net[i].n \in Int
         /\ \A i \in 1..Len(pending) : pending[i].n \in Int
<1>1. \A f \in Frames : f.n \in Int
  BY DEF Frames
<1>2. NoFrame.n \in Int
  BY DEF NoFrame
<1>3. QED
  BY <1>1, <1>2, BoundAssumption DEF TypeOK

(* Dropping the first of a sequence of frames leaves it ascending, and what *)
(* is left comes after the one dropped.                                     *)
LEMMA AscendingTail ==
  ASSUME NEW q \in Seq(Frames), q # <<>>, NEW a \in Int, NEW b \in Int, Ascending(q, a, b)
  PROVE  /\ Ascending(Tail(q), a, b) /\ Ascending(Tail(q), q[1].n, b)
         /\ a < q[1].n /\ q[1].n <= b
         /\ \A i \in 1..Len(Tail(q)) : \E j \in 1..Len(q) : Tail(q)[i] = q[j]
<1>1. /\ 1 \in 1..Len(q) /\ Len(Tail(q)) = Len(q) - 1
      /\ \A i \in 1..Len(Tail(q)) : Tail(q)[i] = q[i + 1] /\ i + 1 \in 1..Len(q)
  BY TailFacts
<1>2. Len(q) \in Nat
  OBVIOUS
<1>3. \A i \in 1..Len(Tail(q)) :
         a < Tail(q)[i].n /\ Tail(q)[i].n <= b /\ q[1].n < Tail(q)[i].n
  <2> SUFFICES ASSUME NEW i \in 1..Len(Tail(q))
               PROVE  a < Tail(q)[i].n /\ Tail(q)[i].n <= b /\ q[1].n < Tail(q)[i].n
    OBVIOUS
  <2>1. Tail(q)[i] = q[i + 1] /\ i + 1 \in 1..Len(q) /\ 1 < i + 1
    BY <1>1, <1>2
  <2>2. QED
    BY <1>1, <2>1 DEF Ascending
<1>4. \A i, j \in 1..Len(Tail(q)) : i < j => Tail(q)[i].n < Tail(q)[j].n
  <2> SUFFICES ASSUME NEW i \in 1..Len(Tail(q)), NEW j \in 1..Len(Tail(q)), i < j
               PROVE  Tail(q)[i].n < Tail(q)[j].n
    OBVIOUS
  <2>1. /\ Tail(q)[i] = q[i + 1] /\ i + 1 \in 1..Len(q)
        /\ Tail(q)[j] = q[j + 1] /\ j + 1 \in 1..Len(q) /\ i + 1 < j + 1
    BY <1>1, <1>2
  <2>2. QED
    BY <2>1 DEF Ascending
<1>5. QED
  BY <1>1, <1>3, <1>4 DEF Ascending

(* A frame sent after all of them may be appended.                          *)
LEMMA AscendingAppend ==
  ASSUME NEW q \in Seq(Frames), NEW f \in Frames, NEW a \in Int, NEW b \in Int,
         NEW c \in Int, Ascending(q, a, b), a < f.n, f.n <= c, b <= c,
         \A i \in 1..Len(q) : q[i].n < f.n
  PROVE  Ascending(Append(q, f), a, c)
<1> DEFINE r == Append(q, f)
<1>1. /\ Len(r) = Len(q) + 1 /\ Len(q) \in Nat
      /\ \A i \in 1..Len(q) : r[i] = q[i]
      /\ r[Len(q) + 1] = f
  BY AppendFacts
<1>2. \A g \in Frames : g.n \in Int
  BY DEF Frames
<1>3. \A i \in 1..Len(q) : q[i].n \in Int
  BY <1>2
<1> HIDE DEF r
<1>4. \A i \in 1..Len(r) : i \in 1..Len(q) \/ i = Len(q) + 1
  BY <1>1
<1>5. \A i \in 1..Len(r) : a < r[i].n /\ r[i].n <= c
  BY <1>1, <1>3, <1>4 DEF Ascending
<1>6. \A i, j \in 1..Len(r) : i < j => r[i].n < r[j].n
  <2> SUFFICES ASSUME NEW i \in 1..Len(r), NEW j \in 1..Len(r), i < j
               PROVE  r[i].n < r[j].n
    OBVIOUS
  <2>1. i \in 1..Len(q)
    BY <1>1
  <2>2. CASE j = Len(q) + 1
    BY <1>1, <2>1, <2>2
  <2>3. CASE j \in 1..Len(q)
    BY <1>1, <2>1, <2>3 DEF Ascending
  <2>4. QED
    BY <1>4, <2>2, <2>3
<1>7. Ascending(r, a, c)
  BY <1>5, <1>6 DEF Ascending
<1>8. QED
  BY <1>7 DEF r

(* It holds initially.                                                      *)
LEMMA InitOrder == Init => OrderInv
  BY DEF Init, OrderInv, Ordered, Ascending, NoFrame

(* Every step preserves it.                                                 *)
LEMMA NextOrder == SourceInv /\ OrderInv /\ [Next]_vars => OrderInv'
<1> SUFFICES ASSUME SourceInv, OrderInv, [Next]_vars, overtakes' = MaxOvertakes
             PROVE  Ordered'
  BY DEF OrderInv
<1>a. ~Overtake /\ UNCHANGED overtakes
  <2>1. ~Overtake
    BY BoundAssumption DEF SourceInv, TypeOK, Overtake
  <2>2. CASE Render
    BY <2>1, <2>2 DEF Render, RenderInaudible, RenderWait, RenderFrame, RenderSilence,
       RenderConcealment, Chunk, network
  <2>3. CASE ~Render
    BY <2>1, <2>3 DEF Next, vars, SendFrame, Lose, EnqueueOpusFrame, SetStates, TriggerBeep, network
  <2>4. QED
    BY <2>1, <2>2, <2>3
<1>b. Ordered
  BY <1>a DEF OrderInv
<1> USE <1>b DEF Ordered
<1>0. /\ TypeOK
      /\ heard.n \in Int /\ sent \in Int
      /\ net \in Seq(Frames) /\ pending \in Seq(Frames)
      /\ Len(pending) \in Nat
      /\ \A i \in 1..Len(net) : net[i].n \in Int
      /\ \A i \in 1..Len(pending) : pending[i].n \in Int
  BY FrameNumbers DEF SourceInv
<1>1. ASSUME NEW last \in BOOLEAN, SendFrame(last) PROVE Ordered'
  <2> DEFINE f == [n |-> sent + 1, last |-> last]
  <2>1. f \in Frames /\ f.n = sent + 1
    BY <1>1, BoundAssumption DEF SendFrame, SourceInv, TypeOK, Frames
  <2>2. UNCHANGED <<pending, heard>> /\ sent' = sent + 1 /\ net' = Append(net, f)
    BY <1>1 DEF SendFrame, buffer
  <2> HIDE DEF f
  <2>3. Ascending(net', heard.n, sent + 1)
    <3>1. \A i \in 1..Len(net) : net[i].n < f.n
      BY <1>0, <2>1 DEF Ascending
    <3>2. sent + 1 \in Int /\ heard.n < f.n /\ f.n <= sent + 1 /\ sent <= sent + 1
      BY <1>0, <2>1
    <3>3. Ascending(Append(net, f), heard.n, sent + 1)
      BY <1>0, <2>1, <3>1, <3>2, AscendingAppend
    <3>4. QED
      BY <2>2, <3>3
  <2>4. Ascending(pending, heard.n, sent + 1)
    BY <1>0 DEF Ascending
  <2>5. \A i \in 1..Len(pending), j \in 1..Len(net') : pending[i].n < net'[j].n
    <3>1. \A j \in 1..Len(net') : (j \in 1..Len(net) /\ net'[j] = net[j]) \/ net'[j] = f
      BY <1>0, <2>1, <2>2, AppendFacts
    <3>2. \A i \in 1..Len(pending) : pending[i].n < f.n
      BY <1>0, <2>1 DEF Ascending
    <3>3. QED
      BY <3>1, <3>2
  <2>6. heard'.n <= sent'
    BY <1>0, <2>2
  <2>7. Ascending(pending', heard'.n, sent') /\ Ascending(net', heard'.n, sent')
    BY <2>2, <2>3, <2>4
  <2>8. \A i \in 1..Len(pending'), j \in 1..Len(net') : pending'[i].n < net'[j].n
    BY <2>2, <2>5
  <2>9. QED
    BY ONLY <2>6, <2>7, <2>8 DEF Ordered
<1>2. ASSUME Lose PROVE Ordered'
  <2>1. UNCHANGED <<pending, heard, sent>> /\ net' = Tail(net) /\ net # <<>>
    BY <1>2 DEF Lose, buffer, sender
  <2>2. /\ Ascending(net', heard.n, sent)
        /\ \A i \in 1..Len(net') : \E j \in 1..Len(net) : net'[i] = net[j]
    BY <1>0, <2>1, AscendingTail
  <2>3. QED
    BY <2>1, <2>2
<1>4. ASSUME EnqueueOpusFrame PROVE Ordered'
  <2> DEFINE f == net[1]
             rest == IF Len(pending) < MaxQueued THEN pending ELSE Tail(pending)
  <2>1. /\ UNCHANGED <<heard, sent>>
        /\ net # <<>> /\ net' = Tail(net)
        /\ Head(net) = f /\ f \in Frames /\ 1 \in 1..Len(net)
    BY <1>0, <1>4, TailFacts DEF EnqueueOpusFrame, sender
  <2>2. /\ Ascending(net', heard.n, sent) /\ Ascending(net', f.n, sent)
        /\ heard.n < f.n /\ f.n <= sent
        /\ \A i \in 1..Len(net') : \E j \in 1..Len(net) : net'[i] = net[j]
    BY <1>0, <2>1, AscendingTail
  <2>3. pending' = Append(rest, f)
    BY <1>4, <2>1 DEF EnqueueOpusFrame, Enqueued
  <2>4. /\ rest \in Seq(Frames) /\ Ascending(rest, heard.n, sent)
        /\ \A i \in 1..Len(rest) : \E j \in 1..Len(pending) : rest[i] = pending[j]
    <3>1. CASE Len(pending) < MaxQueued
      BY <1>0, <3>1
    <3>2. CASE ~(Len(pending) < MaxQueued)
      <4>1. pending # <<>> /\ rest = Tail(pending)
        BY <1>0, <3>2, BufferAssumption
      <4>2. QED
        BY <1>0, <4>1, AscendingTail, TailFacts
    <3>3. QED
      BY <3>1, <3>2
  <2> HIDE DEF rest
  <2>5. \A i \in 1..Len(rest) : rest[i].n < f.n
    BY <2>1, <2>4
  <2>6. Ascending(pending', heard.n, sent)
    BY <1>0, <2>1, <2>2, <2>3, <2>4, <2>5, AscendingAppend
  <2>7. \A i \in 1..Len(pending'), j \in 1..Len(net') : pending'[i].n < net'[j].n
    <3>1. \A i \in 1..Len(pending') : (i \in 1..Len(rest) /\ pending'[i] = rest[i]) \/ pending'[i] = f
      BY <2>1, <2>3, <2>4, AppendFacts
    <3>2. \A j \in 1..Len(net') : f.n < net'[j].n
      BY <2>2 DEF Ascending
    <3>3. \A i \in 1..Len(rest), j \in 1..Len(net') : rest[i].n < net'[j].n
      BY <2>2, <2>4
    <3>4. QED
      BY <3>1, <3>2, <3>3
  <2>8. QED
    BY <2>1, <2>2, <2>6, <2>7
<1>5. ASSUME NEW p \in {"none", "direct", "radio"}, SetStates(p) PROVE Ordered'
  BY <1>5 DEF SetStates, sender, network, buffer, Ascending
<1>6. ASSUME TriggerBeep PROVE Ordered'
  BY <1>6 DEF TriggerBeep, sender, network, buffer, Ascending
<1>7. ASSUME RenderInaudible PROVE Ordered'
  BY <1>7 DEF RenderInaudible, Chunk, sender, network, Ascending
<1>8. ASSUME RenderFrame PROVE Ordered'
  <2>1. /\ UNCHANGED <<net, sent>>
        /\ pending # <<>> /\ pending' = Tail(pending)
        /\ heard' = pending[1] /\ 1 \in 1..Len(pending)
    BY <1>0, <1>8, TailFacts DEF RenderFrame, Chunk, sender, network
  <2>2. /\ Ascending(pending', heard'.n, sent)
        /\ heard'.n <= sent
        /\ \A i \in 1..Len(pending') : \E j \in 1..Len(pending) : pending'[i] = pending[j]
    BY <1>0, <2>1, AscendingTail
  <2>3. Ascending(net, heard'.n, sent)
    BY <2>1 DEF Ascending
  <2>4. QED
    BY <2>1, <2>2, <2>3
<1>9. ASSUME RenderWait \/ RenderSilence \/ RenderConcealment PROVE Ordered'
  BY <1>9 DEF RenderWait, RenderSilence, RenderConcealment, Chunk, sender, network, Ascending
<1>10. ASSUME UNCHANGED vars PROVE Ordered'
  BY <1>10 DEF vars, Ascending
<1>11. QED
  BY <1>1, <1>a, <1>2, <1>4, <1>5, <1>6, <1>7, <1>8, <1>9, <1>10 DEF Next, Render

(* Only RenderFrame hears a frame, and it is a later one.                   *)
LEMMA HeardLater ==
  SourceInv /\ OrderInv /\ [Next]_vars =>
    [overtakes = MaxOvertakes /\ heard' # heard => heard'.n > heard.n]_vars
<1> SUFFICES ASSUME SourceInv, OrderInv, [Next]_vars, overtakes = MaxOvertakes, heard' # heard
             PROVE  heard'.n > heard.n
  OBVIOUS
<1>1. RenderFrame
  BY DEF Next, vars, SendFrame, Lose, Overtake, EnqueueOpusFrame, SetStates, TriggerBeep, Render,
     RenderInaudible, RenderWait, RenderSilence, RenderConcealment, buffer
<1>2. heard' = pending[1] /\ 1 \in 1..Len(pending)
  BY <1>1, TailFacts DEF RenderFrame, SourceInv, TypeOK
<1>3. QED
  BY <1>2, FrameNumbers DEF SourceInv, OrderInv, Ordered, Ascending

(* As long as no frame overtook another, all is heard in order, and once.   *)
THEOREM OrderCorrect == Spec => InOrder
  BY InitSource, NextSource, InitOrder, NextOrder, HeardLater, PTL DEF Spec, InOrder

----------------------------------------------------------------------------
(* What brings the source to an end: the arguments behind FallsSilent,      *)
(* NothingStuck and CuePlayed, without the fairness.                        *)

(* The chunks that the source still fills without a new frame, at most:     *)
(* every frame it holds may be followed by all of the concealment.          *)
Concealable == IF playing THEN MaxConceal - conceal + 1 ELSE 0
Remaining == Len(pending) * (MaxConceal + 2) + Concealable

(* A frame stands for more chunks than the concealment that may follow it.  *)
LEMMA FrameWeighs ==
  ASSUME NEW m \in Nat, NEW c \in Nat, c <= m + 1, NEW d \in Nat, NEW n \in Nat \ {0}
  PROVE  (n - 1) * (m + 2) + c < n * (m + 2) + d
<1>1. (n - 1) * (m + 2) = n * (m + 2) - (m + 2)
  BY SMT
<1>2. n * (m + 2) \in Nat
  BY SMT
<1> DEFINE w == n * (m + 2)
           v == (n - 1) * (m + 2)
<1>3. v = w - (m + 2) /\ w \in Nat
  BY <1>1, <1>2
<1> HIDE DEF v, w
<1>4. v + c < w + d
  BY <1>3
<1> QED
  BY <1>4 DEF v, w

(* It is a natural number.                                                  *)
LEMMA RemainingNat == SourceInv => Remaining \in Nat
<1> SUFFICES ASSUME SourceInv PROVE Remaining \in Nat
  OBVIOUS
<1>1. Len(pending) \in Nat /\ MaxConceal \in Nat /\ Concealable \in Nat
  BY BufferAssumption DEF SourceInv, TypeOK, Concealable
<1>2. Len(pending) * (MaxConceal + 2) \in Nat
  BY <1>1
<1> QED
  BY <1>1, <1>2 DEF Remaining

(* Every chunk that is not silent leaves less to come, and nothing but a    *)
(* frame from the network adds to it (RemoteVoiceSource.cpp:73-159):        *)
(* without new frames a source renders at most Remaining chunks.            *)
SilenceStep ==
  /\ ~EnqueueOpusFrame => Remaining' <= Remaining
  /\ Render => outcome' = "silence" \/ Remaining' < Remaining

THEOREM SilenceNears == Spec => [](Remaining \in Nat) /\ [][SilenceStep]_vars
<1>1. ASSUME SourceInv, [Next]_vars
      PROVE  /\ ~EnqueueOpusFrame => Remaining' <= Remaining
             /\ Render => outcome' = "silence" \/ Remaining' < Remaining
  <2>0. /\ MaxConceal \in Nat /\ conceal \in 0..MaxConceal /\ Len(pending) \in Nat
        /\ pending \in Seq(Frames) /\ Concealable \in 0..(MaxConceal + 1)
    BY <1>1, BufferAssumption DEF SourceInv, TypeOK, Concealable
  <2>1. Len(pending) * (MaxConceal + 2) \in Nat
    BY <2>0
  <2>2. CASE RenderFrame
    <3>1. pending # <<>> /\ pending' = Tail(pending) /\ conceal' = 0
      BY <2>2 DEF RenderFrame
    <3>2. Len(pending) \in Nat \ {0} /\ Len(pending') = Len(pending) - 1
      BY <2>0, <3>1
    <3>3. Concealable' \in Nat /\ Concealable' <= MaxConceal + 1
      BY <2>0, <3>1 DEF Concealable
    <3>4. (Len(pending) - 1) * (MaxConceal + 2) + Concealable'
            < Len(pending) * (MaxConceal + 2) + Concealable
      <4>1. Concealable \in Nat
        BY <2>0
      <4> QED
        BY <2>0, <3>2, <3>3, <4>1, FrameWeighs
    <3>5. Remaining' = (Len(pending) - 1) * (MaxConceal + 2) + Concealable'
      BY <3>2 DEF Remaining
    <3>6. Remaining' < Remaining /\ Remaining' \in Int /\ Remaining \in Int
      BY <2>0, <2>1, <3>2, <3>3, <3>4, <3>5 DEF Remaining
    <3> QED
      BY <3>6
  <2>3. CASE RenderInaudible
    <3>1. Remaining' = 0
      <4>1. Len(pending') = 0 /\ Concealable' = 0
        BY <2>3 DEF RenderInaudible, Concealable
      <4> QED
        BY <2>0, <4>1 DEF Remaining
    <3>2. outcome' = "silence"
      BY <2>3 DEF RenderInaudible
    <3> QED
      BY <2>0, <2>1, <3>1, <3>2 DEF Remaining
  <2>4. CASE RenderConcealment
    <3>1. pending' = pending /\ Concealable' = Concealable - 1
      BY <2>0, <2>4 DEF RenderConcealment, Concealable
    <3>2. Remaining' = Len(pending) * (MaxConceal + 2) + (Concealable - 1)
      BY <3>1 DEF Remaining
    <3> QED
      BY <2>0, <2>1, <3>2 DEF Remaining
  <2>5. CASE RenderSilence
    <3>1. pending' = pending /\ Concealable' = 0 /\ outcome' = "silence"
      BY <2>5 DEF RenderSilence, Concealable
    <3>2. Remaining' = Len(pending) * (MaxConceal + 2) + 0
      BY <3>1 DEF Remaining
    <3> QED
      BY <2>0, <2>1, <3>1, <3>2 DEF Remaining
  <2>6. CASE RenderWait
    <3>1. Remaining' = Remaining /\ outcome' = "silence"
      BY <2>6 DEF RenderWait, Remaining, Concealable
    <3> QED
      BY <2>0, <2>1, <3>1 DEF Remaining
  <2>7. CASE ~Render
    <3>1. CASE ~EnqueueOpusFrame
      <4>1. UNCHANGED <<pending, playing, conceal>>
        BY <1>1, <2>7, <3>1 DEF Next, SendFrame, Lose, Overtake, SetStates, TriggerBeep,
                                buffer, vars
      <4>2. Remaining' = Remaining
        BY <4>1 DEF Remaining, Concealable
      <4> QED
        BY <2>0, <2>1, <2>7, <4>2 DEF Remaining
    <3> QED
      BY <2>7, <3>1
  <2> QED
    BY <2>2, <2>3, <2>4, <2>5, <2>6, <2>7 DEF Render
<1>2. SourceInv /\ [Next]_vars => [SilenceStep]_vars
  BY <1>1 DEF SilenceStep
<1> QED
  BY InitSource, NextSource, RemainingNat, <1>2, PTL DEF Spec

(* While nothing is lost or overtaken, what was sent last and is not heard  *)
(* yet ends the talkspurt, once the other player has stopped talking.       *)
Faultless == losses = MaxLosses /\ overtakes = MaxOvertakes

EndInv ==
  Faultless /\ ~talking =>
    /\ net # <<>> => net[Len(net)].last
    /\ net = <<>> /\ pending # <<>> => pending[Len(pending)].last

(* The last of what is left when the first is taken is what was last.       *)
LEMMA LastOfTail ==
  ASSUME NEW q \in Seq(Frames), q # <<>>, Tail(q) # <<>>
  PROVE  Tail(q)[Len(Tail(q))] = q[Len(q)]
<1>1. Len(Tail(q)) \in 1..Len(Tail(q)) /\ Len(Tail(q)) + 1 = Len(q)
  BY TailFacts
<1> QED
  BY <1>1, TailFacts

LEMMA NextEnd == SourceInv /\ EndInv /\ [Next]_vars => EndInv'
<1> SUFFICES ASSUME SourceInv, EndInv, [Next]_vars, Faultless', ~talking' PROVE EndInv'
  BY DEF EndInv
<1>0. /\ net \in Seq(Frames) /\ pending \in Seq(Frames)
      /\ losses \in 0..MaxLosses /\ overtakes \in 0..MaxOvertakes
      /\ MaxLosses \in Nat /\ MaxOvertakes \in Nat
  BY BoundAssumption DEF SourceInv, TypeOK
<1>1. ASSUME NEW last \in BOOLEAN, SendFrame(last) PROVE EndInv'
  <2>1. [n |-> sent + 1, last |-> last] \in Frames
    BY <1>1, BoundAssumption DEF SendFrame, SourceInv, TypeOK, Frames
  <2>2. last /\ net' = Append(net, [n |-> sent + 1, last |-> last])
    BY <1>1 DEF SendFrame
  <2>3. Len(net') = Len(net) + 1 /\ net'[Len(net) + 1] = [n |-> sent + 1, last |-> last]
    BY <1>0, <2>1, <2>2, AppendFacts
  <2>4. net'[Len(net')].last /\ net' # <<>>
    <3>1. net'[Len(net')].last
      BY <2>2, <2>3
    <3>2. net' # <<>>
      BY <1>0, <2>3
    <3> QED
      BY <3>1, <3>2
  <2> QED
    BY <2>4 DEF EndInv
<1>2. CASE Lose \/ Overtake
  <2>1. losses' < losses \/ overtakes' < overtakes
    BY <1>0, <1>2 DEF Lose, Overtake
  <2>2. losses' <= losses /\ overtakes' <= overtakes
    BY <1>0, <1>2 DEF Lose, Overtake
  <2> QED
    BY <1>0, <2>1, <2>2 DEF Faultless
<1>3. CASE EnqueueOpusFrame
  <2>1. /\ Faultless /\ ~talking /\ net # <<>> /\ net' = Tail(net)
        /\ pending' = Enqueued(Head(net))
    BY <1>3 DEF EnqueueOpusFrame, Faultless, sender
  <2>2. net[Len(net)].last /\ Head(net) = net[1] /\ Head(net) \in Frames
    BY <1>0, <2>1, TailFacts DEF EndInv
  <2>3. CASE net' # <<>>
    BY <1>0, <2>1, <2>2, <2>3, LastOfTail DEF EndInv
  <2>4. CASE net' = <<>>
    <3>1. Len(net) = 1
      <4>1. Tail(net) = <<>>
        BY <2>1, <2>4
      <4>2. Len(Tail(net)) = 0
        <5>1. Len(<< >>) = 0
          OBVIOUS
        <5> QED
          BY <4>1, <5>1, Zenon
      <4>3. Len(Tail(net)) = Len(net) - 1 /\ Len(net) \in Nat
        BY <1>0, <2>1, TailFacts
      <4> QED
        BY <4>2, <4>3
    <3>2. Head(net).last
      BY <2>2, <3>1
    <3>3. PICK r \in Seq(Frames) : pending' = Append(r, Head(net))
      <4>1. CASE Len(pending) < MaxQueued
        BY <1>0, <2>1, <4>1 DEF Enqueued
      <4>2. CASE ~(Len(pending) < MaxQueued)
        <5>1. pending # <<>>
          BY <1>0, <4>2, BufferAssumption
        <5>2. Tail(pending) \in Seq(Frames)
          BY <1>0, <5>1, TailFacts
        <5> QED
          BY <2>1, <4>2, <5>2 DEF Enqueued
      <4> QED
        BY <4>1, <4>2
    <3>4. Len(pending') = Len(r) + 1 /\ pending'[Len(r) + 1] = Head(net)
      BY <2>2, <3>3, AppendFacts
    <3>5. pending'[Len(pending')].last
      BY <3>2, <3>4
    <3> QED
      BY <2>4, <3>5 DEF EndInv
  <2> QED
    BY <2>3, <2>4
<1>4. CASE (\E p \in {"none", "direct", "radio"} : SetStates(p)) \/ TriggerBeep \/ UNCHANGED vars
  <2>1. UNCHANGED <<losses, overtakes, talking, net, pending>>
    BY <1>4 DEF SetStates, TriggerBeep, sender, network, buffer, vars
  <2> QED
    BY <2>1 DEF EndInv, Faultless
<1>5. CASE Render
  <2>1. UNCHANGED <<losses, overtakes, talking, net>>
    BY <1>5 DEF Render, RenderInaudible, RenderWait, RenderFrame, RenderSilence,
                RenderConcealment, Chunk, sender, network
  <2>2. pending' = pending \/ pending' = <<>> \/ (pending # <<>> /\ pending' = Tail(pending))
    BY <1>5 DEF Render, RenderInaudible, RenderWait, RenderFrame, RenderSilence,
                RenderConcealment
  <2>3. Faultless /\ ~talking
    BY <2>1 DEF Faultless
  <2>4. ASSUME net = <<>>, pending' # <<>> PROVE pending'[Len(pending')].last
    <3>1. CASE pending' = pending
      BY <2>3, <2>4, <3>1 DEF EndInv
    <3>2. CASE pending # <<>> /\ pending' = Tail(pending)
      BY <1>0, <2>3, <2>4, <3>2, LastOfTail DEF EndInv
    <3> QED
      BY <2>2, <2>4, <3>1, <3>2
  <2> QED
    BY <2>1, <2>3, <2>4 DEF EndInv
<1> QED
  BY <1>1, <1>2, <1>3, <1>4, <1>5 DEF Next

(* A talkspurt that has arrived complete may be played, however short: the  *)
(* queue holds its LastFrame (RemoteVoiceSource.cpp:106-131).               *)
THEOREM CompletePlays ==
  Spec => [](Faultless /\ ~talking /\ net = <<>> /\ pending # <<>> => MayPlay)
<1>1. Init => EndInv
  BY DEF Init, EndInv
<1>2. SourceInv /\ EndInv => (Faultless /\ ~talking /\ net = <<>> /\ pending # <<>> => MayPlay)
  <2> SUFFICES ASSUME SourceInv, EndInv, Faultless, ~talking, net = <<>>, pending # <<>>
               PROVE  MayPlay
    OBVIOUS
  <2>1. pending[Len(pending)].last
    BY DEF EndInv
  <2>2. Len(pending) \in DOMAIN pending
    BY DEF SourceInv, TypeOK
  <2> QED
    BY <2>1, <2>2 DEF MayPlay
<1> QED
  BY InitSource, NextSource, NextEnd, <1>1, <1>2, PTL DEF Spec

(* The chunks that the last cue still takes; when there is none left, it    *)
(* was played to its end.                                                   *)
CueLeft == IF slot # NoCue THEN CueChunks ELSE left

CueInv ==
  /\ slot \in {NoCue, triggered}
  /\ slot = NoCue /\ left > 0 => cue = triggered
  /\ CueLeft = 0 => finished = triggered

LEMMA NextCue ==
  ASSUME SourceInv, CueInv, [Next]_vars
  PROVE  /\ CueInv'
         /\ ~TriggerBeep => CueLeft' <= CueLeft
         /\ Render /\ paths = "radio" /\ CueLeft > 0 => CueLeft' < CueLeft
<1>0. /\ CueChunks \in Nat \ {0} /\ left \in 0..CueChunks /\ triggered \in Nat
      /\ CueLeft \in 0..CueChunks /\ NoCue = 0
  BY BufferAssumption, BoundAssumption DEF SourceInv, TypeOK, CueLeft, NoCue
<1>1. CASE TriggerBeep
  <2>1. slot' = triggered + 1 /\ triggered' = triggered + 1
    BY <1>1 DEF TriggerBeep
  <2>2. slot' # NoCue /\ slot' = triggered' /\ CueLeft' = CueChunks
    BY <1>0, <2>1 DEF CueLeft
  <2>3. ~Render
    BY <1>0, <2>1 DEF Render, RenderInaudible, RenderWait, RenderFrame, RenderSilence,
                      RenderConcealment, Chunk, MixCue
  <2> QED
    BY <1>0, <1>1, <2>2, <2>3 DEF CueInv
<1>2. CASE Render
  <2> DEFINE fresh == slot # NoCue
             rest == IF fresh THEN CueChunks ELSE left
             plays == rest > 0 /\ paths = "radio"
  <2>1. MixCue
    BY <1>2 DEF Render, RenderInaudible, RenderWait, RenderFrame, RenderSilence,
                RenderConcealment, Chunk
  <2>2. /\ slot' = NoCue /\ triggered' = triggered
        /\ cue' = IF fresh THEN slot ELSE cue
        /\ left' = IF plays THEN rest - 1 ELSE rest
        /\ finished' = IF plays /\ rest = 1 THEN cue' ELSE finished
    BY <2>1 DEF MixCue
  <2>3. CueLeft = rest /\ CueLeft' = left' /\ rest \in 0..CueChunks
    BY <1>0, <2>2 DEF CueLeft
  <2>4. rest > 0 => cue' = triggered
    BY <1>0, <2>2 DEF CueInv
  <2>5. rest = 0 => finished = triggered
    BY <2>3 DEF CueInv
  <2> HIDE DEF rest, fresh
  <2>6. CASE plays
    <3>1. left' = rest - 1 /\ rest > 0 /\ cue' = triggered
      BY <2>2, <2>4, <2>6
    <3>2. left' = 0 => finished' = triggered'
      <4>1. rest \in Nat /\ (rest - 1 = 0 => rest = 1)
        BY <1>0, <2>3
      <4>2. left' = 0 => rest = 1
        BY <3>1, <4>1
      <4>3. rest = 1 => finished' = cue'
        BY <2>2, <2>6
      <4> QED
        BY <2>2, <3>1, <4>2, <4>3
    <3> QED
      BY <1>0, <1>2, <2>2, <2>3, <3>1, <3>2 DEF CueInv
  <2>7. CASE ~plays
    <3>1. left' = rest /\ finished' = finished /\ ~(paths = "radio" /\ CueLeft > 0)
      BY <2>2, <2>3, <2>7
    <3> QED
      BY <1>0, <2>2, <2>3, <2>4, <2>5, <3>1 DEF CueInv
  <2> QED
    BY <2>6, <2>7
<1>3. CASE ~TriggerBeep /\ ~Render
  <2>1. UNCHANGED <<slot, cue, left, triggered, finished>>
    BY <1>3 DEF Next, SendFrame, Lose, Overtake, EnqueueOpusFrame, SetStates, beep, vars
  <2> QED
    BY <1>0, <1>3, <2>1 DEF CueInv, CueLeft
<1> QED
  BY <1>1, <1>2, <1>3

(* Every chunk with a radio path brings the last cue nearer to its end, no  *)
(* matter when it was triggered or what it replaced, nothing but another    *)
(* cue puts it off, and none is dropped (RemoteVoiceSource.cpp:195-199,     *)
(* 221-255): CueLeft chunks are all it takes.                               *)
CueStep ==
  /\ ~TriggerBeep => CueLeft' <= CueLeft
  /\ Render /\ paths = "radio" /\ CueLeft > 0 => CueLeft' < CueLeft

THEOREM CueNears ==
  Spec => [](CueLeft \in Nat /\ (CueLeft = 0 => finished = triggered)) /\ [][CueStep]_vars
<1>1. Init => CueInv
  BY DEF Init, CueInv, CueLeft
<1>2. SourceInv /\ CueInv => CueLeft \in Nat /\ (CueLeft = 0 => finished = triggered)
  BY BufferAssumption DEF SourceInv, TypeOK, CueInv, CueLeft
<1>3. SourceInv /\ CueInv /\ [Next]_vars => CueInv'
  BY NextCue
<1>4. SourceInv /\ CueInv /\ [Next]_vars => [CueStep]_vars
  BY NextCue DEF CueStep
<1> QED
  BY InitSource, NextSource, <1>1, <1>2, <1>3, <1>4, PTL DEF Spec

----------------------------------------------------------------------------
(* The source comes to an end.  The premises say that the playback thread   *)
(* goes on while there is something to render, that the frames and the cues *)
(* end, and that a natural number does not fall for ever unless it rises    *)
(* again and again: true of every natural-valued expression, but only by an *)
(* induction that is beyond the provers here.                               *)
Rendering ==
  outcome # "silence" \/ (pending # <<>> /\ MayPlay) \/ (paths = "radio" /\ CueLeft > 0)

RenderRuns == <>[]Rendering => []<><<Render>>_vars
FramesEnd == <>[][~EnqueueOpusFrame]_vars
CuesEnd == <>[][~TriggerBeep]_vars

NoEndlessFall(n) == []<><<n' < n>>_vars => []<><<n' > n>>_vars

(* Once no more frames come, the source falls silent, whatever was lost,    *)
(* late or cut off (RemoteVoiceSource.cpp:73-159).                          *)
THEOREM SilenceCorrect ==
  Spec /\ RenderRuns /\ FramesEnd /\ NoEndlessFall(Remaining) => FallsSilent
<1> DEFINE S == outcome = "silence"
           N == Remaining \in Nat
           Falls == Remaining' < Remaining
           Rises == Remaining' > Remaining
<1>1. N <=> Remaining \in Nat
  OBVIOUS
<1>2. N /\ N' /\ [SilenceStep]_vars /\ [~EnqueueOpusFrame]_vars => ~<<Rises>>_vars
  BY DEF SilenceStep
<1>3. [SilenceStep]_vars /\ <<Render>>_vars => S' \/ <<Falls>>_vars
  BY DEF SilenceStep
<1>4. [Next]_vars /\ ~<<Render>>_vars => (S => S') /\ (~S => ~S')
  BY DEF Next, vars, SendFrame, Lose, Overtake, EnqueueOpusFrame, SetStates, TriggerBeep, buffer
<1>5. ~S => Rendering
  BY DEF Rendering
<1>6. Spec /\ RenderRuns /\ FramesEnd /\ NoEndlessFall(Remaining) => <>[]S
  <2> HIDE DEF S, N
  <2> QED
    BY <1>1, <1>2, <1>3, <1>4, <1>5, InitSource, NextSource, SilenceNears, PTL
       DEF Spec, RenderRuns, FramesEnd, NoEndlessFall
<1> QED
  BY <1>6 DEF FallsSilent

(* The frames in the queue.                                                 *)
Held == Len(pending)

(* A talkspurt that has arrived complete is played to its end, or dropped   *)
(* while the player cannot be heard: nothing stays in the queue             *)
(* (RemoteVoiceSource.cpp:106-131).                                         *)
THEOREM StuckCorrect ==
  Spec /\ RenderRuns /\ NoEndlessFall(Held) => NothingStuck
<1> DEFINE E == pending = <<>>
           K == Faultless /\ ~talking /\ net = <<>>
           Falls == Held' < Held
           Rises == Held' > Held
<1>1. ASSUME SourceInv, K, Render
      PROVE  /\ ~<<Rises>>_vars /\ (E => E')
             /\ ~E /\ MayPlay => Falls /\ vars' # vars
  <2>0. pending \in Seq(Frames) /\ Len(pending) \in Nat
    BY <1>1 DEF SourceInv, TypeOK
  <2>1. pending' = pending \/ pending' = <<>> \/ (pending # <<>> /\ pending' = Tail(pending))
    BY <1>1 DEF Render, RenderInaudible, RenderWait, RenderFrame, RenderSilence,
                RenderConcealment
  <2>2. ~E /\ MayPlay => pending' = <<>> \/ pending' = Tail(pending)
    BY <1>1 DEF Render, RenderInaudible, RenderWait, RenderFrame, RenderSilence,
                RenderConcealment
  <2>3. ~E => Len(pending) > 0 /\ Len(Tail(pending)) = Len(pending) - 1
    BY <2>0, TailFacts
  <2>4. Len(<< >>) = 0
    OBVIOUS
  <2>5. ~E /\ MayPlay => Falls /\ pending' # pending
    BY <2>0, <2>2, <2>3, <2>4 DEF Held
  <2>6. ~Rises
    BY <2>0, <2>1, <2>3, <2>4 DEF Held
  <2> QED
    BY <2>1, <2>5, <2>6 DEF vars
<1>2. ASSUME K, Next, ~Render PROVE pending' = pending
  BY <1>2 DEF Next, SendFrame, Lose, Overtake, EnqueueOpusFrame, SetStates, TriggerBeep, buffer
<1>3. SourceInv /\ K /\ [Next]_vars => (E => E') /\ ~<<Rises>>_vars
  <2>1. SourceInv => Len(pending) \in Nat
    BY DEF SourceInv, TypeOK
  <2>2. ASSUME SourceInv, K, [Next]_vars, ~Render PROVE (E => E') /\ ~Rises
    <3>1. pending' = pending
      BY <1>2, <2>2 DEF vars
    <3> QED
      BY <2>1, <2>2, <3>1 DEF Held
  <2>3. ASSUME SourceInv, K, Render PROVE (E => E') /\ ~<<Rises>>_vars
    BY <1>1, <2>3
  <2> QED
    BY <2>2, <2>3
<1>4. SourceInv /\ K /\ <<Render>>_vars /\ MayPlay => E \/ <<Falls>>_vars
  BY <1>1
<1>5. ~E /\ MayPlay => Rendering
  BY DEF Rendering
<1>6. (Faultless /\ ~talking /\ net = <<>> /\ pending # <<>> => MayPlay) => (K /\ ~E => MayPlay)
  OBVIOUS
<1>7. Faultless /\ (~talking /\ net = <<>>) => K
  OBVIOUS
<1>8. Spec /\ RenderRuns /\ NoEndlessFall(Held)
        => ([]Faultless /\ <>[](~talking /\ net = <<>>) => <>[]E)
  <2> HIDE DEF E, K
  <2> QED
    BY <1>3, <1>4, <1>5, <1>6, <1>7, InitSource, NextSource, CompletePlays, PTL
       DEF Spec, RenderRuns, NoEndlessFall
<1> QED
  BY <1>8 DEF NothingStuck, Faultless

(* The last cue triggered is played to its end once the player is received  *)
(* by radio for good (RemoteVoiceSource.cpp:195-199, 221-255).              *)
THEOREM CueCorrect ==
  Spec /\ RenderRuns /\ CuesEnd /\ NoEndlessFall(CueLeft) => CuePlayed
<1> DEFINE Z == CueLeft = 0
           N == CueLeft \in Nat
           R == paths = "radio"
           Falls == CueLeft' < CueLeft
           Rises == CueLeft' > CueLeft
<1>1. N /\ N' /\ [CueStep]_vars /\ [~TriggerBeep]_vars => (Z => Z') /\ ~<<Rises>>_vars
  <2>1. N /\ N' /\ CueStep /\ ~TriggerBeep => (Z => Z') /\ ~Rises
    BY DEF CueStep
  <2>2. UNCHANGED vars => (Z => Z') /\ ~<<Rises>>_vars
    BY DEF vars, CueLeft
  <2> QED
    BY <2>1, <2>2
<1>2. N /\ R /\ [CueStep]_vars /\ <<Render>>_vars => Z \/ <<Falls>>_vars
  BY DEF CueStep
<1>3. N /\ R /\ ~Z => Rendering
  BY DEF Rendering
<1>4. (N <=> CueLeft \in Nat) /\ (Z <=> CueLeft = 0) /\ (R <=> paths = "radio")
  OBVIOUS
<1> HIDE DEF N, Z, R
<1> QED
  BY <1>1, <1>2, <1>3, <1>4, CueNears, PTL
     DEF Spec, RenderRuns, CuesEnd, NoEndlessFall, CuePlayed

============================================================================
