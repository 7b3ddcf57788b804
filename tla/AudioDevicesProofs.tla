------------------------- MODULE AudioDevicesProofs -------------------------
(***************************************************************************)
(* Proofs about AudioDevices, for every set of devices and rates, every    *)
(* size of packets, requests, chunks and frames.                           *)
(***************************************************************************)
EXTENDS AudioDevices, SequenceTheorems, TLAPS

Running == stage = "running"

(* The types that the arithmetic of the resampler rests on.                 *)
StreamTypes ==
  /\ flow \in {"Capture", "Render"}
  /\ stage \in {"waiting", "resolved", "running"}
  /\ plugged \subseteq Devices
  /\ device \in Devices \cup {NoDevice}
  /\ default \in plugged \cup {NoDevice}
  /\ (stage = "waiting" <=> device = NoDevice)
  /\ id \in {device, NoDevice} /\ lost \in BOOLEAN /\ jammed \in BOOLEAN
  /\ session \in Nat /\ changes \in Nat
  /\ head \in Nat /\ size \in Nat /\ cursor \in Nat
  /\ frame \in Seq(SampleType) /\ Len(frame) < FrameSamples
  /\ out \in Seq(SampleType)

(* The sample at place i of what a session hands out, and a sequence of     *)
(* samples that follow the session's first k.                               *)
At(i) == [session |-> session, at |-> (i - 1) * Step]

From(s, k) == s \in Seq(SampleType) /\ \A i \in 1..Len(s) : s[i] = At(k + i)

(* The cursor is where the samples handed out and those in the frame end;   *)
(* outside a session there are none.                                        *)
StreamInv ==
  /\ flow = "Render" => frame = <<>>
  /\ ~Running => head = 0 /\ size = 0 /\ cursor = 0 /\ frame = <<>> /\ out = <<>>
  /\ Running =>
       /\ head * Unit + cursor = (Len(out) + Len(frame)) * Step
       /\ From(out, 0) /\ From(frame, Len(out))

LEMMA RatesPositive ==
  ASSUME flow \in {"Capture", "Render"}, device \in Devices
  PROVE  Step \in Nat \ {0} /\ Unit \in Nat \ {0}
  BY RatesAssumption DEF Step, Unit

(* The division that the casts of the cursor to size_t are.                 *)
LEMMA Division ==
  ASSUME NEW a \in Nat, NEW u \in Nat \ {0}
  PROVE  /\ a \div u \in Nat
         /\ (a \div u) * u <= a
         /\ a < (a \div u + 1) * u
  OBVIOUS

LEMMA Distributes ==
  ASSUME NEW a \in Int, NEW b \in Int, NEW u \in Int
  PROVE  (a + b) * u = a * u + b * u
  OBVIOUS

(* Cutting the buffer moves its beginning, never the place of the cursor.   *)
LEMMA DropKeepsPlace ==
  ASSUME NEW n \in Nat, NEW c \in Nat, head \in Nat, Unit \in Nat \ {0},
         DropConsumed(n, c)
  PROVE  /\ head' \in Nat /\ size' \in Nat /\ cursor' \in Nat
         /\ head' * Unit + cursor' = head * Unit + c
<1> DEFINE consumed == c \div Unit
           dropped  == IF consumed <= n THEN consumed ELSE 0
<1>1. consumed \in Nat /\ consumed * Unit <= c
  BY Division
<1>2. dropped \in Nat /\ dropped <= n /\ dropped * Unit \in Nat /\ dropped * Unit <= c
  BY <1>1
<1>3. head' = head + dropped /\ size' = n - dropped /\ cursor' = c - dropped * Unit
  BY DEF DropConsumed
<1>4. (head + dropped) * Unit = head * Unit + dropped * Unit
  BY <1>2, Distributes
<1>5. head * Unit \in Nat
  OBVIOUS
<1> QED
  BY <1>2, <1>3, <1>4, <1>5

LEMMA ReadyNat ==
  ASSUME NEW n \in Nat, cursor \in Nat, Unit \in Nat \ {0}, Step \in Nat \ {0}
  PROVE  Ready(n) \in Nat
<1>1. CASE cursor < (n - 1) * Unit
  <2>1. (n - 1) * Unit - cursor - 1 \in Nat
    BY <1>1
  <2>2. ((n - 1) * Unit - cursor - 1) \div Step \in Nat
    BY <2>1, Division
  <2> QED
    BY <1>1, <2>2 DEF Ready
<1>2. CASE ~(cursor < (n - 1) * Unit)
  BY <1>2 DEF Ready
<1> QED
  BY <1>1, <1>2

(* What is interpolated continues where the cursor stands.                  *)
LEMMA SamplesContinue ==
  ASSUME NEW n \in Nat, NEW k \in Nat, session \in Nat, head \in Nat, cursor \in Nat,
         Unit \in Nat \ {0}, Step \in Nat \ {0}, head * Unit + cursor = k * Step
  PROVE  From(Samples(n), k) /\ Len(Samples(n)) = n
<1>1. ASSUME NEW i \in 1..n
      PROVE  /\ head * Unit + cursor + (i - 1) * Step = (k + i - 1) * Step
             /\ (k + i - 1) * Step \in Nat
  <2>1. (k + (i - 1)) * Step = k * Step + (i - 1) * Step
    BY Distributes
  <2> QED
    BY <2>1
<1>2. \A i \in 1..n : Samples(n)[i] = At(k + i)
  BY <1>1 DEF Samples, At
<1>3. Samples(n) \in [1..n -> SampleType]
  BY <1>1 DEF Samples, SampleType
<1>4. Samples(n) \in Seq(SampleType) /\ Len(Samples(n)) = n
  BY <1>3
<1> QED
  BY <1>2, <1>4 DEF From

LEMMA FromConcat ==
  ASSUME NEW s, NEW t, NEW k \in Nat, From(s, k), From(t, k + Len(s))
  PROVE  From(s \o t, k) /\ Len(s \o t) = Len(s) + Len(t)
<1>1. s \in Seq(SampleType) /\ t \in Seq(SampleType)
  BY DEF From
<1>2. Len(s) \in Nat /\ Len(t) \in Nat
  BY <1>1
<1> DEFINE joined == s \o t
<1>3. /\ joined \in Seq(SampleType) /\ Len(joined) = Len(s) + Len(t)
      /\ \A i \in 1..Len(s) + Len(t) :
           joined[i] = IF i <= Len(s) THEN s[i] ELSE t[i - Len(s)]
  BY <1>1, ConcatProperties
<1> HIDE DEF joined
<1>4. ASSUME NEW i \in 1..Len(joined) PROVE joined[i] = At(k + i)
  <2>1. CASE i <= Len(s)
    <3>1. joined[i] = s[i] /\ i \in 1..Len(s)
      BY <1>2, <1>3, <2>1
    <3> QED
      BY <3>1 DEF From
  <2>2. CASE i > Len(s)
    <3>1. i - Len(s) \in 1..Len(t) /\ joined[i] = t[i - Len(s)]
      BY <1>2, <1>3, <2>2
    <3>2. t[i - Len(s)] = At(k + Len(s) + (i - Len(s)))
      BY <3>1 DEF From
    <3>3. k + Len(s) + (i - Len(s)) = k + i
      BY <1>2, <1>3
    <3> QED
      BY <3>1, <3>2, <3>3
  <2> QED
    BY <1>2, <1>3, <2>1, <2>2
<1>5. From(joined, k) /\ Len(joined) = Len(s) + Len(t)
  BY <1>3, <1>4 DEF From
<1> QED
  BY <1>5 DEF joined

LEMMA FromPart ==
  ASSUME NEW s, NEW k \in Nat, From(s, k), NEW m \in Nat, NEW n \in Nat,
         m <= n, n <= Len(s)
  PROVE  From(SubSeq(s, m + 1, n), k + m) /\ Len(SubSeq(s, m + 1, n)) = n - m
<1> DEFINE part == SubSeq(s, m + 1, n)
<1>1. s \in Seq(SampleType) /\ Len(s) \in Nat
  BY DEF From
<1>2. \A i \in (m + 1)..n : s[i] \in SampleType
  BY <1>1
<1>3. /\ part \in Seq(SampleType)
      /\ Len(part) = IF m + 1 <= n THEN n - (m + 1) + 1 ELSE 0
      /\ \A i \in 1..(n - (m + 1) + 1) : part[i] = s[(m + 1) + i - 1]
  BY <1>2, SubSeqProperties
<1> HIDE DEF part
<1>4. Len(part) = n - m
  BY <1>3
<1>5. ASSUME NEW i \in 1..Len(part) PROVE part[i] = At((k + m) + i)
  <2>1. /\ i \in 1..(n - (m + 1) + 1) /\ (m + 1) + i - 1 = m + i
        /\ m + i \in 1..Len(s) /\ k + (m + i) = (k + m) + i
    BY <1>1, <1>4
  <2>2. part[i] = s[m + i]
    BY <1>3, <2>1
  <2>3. s[m + i] = At(k + (m + i))
    BY <2>1 DEF From
  <2> QED
    BY <2>1, <2>2, <2>3
<1>6. From(part, k + m) /\ Len(part) = n - m
  BY <1>3, <1>4, <1>5 DEF From
<1> QED
  BY <1>6 DEF part

(* A packet moves the complete frames to the callback and keeps the rest.   *)
LEMMA PacketKeeps ==
  ASSUME StreamTypes, StreamInv, NEW n \in 1..MaxBlock, Packet(n)
  PROVE  StreamTypes' /\ StreamInv'
<1> DEFINE held  == size + n
           ready == Ready(held)
           new   == Samples(ready)
           all   == frame \o new
           count == Len(out) + Len(frame)
           full  == Len(all) - (Len(all) % FrameSamples)
<1>1. Running /\ device \in Devices /\ flow = "Capture"
      /\ UNCHANGED <<flow, endpoints, loop>>
  BY DEF Packet, Running, StreamTypes
<1>2. /\ Step \in Nat \ {0} /\ Unit \in Nat \ {0} /\ Step' = Step /\ Unit' = Unit
      /\ session' = session
  BY <1>1, RatesPositive DEF StreamTypes, Step, Unit, loop
<1>3. held \in Nat /\ ready \in Nat /\ Len(out) \in Nat /\ Len(frame) \in Nat
  <2>1. held \in Nat /\ cursor \in Nat
    BY SizesAssumption DEF StreamTypes
  <2>2. ready \in Nat
    BY <1>2, <2>1, ReadyNat
  <2> QED
    BY <2>1, <2>2 DEF StreamTypes
<1>4. /\ head * Unit + cursor = count * Step
      /\ From(out, 0) /\ From(frame, Len(out))
  BY <1>1 DEF StreamInv
<1>5. From(new, count) /\ Len(new) = ready
  <2>1. count \in Nat
    BY <1>3
  <2> QED
    BY <1>2, <1>3, <1>4, <2>1, SamplesContinue DEF StreamTypes
<1>6. From(all, Len(out)) /\ Len(all) = Len(frame) + ready
  BY <1>3, <1>4, <1>5, FromConcat
<1>7. /\ out' = out \o SubSeq(all, 1, full)
      /\ frame' = SubSeq(all, full + 1, Len(all))
      /\ DropConsumed(held, cursor + ready * Step)
  BY DEF Packet
<1> HIDE DEF new, all
<1>8. Len(all) \in Nat /\ full \in Nat /\ full <= Len(all) /\ Len(all) - full < FrameSamples
  <2>1. Len(all) \in Nat /\ FrameSamples \in Nat \ {0}
    BY <1>3, <1>6, SizesAssumption
  <2>2. /\ Len(all) % FrameSamples \in 0..(FrameSamples - 1)
        /\ Len(all) % FrameSamples <= Len(all)
    BY <2>1
  <2> QED
    BY <2>1, <2>2
<1> HIDE DEF full
<1>9. /\ From(SubSeq(all, 1, full), Len(out)) /\ Len(SubSeq(all, 1, full)) = full
      /\ From(frame', Len(out) + full) /\ Len(frame') = Len(all) - full
  <2>1. 0 \in Nat /\ 0 <= full /\ 0 + 1 = 1 /\ Len(out) + 0 = Len(out) /\ full - 0 = full
    BY <1>3, <1>8
  <2>2. From(SubSeq(all, 0 + 1, full), Len(out) + 0) /\ Len(SubSeq(all, 0 + 1, full)) = full - 0
    BY <1>3, <1>6, <1>8, <2>1, FromPart
  <2>3. /\ From(SubSeq(all, full + 1, Len(all)), Len(out) + full)
        /\ Len(SubSeq(all, full + 1, Len(all))) = Len(all) - full
    BY <1>3, <1>6, <1>8, FromPart
  <2> QED
    BY <1>7, <2>1, <2>2, <2>3
<1>10. From(out', 0) /\ Len(out') = Len(out) + full
  <2>1. 0 + Len(out) = Len(out) /\ 0 \in Nat
    BY <1>3
  <2> QED
    BY <1>4, <1>7, <1>9, <2>1, FromConcat
<1>11. cursor + ready * Step \in Nat
  BY <1>2, <1>3 DEF StreamTypes
<1>12. /\ head' \in Nat /\ size' \in Nat /\ cursor' \in Nat
       /\ head' * Unit + cursor' = head * Unit + (cursor + ready * Step)
  BY <1>2, <1>3, <1>7, <1>11, DropKeepsPlace DEF StreamTypes
<1>13. head' * Unit + cursor' = (Len(out') + Len(frame')) * Step
  <2>1. (count + ready) * Step = count * Step + ready * Step
    BY <1>2, <1>3, Distributes
  <2>2. Len(out') + Len(frame') = count + ready
    BY <1>3, <1>6, <1>8, <1>9, <1>10, SMTT(30)
  <2>3. head * Unit \in Nat /\ ready * Step \in Nat /\ cursor \in Nat
    BY <1>2, <1>3 DEF StreamTypes
  <2>4. head' * Unit + cursor' = count * Step + ready * Step
    BY <1>4, <1>12, <2>3, SMTT(30)
  <2> QED
    BY <1>2, <2>1, <2>2, <2>4
<1>14. StreamTypes'
  <2>1. /\ flow' = flow /\ stage' = stage /\ plugged' = plugged /\ device' = device
        /\ default' = default /\ id' = id /\ lost' = lost /\ jammed' = jammed
        /\ session' = session /\ changes' = changes
    BY <1>1 DEF endpoints, loop
  <2>2. out' \in Seq(SampleType) /\ frame' \in Seq(SampleType)
    BY <1>9, <1>10 DEF From
  <2>3. Len(frame') < FrameSamples
    BY <1>8, <1>9
  <2> QED
    BY <1>12, <2>1, <2>2, <2>3 DEF StreamTypes
<1>15. From(out, 0)' /\ From(frame, Len(out))'
  <2>1. Len(out') = Len(out) + full
    BY <1>10
  <2> QED
    BY <1>2, <1>9, <1>10, <2>1 DEF From, At
<1> QED
  BY <1>1, <1>2, <1>13, <1>14, <1>15 DEF StreamInv, Running, loop

(* A request hands out exactly what is interpolated for it.                 *)
LEMMA RequestKeeps ==
  ASSUME StreamTypes, StreamInv, NEW n \in 1..MaxBlock, Request(n)
  PROVE  StreamTypes' /\ StreamInv'
<1> DEFINE held == size + Chunks(n) * ChunkFrames
           last == (cursor + (n - 1) * Step) \div Unit
<1>1. /\ Running /\ device \in Devices /\ flow = "Render" /\ frame = <<>>
      /\ UNCHANGED <<flow, endpoints, loop, frame>>
  BY DEF Request, Running, StreamTypes, StreamInv
<1>2. /\ Step \in Nat \ {0} /\ Unit \in Nat \ {0} /\ Step' = Step /\ Unit' = Unit
      /\ session' = session
  BY <1>1, RatesPositive DEF StreamTypes, Step, Unit, loop
<1>3. /\ n \in Nat \ {0} /\ ChunkFrames \in Nat \ {0}
      /\ Len(out) \in Nat /\ Len(frame) = 0
      /\ size \in Nat /\ cursor \in Nat /\ head \in Nat /\ session \in Nat
  BY <1>1, SizesAssumption DEF StreamTypes
<1>4. held \in Nat
  <2>1. (n - 1) * Step \in Nat
    BY <1>2, <1>3
  <2>2. last \in Nat
    BY <1>2, <1>3, <2>1, Division
  <2>3. Chunks(n) \in Nat
    <3>1. CASE last + 1 < size
      BY <3>1 DEF Chunks
    <3>2. CASE ~(last + 1 < size)
      <4>1. last + 1 - size \in Nat
        BY <1>3, <2>2, <3>2
      <4>2. (last + 1 - size) \div ChunkFrames \in Nat
        BY <1>3, <4>1, Division
      <4> QED
        BY <3>2, <4>2 DEF Chunks
    <3> QED
      BY <3>1, <3>2
  <2> QED
    BY <1>3, <2>3
<1>5. head * Unit + cursor = Len(out) * Step /\ From(out, 0) /\ From(frame, Len(out))
  BY <1>1, <1>3 DEF StreamInv
<1>6. From(Samples(n), Len(out)) /\ Len(Samples(n)) = n
  BY <1>2, <1>3, <1>5, SamplesContinue
<1>7. out' = out \o Samples(n) /\ DropConsumed(held, cursor + n * Step)
  BY DEF Request
<1>8. From(out', 0) /\ Len(out') = Len(out) + n
  <2>1. 0 + Len(out) = Len(out) /\ 0 \in Nat
    BY <1>3
  <2> QED
    BY <1>5, <1>6, <1>7, <2>1, FromConcat
<1>9. cursor + n * Step \in Nat /\ n * Step \in Nat
  BY <1>2, <1>3
<1>10. /\ head' \in Nat /\ size' \in Nat /\ cursor' \in Nat
       /\ head' * Unit + cursor' = head * Unit + (cursor + n * Step)
  BY <1>2, <1>3, <1>4, <1>7, <1>9, DropKeepsPlace
<1>11. head' * Unit + cursor' = (Len(out') + Len(frame')) * Step
  <2>1. (Len(out) + n) * Step = Len(out) * Step + n * Step
    BY <1>2, <1>3, Distributes
  <2>2. Len(out') + Len(frame') = Len(out) + n
    BY <1>1, <1>3, <1>8
  <2>3. head * Unit \in Nat
    BY <1>2, <1>3
  <2>4. head' * Unit + cursor' = Len(out) * Step + n * Step
    BY <1>3, <1>5, <1>9, <1>10, <2>3, SMTT(30)
  <2>5. (Len(out') + Len(frame')) * Step = (Len(out) + n) * Step
    BY <2>2
  <2> QED
    BY <2>1, <2>4, <2>5
<1>12. StreamTypes'
  <2>1. /\ flow' = flow /\ stage' = stage /\ plugged' = plugged /\ device' = device
        /\ default' = default /\ id' = id /\ lost' = lost /\ jammed' = jammed
        /\ session' = session /\ changes' = changes
        /\ frame' = frame
    BY <1>1 DEF endpoints, loop
  <2>2. out' \in Seq(SampleType)
    BY <1>8 DEF From
  <2> QED
    BY <1>10, <2>1, <2>2 DEF StreamTypes
<1>13. From(out, 0)' /\ From(frame, Len(out))'
  <2>1. frame' = <<>> /\ <<>> \in Seq(SampleType) /\ Len(<<>>) = 0
    BY <1>1
  <2> QED
    BY <1>2, <1>8, <2>1 DEF From, At
<1> QED
  BY <1>1, <1>2, <1>11, <1>12, <1>13 DEF StreamInv, Running, loop

(* The supervision loop begins a session with nothing and ends it so.       *)
LEMMA LoopKeeps ==
  ASSUME StreamTypes, StreamInv,
         Resolve \/ Activate \/ CallFails \/ Jam \/ Unjam \/ DefaultCheck
  PROVE  StreamTypes' /\ StreamInv'
<1>1. CASE Resolve
  <2>1. /\ stage = "waiting" /\ stage' = "resolved" /\ device' = default
        /\ default # NoDevice
        /\ flow' = flow /\ plugged' = plugged /\ default' = default
        /\ id' \in {default, NoDevice} /\ changes' \in {changes, changes + 1}
        /\ lost' = lost /\ jammed' = jammed /\ session' = session
        /\ head' = head /\ size' = size /\ cursor' = cursor /\ frame' = frame /\ out' = out
    BY <1>1 DEF Resolve, Change, stream
  <2>2. device' \in Devices /\ device' # NoDevice
    BY <2>1 DEF StreamTypes
  <2>3. StreamTypes'
    BY <2>1, <2>2 DEF StreamTypes
  <2> QED
    BY <2>1, <2>3 DEF StreamInv, Running
<1>2. CASE Activate
  <2>1. /\ stage = "resolved"
        /\ flow' = flow /\ plugged' = plugged /\ default' = default
        /\ changes' \in {changes, changes + 1}
        /\ head' = head /\ size' = size /\ cursor' = cursor /\ frame' = frame /\ out' = out
    BY <1>2 DEF Activate, Change, stream
  <2>2. head = 0 /\ size = 0 /\ cursor = 0 /\ frame = <<>> /\ out = <<>>
    BY <2>1 DEF StreamInv, Running
  <2>3. CASE Back /\ session' = session
    <3>1. /\ stage' = "waiting" /\ device' = NoDevice /\ id' = NoDevice /\ lost' = FALSE
          /\ jammed' = FALSE /\ session' = session
      BY <2>3 DEF Back
    <3>2. /\ lost' \in BOOLEAN /\ jammed' \in BOOLEAN /\ id' \in {device', NoDevice}
          /\ device' \in Devices \cup {NoDevice} /\ (stage' = "waiting" <=> device' = NoDevice)
      BY <3>1
    <3>3. changes' \in Nat /\ session' \in Nat
      BY <2>1, <3>1 DEF StreamTypes
    <3>4. StreamTypes'
      BY <2>1, <3>1, <3>2, <3>3 DEF StreamTypes
    <3> QED
      BY <2>1, <2>2, <2>3, <3>4 DEF StreamInv, Running, Back
  <2>4. CASE ~(Back /\ session' = session)
    <3>1. /\ stage' = "running" /\ session' = session + 1 /\ device' = device
          /\ id' = id /\ lost' = lost /\ jammed' = jammed
      BY <1>2, <2>4 DEF Activate
    <3>2. StreamTypes'
      BY <2>1, <3>1 DEF StreamTypes
    <3>3. device \in Devices
      BY <2>1 DEF StreamTypes
    <3>4. Step' \in Nat \ {0} /\ Unit' \in Nat \ {0}
      BY <2>1, <3>1, <3>3, RatesPositive DEF StreamTypes, Step, Unit
    <3>5. head' * Unit' + cursor' = (Len(out') + Len(frame')) * Step'
      <4>1. Len(out') = 0 /\ Len(frame') = 0 /\ head' = 0 /\ cursor' = 0
        BY <2>1, <2>2
      <4> QED
        BY <3>4, <4>1
    <3>6. From(out, 0)' /\ From(frame, Len(out))'
      BY <2>1, <2>2 DEF From
    <3> QED
      BY <2>1, <2>2, <3>1, <3>2, <3>5, <3>6 DEF StreamInv, Running
  <2> QED
    BY <2>3, <2>4
<1>3. ASSUME End, UNCHANGED <<plugged, default>>, changes' \in Nat
      PROVE  StreamTypes' /\ StreamInv'
  <2>1. /\ flow' = flow /\ session' = session /\ plugged' = plugged /\ default' = default
        /\ stage' = "waiting" /\ device' = NoDevice /\ id' = NoDevice
        /\ lost' = FALSE /\ jammed' = FALSE
        /\ head' = 0 /\ size' = 0 /\ cursor' = 0 /\ frame' = <<>> /\ out' = <<>>
    BY <1>3 DEF End, Back, Forget
  <2>2. FrameSamples \in Nat \ {0}
    BY SizesAssumption
  <2>3. frame' \in Seq(SampleType) /\ out' \in Seq(SampleType) /\ Len(frame') < FrameSamples
    BY <2>1, <2>2
  <2>4. StreamTypes'
    BY <1>3, <2>1, <2>3 DEF StreamTypes
  <2> QED
    BY <2>1, <2>4 DEF StreamInv, Running
<1>4. CASE CallFails
  <2>1. End /\ UNCHANGED <<plugged, default>>
    BY <1>4 DEF CallFails
  <2>2. changes' \in Nat
    BY <1>4 DEF CallFails, Change, StreamTypes
  <2> QED
    BY <1>3, <2>1, <2>2
<1>5. CASE DefaultCheck
  <2>1. End /\ UNCHANGED <<plugged, default>> /\ changes' \in Nat
    BY <1>5 DEF DefaultCheck, endpoints, StreamTypes
  <2> QED
    BY <1>3, <2>1
<1>6. CASE Jam \/ Unjam
  <2>1. /\ flow' = flow /\ plugged' = plugged /\ default' = default /\ stage' = stage
        /\ device' = device /\ id' = id /\ lost' = lost /\ session' = session
        /\ changes' \in {changes, changes + 1} /\ jammed' \in BOOLEAN
        /\ head' = head /\ size' = size /\ cursor' = cursor /\ frame' = frame /\ out' = out
    BY <1>6 DEF Jam, Unjam, Change, endpoints, stream
  <2>2. StreamTypes'
    BY <2>1 DEF StreamTypes
  <2>3. Step' = Step /\ Unit' = Unit
    BY <2>1 DEF Step, Unit
  <2>4. (From(out, 0) => From(out, 0)') /\ (From(frame, Len(out)) => From(frame, Len(out))')
    BY <2>1, <2>3 DEF From, At
  <2> QED
    BY <2>1, <2>2, <2>3, <2>4 DEF StreamInv, Running
<1> QED
  BY <1>1, <1>2, <1>4, <1>5, <1>6

(* What happens to the devices touches no sample.                           *)
LEMMA DevicesKeep ==
  ASSUME StreamTypes, StreamInv,
         UNCHANGED vars \/ \E d \in Devices : Unplug(d) \/ Plug(d) \/ Choose(d)
  PROVE  StreamTypes' /\ StreamInv'
<1>1. /\ flow' = flow /\ stage' = stage /\ device' = device /\ session' = session
      /\ id' = id /\ jammed' = jammed
      /\ head' = head /\ size' = size /\ cursor' = cursor /\ frame' = frame /\ out' = out
  BY DEF vars, loop, stream, Unplug, Plug, Choose
<1>2. plugged' \subseteq Devices /\ default' \in plugged' \cup {NoDevice}
  BY DEF StreamTypes, vars, endpoints, Unplug, Plug, Choose
<1>3. changes' \in Nat
  BY DEF StreamTypes, vars, endpoints, Unplug, Plug, Choose, Change
<1>4. lost' \in BOOLEAN
  <2>1. lost' = lost \/ lost' = (lost \/ (stage = "running" /\ \E d \in Devices : device = d))
    BY DEF StreamTypes, vars, loop, Unplug, Plug, Choose
  <2> QED
    BY <2>1 DEF StreamTypes
<1>5. StreamTypes'
  BY <1>1, <1>2, <1>3, <1>4 DEF StreamTypes
<1>6. Running => Step' = Step /\ Unit' = Unit
  BY <1>1 DEF Step, Unit
<1>7. (From(out, 0) => From(out, 0)') /\ (From(frame, Len(out)) => From(frame, Len(out))')
  BY <1>1, <1>6 DEF From, At, Step
<1> QED
  BY <1>1, <1>5, <1>6, <1>7 DEF StreamInv, Running

(* The place of the cursor and every sample before it are as StreamInv says *)
(* at all times.                                                            *)
LEMMA StreamAlways == Spec => [](StreamTypes /\ StreamInv)
<1>1. Init => StreamTypes /\ StreamInv
  <2> SUFFICES ASSUME Init PROVE StreamTypes /\ StreamInv
    OBVIOUS
  <2>1. FrameSamples \in Nat \ {0}
    BY SizesAssumption
  <2>2. frame \in Seq(SampleType) /\ out \in Seq(SampleType) /\ Len(frame) < FrameSamples
    BY <2>1 DEF Init
  <2>3. default \in plugged \cup {NoDevice}
    BY DEF Init
  <2>4. StreamTypes
    BY <2>2, <2>3 DEF Init, StreamTypes
  <2> QED
    BY <2>4 DEF Init, StreamInv, Running
<1>2. StreamTypes /\ StreamInv /\ [Next]_vars => StreamTypes' /\ StreamInv'
  BY PacketKeeps, RequestKeeps, LoopKeeps, DevicesKeep DEF Next
<1> QED
  BY <1>1, <1>2, PTL DEF Spec

(* No sample is skipped, repeated or taken from another session, for every  *)
(* pair of rates and whatever the packets, the requests and the devices do  *)
(* (WasapiCaptureEngine.cpp:74-107, :133-137, PlaybackMixer.cpp:329-382).   *)
THEOREM StreamCorrect == Spec => []Contiguous
<1>1. StreamTypes /\ StreamInv => Contiguous
  <2> SUFFICES ASSUME StreamTypes, StreamInv PROVE Contiguous
    OBVIOUS
  <2>1. CASE Running
    <3>1. From(out, 0)
      BY <2>1 DEF StreamInv
    <3>2. ASSUME NEW i \in 1..Len(out) PROVE out[i] = At(i)
      <4>1. out[i] = At(0 + i) /\ 0 + i = i
        BY <3>1 DEF From
      <4> QED
        BY <4>1
    <3>3. DOMAIN out = 1..Len(out)
      BY DEF StreamTypes
    <3> QED
      BY <3>2, <3>3 DEF Contiguous, At
  <2>2. CASE ~Running
    BY <2>2 DEF StreamInv, Contiguous
  <2> QED
    BY <2>1, <2>2
<1> QED
  BY <1>1, StreamAlways, PTL

(* Multiplication by a positive number keeps the order of two numbers.      *)
LEMMA Cancel ==
  ASSUME NEW a \in Int, NEW b \in Int, NEW u \in Nat \ {0}, a * u < b * u
  PROVE  a < b
<1> SUFFICES ASSUME b <= a PROVE FALSE
  OBVIOUS
<1> DEFINE d == a - b
<1>1. d \in Nat /\ a = b + d
  OBVIOUS
<1> HIDE DEF d
<1>2. d * u \in Nat /\ b * u \in Int
  BY <1>1
<1>3. a * u = b * u + d * u
  BY <1>1, Distributes
<1> QED
  BY <1>2, <1>3

LEMMA Scales ==
  ASSUME NEW a \in Nat, NEW b \in Nat, NEW u \in Nat, a <= b
  PROVE  a * u <= b * u /\ a * u \in Nat /\ b * u \in Nat
<1> DEFINE d == b - a
<1>1. d \in Nat /\ b = a + d
  OBVIOUS
<1> HIDE DEF d
<1>2. d * u \in Nat /\ a * u \in Nat
  BY <1>1
<1>3. b * u = a * u + d * u
  BY <1>1, Distributes
<1> QED
  BY <1>2, <1>3

(* A cursor that is in the buffer, or in the sample behind it, stays there  *)
(* when the buffer is cut, and what it has passed leaves.                   *)
LEMMA CutKeepsCursorNear ==
  ASSUME NEW h \in Nat, NEW k \in Nat, NEW c \in Nat, Unit \in Nat \ {0},
         k * Unit <= c, c < (h + 1) * Unit, DropConsumed(h, c)
  PROVE  /\ size' \in Nat /\ size' <= h - k
         /\ cursor' < (size' + 1) * Unit
<1> DEFINE d == c \div Unit
<1>1. d \in Nat /\ d * Unit <= c /\ c < (d + 1) * Unit
  BY Division
<1> HIDE DEF d
<1>2. d * Unit \in Nat /\ (h + 1) * Unit \in Nat /\ k * Unit \in Nat /\ (d + 1) * Unit \in Nat
  BY <1>1
<1>3. d < h + 1
  BY <1>1, <1>2, Cancel
<1>4. k < d + 1
  BY <1>1, <1>2, Cancel
<1>5. size' = h - d /\ cursor' = c - d * Unit
  BY <1>1, <1>3 DEF DropConsumed, d
<1>6. (size' + 1) * Unit = (h + 1) * Unit - d * Unit
  <2>1. h + 1 = (size' + 1) + d /\ size' + 1 \in Int
    BY <1>1, <1>5
  <2>2. ((size' + 1) + d) * Unit = (size' + 1) * Unit + d * Unit
    BY <1>1, <2>1, Distributes
  <2>3. (size' + 1) * Unit \in Int
    BY <2>1
  <2> QED
    BY <1>2, <2>1, <2>2, <2>3
<1> QED
  BY <1>1, <1>2, <1>3, <1>4, <1>5, <1>6

(* Interpolating all that can be interpolated takes the cursor to the last  *)
(* sample, and not further than a step beyond.                              *)
LEMMA ReadyReaches ==
  ASSUME NEW h \in Nat \ {0}, cursor \in Nat, Unit \in Nat \ {0}, Step \in Nat \ {0},
         Step <= 2 * Unit, cursor < (h + 1) * Unit
  PROVE  /\ (h - 1) * Unit <= cursor + Ready(h) * Step
         /\ cursor + Ready(h) * Step < (h + 1) * Unit
<1>1. (h - 1) * Unit \in Nat /\ (h + 1) * Unit = (h - 1) * Unit + 2 * Unit
  <2>1. h - 1 \in Nat /\ h + 1 = (h - 1) + 2
    OBVIOUS
  <2>2. ((h - 1) + 2) * Unit = (h - 1) * Unit + 2 * Unit
    BY <2>1, Distributes
  <2>3. (h - 1) * Unit \in Nat
    BY <2>1
  <2> QED
    BY <2>1, <2>2, <2>3
<1>2. CASE cursor < (h - 1) * Unit
  <2> DEFINE g == (h - 1) * Unit - cursor - 1
             q == g \div Step
  <2>1. g \in Nat
    BY <1>1, <1>2
  <2>2. q \in Nat /\ q * Step <= g /\ g < (q + 1) * Step
    BY <2>1, Division
  <2>3. Ready(h) = q + 1
    BY <1>2 DEF Ready
  <2> HIDE DEF q
  <2>4. (q + 1) * Step = q * Step + 1 * Step
    BY <2>2, Distributes
  <2>5. q * Step \in Nat /\ 1 * Step = Step /\ (q + 1) * Step \in Nat
    BY <2>2
  <2>6. (h - 1) * Unit = g + cursor + 1
    BY <1>1, <2>1
  <2> HIDE DEF g
  <2> QED
    BY <1>1, <2>1, <2>2, <2>3, <2>4, <2>5, <2>6
<1>3. CASE ~(cursor < (h - 1) * Unit)
  <2>1. Ready(h) = 0 /\ 0 * Step = 0
    BY <1>3 DEF Ready
  <2> QED
    BY <1>1, <1>3, <2>1
<1> QED
  BY <1>2, <1>3

(* The mixer mixes enough, and at most a chunk more than enough.            *)
LEMMA ChunksSuffice ==
  ASSUME NEW n \in Nat \ {0}, cursor \in Nat, size \in Nat,
         Unit \in Nat \ {0}, Step \in Nat \ {0}, ChunkFrames \in Nat \ {0},
         NEW last, last = (cursor + (n - 1) * Step) \div Unit,
         NEW held, held = size + Chunks(n) * ChunkFrames
  PROVE  /\ last \in Nat /\ held \in Nat /\ last + 2 <= held
         /\ held <= size \/ held <= last + 1 + ChunkFrames
<1>1. last \in Nat
  <2>1. (n - 1) * Step \in Nat
    OBVIOUS
  <2>2. cursor + (n - 1) * Step \in Nat
    BY <2>1
  <2> QED
    BY <2>2, Division
<1>2. CASE last + 1 < size
  <2>1. Chunks(n) = 0 /\ 0 * ChunkFrames = 0
    BY <1>2 DEF Chunks
  <2> QED
    BY <1>1, <1>2, <2>1
<1>3. CASE ~(last + 1 < size)
  <2> DEFINE g == last + 1 - size
             q == g \div ChunkFrames
  <2>1. g \in Nat
    BY <1>1, <1>3
  <2>2. q \in Nat /\ q * ChunkFrames <= g /\ g < (q + 1) * ChunkFrames
    BY <2>1, Division
  <2>3. Chunks(n) = q + 1
    BY <1>3 DEF Chunks
  <2> HIDE DEF q
  <2>4. (q + 1) * ChunkFrames = q * ChunkFrames + 1 * ChunkFrames
    BY <2>2, Distributes
  <2>5. q * ChunkFrames \in Nat /\ 1 * ChunkFrames = ChunkFrames
    BY <2>2
  <2>6. held = size + (q * ChunkFrames + ChunkFrames)
    BY <2>3, <2>4, <2>5
  <2> QED
    BY <1>1, <2>1, <2>2, <2>4, <2>5, <2>6
<1> QED
  BY <1>2, <1>3

(* What may stay in the buffer, and where the cursor may be, when a step is *)
(* two samples at most.                                                     *)
Leftover == 1 + IF flow = "Capture" THEN 0 ELSE ChunkFrames

BufferInv ==
  Running /\ Step <= 2 * Unit => cursor < (size + 1) * Unit /\ size <= Leftover

(* After a packet at most one sample is left.                               *)
LEMMA PacketBounded ==
  ASSUME StreamTypes, BufferInv, NEW n \in 1..MaxBlock, Packet(n)
  PROVE  BufferInv'
<1> DEFINE held == size + n
           c == cursor + Ready(held) * Step
<1>1. /\ Running /\ device \in Devices /\ flow = "Capture" /\ size \in Nat /\ cursor \in Nat
      /\ flow' = flow /\ device' = device /\ n \in Nat \ {0} /\ DropConsumed(held, c)
  BY SizesAssumption DEF Packet, Running, StreamTypes, loop
<1>2. Step \in Nat \ {0} /\ Unit \in Nat \ {0} /\ Step' = Step /\ Unit' = Unit
  BY <1>1, RatesPositive DEF Step, Unit
<1>3. SUFFICES ASSUME Step <= 2 * Unit
               PROVE  cursor' < (size' + 1) * Unit /\ size' <= 1
  BY <1>1, <1>2 DEF BufferInv, Leftover
<1>4. held \in Nat \ {0} /\ size + 1 <= held + 1 /\ held - 1 \in Nat
  BY <1>1
<1>5. cursor < (held + 1) * Unit
  <2>1. cursor < (size + 1) * Unit
    BY <1>1, <1>3 DEF BufferInv
  <2>2. (size + 1) * Unit <= (held + 1) * Unit /\ (size + 1) * Unit \in Nat
        /\ (held + 1) * Unit \in Nat
    BY <1>1, <1>2, <1>4, Scales
  <2> QED
    BY <1>1, <2>1, <2>2
<1>6. c \in Nat
  <2>1. Ready(held) \in Nat
    BY <1>1, <1>2, <1>4, ReadyNat
  <2> QED
    BY <1>1, <1>2, <2>1
<1>7. (held - 1) * Unit <= c /\ c < (held + 1) * Unit
  BY <1>1, <1>2, <1>3, <1>4, <1>5, ReadyReaches
<1> HIDE DEF c, held
<1>8. size' \in Nat /\ size' <= held - (held - 1) /\ cursor' < (size' + 1) * Unit
  BY <1>1, <1>2, <1>4, <1>6, <1>7, CutKeepsCursorNear
<1> QED
  BY <1>4, <1>8

(* After a request at most a chunk and a frame are left.                    *)
LEMMA RequestBounded ==
  ASSUME StreamTypes, BufferInv, NEW n \in 1..MaxBlock, Request(n)
  PROVE  BufferInv'
<1> DEFINE held == size + Chunks(n) * ChunkFrames
           last == (cursor + (n - 1) * Step) \div Unit
           c == cursor + n * Step
<1>1. /\ Running /\ device \in Devices /\ flow = "Render" /\ size \in Nat /\ cursor \in Nat
      /\ flow' = flow /\ device' = device /\ n \in Nat \ {0} /\ ChunkFrames \in Nat \ {0}
      /\ DropConsumed(held, c)
  BY SizesAssumption DEF Request, Running, StreamTypes, loop
<1>2. Step \in Nat \ {0} /\ Unit \in Nat \ {0} /\ Step' = Step /\ Unit' = Unit
  BY <1>1, RatesPositive DEF Step, Unit
<1>3. SUFFICES ASSUME Step <= 2 * Unit
               PROVE  cursor' < (size' + 1) * Unit /\ size' <= 1 + ChunkFrames
  BY <1>1, <1>2 DEF BufferInv, Leftover
<1>4. size <= 1 + ChunkFrames
  BY <1>1, <1>3 DEF BufferInv, Leftover
<1>5. /\ last \in Nat /\ held \in Nat /\ last + 2 <= held
      /\ held <= size \/ held <= last + 1 + ChunkFrames
  BY <1>1, <1>2, ChunksSuffice
<1>6. last * Unit <= c /\ c < (held + 1) * Unit /\ c \in Nat
  <2>1. (n - 1) * Step \in Nat /\ n * Step = (n - 1) * Step + Step
    <3>1. n = (n - 1) + 1 /\ n - 1 \in Nat /\ 1 * Step = Step
      BY <1>1, <1>2
    <3>2. ((n - 1) + 1) * Step = (n - 1) * Step + 1 * Step
      BY <1>2, <3>1, Distributes
    <3>3. (n - 1) * Step \in Nat
      BY <1>2, <3>1
    <3> QED
      BY <3>1, <3>2, <3>3
  <2>2. cursor + (n - 1) * Step \in Nat
    BY <1>1, <2>1
  <2>3. /\ last * Unit <= cursor + (n - 1) * Step
        /\ cursor + (n - 1) * Step < (last + 1) * Unit
    BY <1>2, <2>2, Division
  <2> HIDE DEF last, held
  <2>4. (last + 1 + 2) * Unit = (last + 1) * Unit + 2 * Unit
    BY <1>2, <1>5, Distributes
  <2>5. (last + 1 + 2) * Unit <= (held + 1) * Unit /\ (last + 1 + 2) * Unit \in Nat
        /\ (held + 1) * Unit \in Nat
    BY <1>2, <1>5, Scales
  <2>6. (last + 1) * Unit \in Nat /\ last * Unit \in Nat
    BY <1>2, <1>5
  <2> QED
    BY <1>1, <1>2, <1>3, <2>1, <2>2, <2>3, <2>4, <2>5, <2>6
<1> HIDE DEF last, held, c
<1>7. size' \in Nat /\ size' <= held - last /\ cursor' < (size' + 1) * Unit
  BY <1>1, <1>2, <1>5, <1>6, CutKeepsCursorNear
<1> QED
  BY <1>1, <1>4, <1>5, <1>7

(* No step takes the cursor further, and a session begins with nothing.     *)
LEMMA StepBounded == StreamTypes /\ StreamInv /\ BufferInv /\ [Next]_vars => BufferInv'
<1> SUFFICES ASSUME StreamTypes, StreamInv, BufferInv, [Next]_vars PROVE BufferInv'
  OBVIOUS
<1>1. ASSUME UNCHANGED <<flow, stage, device, size, cursor>> PROVE BufferInv'
  BY <1>1 DEF BufferInv, Running, Leftover, Step, Unit
<1>2. ASSUME stage' # "running" PROVE BufferInv'
  BY <1>2 DEF BufferInv, Running
<1>3. CASE Activate
  <2>1. CASE Back
    BY <1>2, <2>1 DEF Back
  <2>2. CASE ~Back
    <3>1. /\ stage = "resolved" /\ flow' = flow /\ device' = device
          /\ size' = size /\ cursor' = cursor
      BY <1>3, <2>2 DEF Activate, stream
    <3>2. size' = 0 /\ cursor' = 0
      BY <3>1 DEF StreamInv, Running
    <3>3. device \in Devices
      BY <3>1 DEF StreamTypes
    <3>4. Unit' \in Nat \ {0} /\ ChunkFrames \in Nat
      BY <3>1, <3>3, RatesPositive, SizesAssumption DEF StreamTypes, Unit
    <3>5. cursor' < (size' + 1) * Unit'
      <4>1. ASSUME NEW u \in Nat \ {0} PROVE 0 < (0 + 1) * u
        OBVIOUS
      <4> QED
        BY <3>2, <3>4, <4>1
    <3>6. size' <= Leftover'
      BY <3>2, <3>4 DEF Leftover
    <3> QED
      BY <3>5, <3>6 DEF BufferInv
  <2> QED
    BY <2>1, <2>2
<1>4. CASE Resolve \/ CallFails \/ DefaultCheck
  BY <1>2, <1>4 DEF Resolve, CallFails, DefaultCheck, End, Back
<1>5. ASSUME NEW d \in Devices, Unplug(d) \/ Plug(d) \/ Choose(d) PROVE BufferInv'
  BY <1>1, <1>5 DEF Unplug, Plug, Choose, loop, stream
<1>6. CASE UNCHANGED vars
  BY <1>1, <1>6 DEF vars, loop, stream
<1>7. CASE Jam \/ Unjam
  BY <1>1, <1>7 DEF Jam, Unjam, stream
<1> QED
  BY <1>3, <1>4, <1>5, <1>6, <1>7, PacketBounded, RequestBounded DEF Next

(* The buffers stay short: one sample of the packets, at most a chunk more  *)
(* of what was mixed, for every step of at most two samples and every size  *)
(* of packets and requests (WasapiCaptureEngine.cpp:100-106,                *)
(* PlaybackMixer.cpp:374-382).                                              *)
THEOREM TypeCorrect == Spec => []TypeOK
<1>1. Init => BufferInv
  BY DEF Init, BufferInv, Running
<1>2. StreamTypes /\ BufferInv => TypeOK
  BY DEF StreamTypes, BufferInv, TypeOK, Running, Leftover
<1> QED
  BY <1>1, <1>2, StreamAlways, StepBounded, PTL DEF Spec

----------------------------------------------------------------------------
(* Where the loop has a step to take, and what the fairness of FairSpec     *)
(* says of it: none of them waits forever.                                  *)
CanResolve  == stage = "waiting" /\ default # NoDevice
CanActivate == stage = "resolved"
CanSwitch   == Running /\ ~jammed /\ DefaultChanged

LoopRuns ==
  /\ <>[]CanResolve => []<><<Resolve>>_vars
  /\ <>[]CanActivate => []<><<Activate>>_vars
  /\ <>[]CanSwitch => []<><<DefaultCheck>>_vars

(* Devices stay as they are, and no call fails on one that works.           *)
DevicesSettle == <>[][changes' = changes]_vars

(* d is the default, and has a format the loop can use.                     *)
Usable(d) == default = d /\ ~(flow = "Render" /\ d \in Exotic)

(* Where the loop may be on its way to d: in a session for another device,  *)
(* opening a device, in a session for d that is dead, or in one that lives. *)
Elsewhere(d) == Running /\ device # d
Opening(e)  == stage = "resolved" /\ device = e
Dead(d)     == Running /\ device = d /\ lost
Alive(d)    == Running /\ device = d /\ ~lost

(* Only a session can lose its device.                                      *)
LostInv == lost => Running

LEMMA LostRuns == Spec => []LostInv
<1>1. Init => LostInv
  BY DEF Init, LostInv
<1>2. LostInv /\ [Next]_vars => LostInv'
  <2> SUFFICES ASSUME LostInv, [Next]_vars PROVE LostInv'
    OBVIOUS
  <2> USE DEF LostInv, Running
  <2>1. ASSUME NEW n \in 1..MaxBlock, Packet(n) \/ Request(n) PROVE LostInv'
    BY <2>1 DEF Packet, Request, loop
  <2>2. CASE Resolve
    BY <2>2 DEF Resolve
  <2>3. CASE Activate
    BY <2>3 DEF Activate, Back
  <2>4. CASE CallFails \/ DefaultCheck
    BY <2>4 DEF CallFails, DefaultCheck, End, Back
  <2>5. ASSUME NEW d \in Devices, Unplug(d) \/ Plug(d) \/ Choose(d) PROVE LostInv'
    BY <2>5 DEF Unplug, Plug, Choose, loop
  <2>6. CASE UNCHANGED vars
    BY <2>6 DEF vars, loop
  <2>7. CASE Jam \/ Unjam
    BY Zenon, <2>7 DEF Jam, Unjam
  <2> QED
    BY <2>1, <2>2, <2>3, <2>4, <2>5, <2>6, <2>7 DEF Next
<1> QED
  BY <1>1, <1>2, PTL DEF Spec

(* While d is the default, the loop comes nearer to a session for it, and a *)
(* session for it that lives is kept.                                       *)
LEMMA Approach ==
  ASSUME NEW d \in Devices, StreamTypes, LostInv, Usable(d), [Next]_vars, [changes' = changes]_vars
  PROVE  /\ stage = "waiting" => stage' = "waiting" \/ Opening(d)'
         /\ Opening(d) => Opening(d)' \/ Alive(d)'
         /\ Alive(d) => Alive(d)'
         /\ Dead(d) => Dead(d)' \/ (stage = "waiting")'
         /\ Elsewhere(d) => Elsewhere(d)' \/ (stage = "waiting")'
         /\ stage = "resolved" => stage' \in {"resolved", "waiting"} \/ Elsewhere(d)' \/ Alive(d)'
<1> DEFINE Goal == /\ stage = "waiting" => stage' = "waiting" \/ Opening(d)'
                   /\ Opening(d) => Opening(d)' \/ Alive(d)'
                   /\ Alive(d) => Alive(d)'
                   /\ Dead(d) => Dead(d)' \/ (stage = "waiting")'
                   /\ Elsewhere(d) => Elsewhere(d)' \/ (stage = "waiting")'
                   /\ stage = "resolved" => stage' \in {"resolved", "waiting"} \/ Elsewhere(d)' \/ Alive(d)'
<1>0. stage \in {"waiting", "resolved", "running"} /\ changes \in Nat
  BY DEF StreamTypes
<1> USE DEF Opening, Alive, Dead, Elsewhere, Running
<1>1. ASSUME UNCHANGED <<stage, device, lost>> PROVE Goal
  BY <1>0, <1>1
<1>2. ASSUME NEW n \in 1..MaxBlock, Packet(n) \/ Request(n) PROVE Goal
  BY <1>1, <1>2 DEF Packet, Request, loop
<1>3. CASE Resolve
  BY <1>3 DEF Resolve, Usable
<1>4. CASE Activate
  <2>1. CASE device = d
    <3>1. ~Refused
      BY <2>1, DevicesAssumption DEF Refused, StreamTypes, Usable
    <3>2. ~Change
      BY <1>0, <1>4 DEF Activate, Change, vars, endpoints
    <3> QED
      BY <1>4, <2>1, <3>1, <3>2 DEF Activate, LostInv
  <2>2. CASE device # d
    BY <1>4, <2>2 DEF Activate, Back
  <2> QED
    BY <2>1, <2>2
<1>5. CASE CallFails
  <2>1. Alive(d) => FALSE
    BY <1>0, <1>5 DEF CallFails, Change, vars, endpoints
  <2> QED
    BY <1>5, <2>1 DEF CallFails, End, Back
<1>6. CASE DefaultCheck
  <2>1. Running /\ id # NoDevice /\ default # id /\ stage' = "waiting"
    BY <1>6 DEF DefaultCheck, DefaultChanged, End, Back
  <2>2. ~Alive(d)
    BY <2>1 DEF Usable, StreamTypes
  <2> QED
    BY <2>1, <2>2
<1>7. ASSUME NEW e \in Devices, Unplug(e) \/ Plug(e) \/ Choose(e) PROVE Goal
  BY <1>0, <1>7 DEF Unplug, Plug, Choose, Change, vars, endpoints
<1>8. CASE UNCHANGED vars
  BY <1>1, <1>8 DEF vars, loop
<1>9. CASE Jam \/ Unjam
  BY <1>1, <1>9 DEF Jam, Unjam
<1> QED
  BY <1>2, <1>3, <1>4, <1>5, <1>6, <1>7, <1>8, <1>9 DEF Next

(* With a default device that stays, the loop ends up with a session for it,*)
(* whatever it was doing, for any devices, rates and sizes                  *)
(* (WasapiCaptureEngine.cpp:120-139, 266-282, PlaybackMixer.cpp:184-204),   *)
(* if in the end its session has an id and comes to the poll. The premises  *)
(* say that devices and calls change finitely often and that the loop runs  *)
(* on.                                                                      *)
THEOREM SwitchCorrect == Spec /\ LoopRuns /\ DevicesSettle => SwitchFollowed
<1>1. ASSUME NEW d \in Devices
      PROVE  Spec /\ LoopRuns /\ DevicesSettle /\ <>[]Watching
               => (<>[](default = d /\ ~(flow = "Render" /\ d \in Exotic))
                     => <>[](stage = "running" /\ device = d))
  <2> DEFINE W == stage = "waiting"
             R == CanActivate
             O == Opening(d)
             A == Alive(d)
             D == Dead(d)
             E == Elsewhere(d)
             U == default = d /\ ~(flow = "Render" /\ d \in Exotic)
             T == stage = "running" /\ device = d
             S == Watching
  <2>1. StreamTypes => W \/ R \/ A \/ D \/ E
    BY DEF StreamTypes, CanActivate, Dead, Alive, Elsewhere, Running
  <2>2. StreamTypes /\ LostInv /\ U /\ [Next]_vars /\ [changes' = changes]_vars
          => /\ W => W' \/ O'
             /\ O => O' \/ A'
             /\ A => A'
             /\ D => D' \/ W'
             /\ E => E' \/ W'
             /\ R => R' \/ W' \/ E' \/ A'
    BY Approach DEF Usable, CanActivate
  <2>3. StreamTypes /\ U => (W => CanResolve) /\ (E /\ S => CanSwitch)
    BY DevicesAssumption
    DEF CanResolve, CanSwitch, Elsewhere, DefaultChanged, Watching, StreamTypes, Running
  <2>4. (<<Resolve>>_vars => ~W') /\ (<<Activate>>_vars => ~R') /\ (<<DefaultCheck>>_vars => W')
    BY DEF Resolve, Activate, DefaultCheck, End, Back, CanActivate
  <2>5. (O => R) /\ (A \/ D => T) /\ (W => ~R /\ ~E)
    BY DEF Opening, Alive, Dead, Elsewhere, Running, CanActivate
  <2>6. Spec /\ LoopRuns /\ DevicesSettle /\ <>[]S => (<>[]U => <>[]T)
    <3> HIDE DEF W, R, O, A, D, E, U, T, S
    <3>0. R <=> CanActivate
      BY DEF R
    <3> QED
      BY <2>1, <2>2, <2>3, <2>4, <2>5, <3>0, StreamAlways, LostRuns, PTL
      DEF Spec, LoopRuns, DevicesSettle
  <2> QED
    BY <2>6
<1> QED
  BY <1>1 DEF SwitchFollowed

=============================================================================
