----------------------------- MODULE LanesProofs -----------------------------
(***************************************************************************)
(* For any queue and any number of envelopes sent: the types, the order of *)
(* the control and the audio channel, that nothing of theirs is dropped,   *)
(* and the reasons for a session's end.  At the end, for the files sent    *)
(* over the control lane (OutboundSend): the types, the owners of the      *)
(* spool files, the panel's busy flag, and that no chunk is lost.          *)
(***************************************************************************)
EXTENDS Lanes, FiniteSetTheorems, TLAPS

USE CapacityAssumption, MaxSentAssumption, GarbageAssumption

(***************************************************************************)
(* The invariant.  Of a channel that has one stream only, the queue holds  *)
(* a run: the envelopes from the one the opener expects next up to the one *)
(* that the stream's reader brings next, each once and in order.           *)
(***************************************************************************)
Lane(c) == [chan : {c}, counter : Nat]
Ordered == {"control", "audio"}

Numbered(c, n) == [chan |-> c, counter |-> n]

Run(c, queue, first, next) ==
    /\ first <= next
    /\ \A i \in 1..Len(queue) :
           queue[i] \in Lane(c) => queue[i].counter \in first..(next - 1)
    /\ \A n \in first..(next - 1) :
           \E i \in 1..Len(queue) : queue[i] = Numbered(c, n)
    /\ \A i, j \in 1..Len(queue) :
           i < j /\ queue[i] \in Lane(c) /\ queue[j] \in Lane(c)
               => queue[i].counter < queue[j].counter

\* A stream holds the newest envelopes of its channel.
Newest(c, stream) ==
    /\ Len(stream) <= counters[c]
    /\ \A i \in 1..Len(stream) :
           stream[i] = Numbered(c, counters[c] - Len(stream) + i - 1)

Streams == ~lost => Newest("control", control) /\ Newest("audio", audio)

\* What demux is up to: selecting, gone, or with an envelope in hand.
Forwarding ==
    \/ demux = Selecting
    \/ demux = Gone /\ (lost \/ garbled)
    \/ garbled /\ demux = Holding(<<Garbage>>)
    \/ /\ ~garbled /\ Len(control) < counters["control"]
       /\ demux = Holding(<<Numbered("control",
                                     counters["control"] - Len(control) - 1)>>)

InHand == IF demux.forwards = <<>> THEN 0 ELSE 1

\* Streams that are not the control stream.
OneWay == Lane("video") \union {AudioLane}
Accepted ==
    /\ \A i \in 1..Len(opened) : opened[i] \in OneWay
    /\ reading \subseteq OneWay

Cut == lost => demux = Gone /\ reading = {} /\ opened = <<>>

AudioNext == counters["audio"] - Len(audio)
ControlNext == counters["control"] - Len(control) - InHand

Queue ==
    /\ \A c \in Ordered : \E next \in 0..counters[c] : Run(c, inbound, expected[c], next)
    /\ ~lost => Run("audio", inbound, expected["audio"], AudioNext)
    /\ ~lost /\ ~garbled => Run("control", inbound, expected["control"], ControlNext)
    /\ \A i \in 1..Len(inbound) : inbound[i] = Garbage => garbled

Returned ==
    \A c \in Ordered :
        /\ Len(got[c]) = expected[c]
        /\ \A i \in 1..Len(got[c]) : got[c][i] = i - 1

LanesInv ==
    /\ TypeOK /\ Streams /\ Forwarding /\ Accepted /\ Cut
    /\ Queue /\ Returned /\ EndsExplained

-----------------------------------------------------------------------------
(***************************************************************************)
(* Runs.                                                                   *)
(***************************************************************************)
Item == Envelope \union {Garbage}

\* What a lane is: envelopes of its channel, and never Garbage.
LEMMA LaneItems ==
    ASSUME NEW c \in Channel, NEW e \in Lane(c)
    PROVE  /\ e \in Envelope /\ e # Garbage
           /\ e.chan = c /\ e.counter \in Nat
           /\ e = Numbered(c, e.counter)
  BY DEF Lane, Envelope, Numbered

\* An envelope lies in the lane of its channel and in no other.
LEMMA OneLane ==
    ASSUME NEW e \in Envelope, NEW c \in Channel
    PROVE  e \in Lane(c) <=> e.chan = c
  BY DEF Lane, Envelope

\* The first and the other items of a queue.
LEMMA HeadTail ==
    ASSUME NEW S, NEW q \in Seq(S), q # <<>>
    PROVE  /\ Len(q) \in Nat \ {0}
           /\ Head(q) = q[1] /\ Head(q) \in S
           /\ Tail(q) \in Seq(S)
           /\ Len(Tail(q)) = Len(q) - 1
           /\ \A i \in 1..(Len(q) - 1) : Tail(q)[i] = q[i + 1]
  OBVIOUS

\* The items of a queue to which one is added.
LEMMA Added ==
    ASSUME NEW S, NEW q \in Seq(S), NEW e \in S
    PROVE  /\ Append(q, e) \in Seq(S)
           /\ Len(Append(q, e)) = Len(q) + 1 /\ Len(q) \in Nat
           /\ \A i \in 1..Len(q) : Append(q, e)[i] = q[i]
           /\ Append(q, e)[Len(q) + 1] = e
           /\ q \o <<e>> = Append(q, e)
  OBVIOUS

\* An envelope of another lane, or Garbage, is added.
LEMMA RunPassed ==
    ASSUME NEW c \in Channel, NEW q \in Seq(Item), NEW e \in Item,
           NEW first \in Nat, NEW next \in Nat,
           e \notin Lane(c), Run(c, q, first, next)
    PROVE  Run(c, Append(q, e), first, next)
<1> DEFINE r == Append(q, e)
<1>1. /\ Len(r) = Len(q) + 1 /\ Len(q) \in Nat
      /\ \A i \in 1..Len(q) : r[i] = q[i]
      /\ r[Len(q) + 1] = e
  BY Added
<1> HIDE DEF r
<1>2. \A i \in 1..Len(r) : r[i] \in Lane(c) => i \in 1..Len(q) /\ r[i] = q[i]
  BY <1>1
<1>3. \A n \in first..(next - 1) : \E i \in 1..Len(r) : r[i] = Numbered(c, n)
  BY <1>1 DEF Run
<1>4. \A i \in 1..Len(r) : r[i] \in Lane(c) => r[i].counter \in first..(next - 1)
  BY <1>2 DEF Run
<1>5. ASSUME NEW i \in 1..Len(r), NEW j \in 1..Len(r), i < j,
             r[i] \in Lane(c), r[j] \in Lane(c)
      PROVE  r[i].counter < r[j].counter
  BY <1>2, <1>5 DEF Run
<1>6. first <= next
  BY DEF Run
<1>7. QED
  BY <1>3, <1>4, <1>5, <1>6 DEF Run, r

\* The next envelope of the lane is added.
LEMMA RunJoined ==
    ASSUME NEW c \in Channel, NEW q \in Seq(Item),
           NEW first \in Nat, NEW next \in Nat, Run(c, q, first, next)
    PROVE  Run(c, Append(q, Numbered(c, next)), first, next + 1)
<1> DEFINE e == Numbered(c, next)
           r == Append(q, e)
<1>0. e \in Item /\ e \in Lane(c) /\ e.counter = next
  BY DEF Item, Envelope, Numbered, Lane
<1>1. /\ Len(r) = Len(q) + 1 /\ Len(q) \in Nat
      /\ \A i \in 1..Len(q) : r[i] = q[i]
      /\ r[Len(q) + 1] = e
  BY <1>0, Added
<1> HIDE DEF r
<1>2. \A i \in 1..Len(r) : i \in 1..Len(q) \/ i = Len(q) + 1
  BY <1>1
<1>3. ASSUME NEW n \in first..next
      PROVE  \E i \in 1..Len(r) : r[i] = Numbered(c, n)
  <2>1. CASE n = next
    BY <1>1, <2>1
  <2>2. CASE n # next
    <3>1. PICK i \in 1..Len(q) : q[i] = Numbered(c, n)
      BY <2>2 DEF Run
    <3>2. QED
      BY <1>1, <3>1
  <2>3. QED
    BY <2>1, <2>2
<1>4. ASSUME NEW i \in 1..Len(r), r[i] \in Lane(c)
      PROVE  r[i].counter \in first..next
  <2>0. first <= next
    BY DEF Run
  <2>1. CASE i \in 1..Len(q)
    BY <1>1, <1>4, <2>0, <2>1 DEF Run
  <2>2. CASE i = Len(q) + 1
    BY <1>0, <1>1, <2>0, <2>2
  <2>3. QED
    BY <1>2, <2>1, <2>2
<1>5. ASSUME NEW i \in 1..Len(r), NEW j \in 1..Len(r), i < j,
             r[i] \in Lane(c), r[j] \in Lane(c)
      PROVE  r[i].counter < r[j].counter
  <2>1. i \in 1..Len(q) /\ r[i] = q[i]
    BY <1>1, <1>5
  <2>2. CASE j \in 1..Len(q)
    BY <1>1, <1>5, <2>1, <2>2 DEF Run
  <2>3. CASE j = Len(q) + 1
    <3>1. q[i].counter \in first..(next - 1)
      BY <1>5, <2>1 DEF Run
    <3>2. QED
      BY <1>0, <1>1, <2>1, <2>3, <3>1
  <2>4. QED
    BY <1>2, <2>2, <2>3
<1>6. first <= next + 1 /\ first..next = first..((next + 1) - 1)
  BY DEF Run
<1> HIDE DEF e
<1>7. Run(c, r, first, next + 1)
  BY <1>3, <1>4, <1>5, <1>6 DEF Run
<1>8. QED
  BY <1>7 DEF r, e

\* The first envelope of a lane is the one the opener expects.
LEMMA HeadIsDue ==
    ASSUME NEW c \in Channel, NEW q \in Seq(Item), q # <<>>,
           NEW first \in Nat, NEW next \in Nat, Run(c, q, first, next),
           Head(q) \in Lane(c)
    PROVE  Head(q).counter = first /\ first < next
<1>1. q[1] \in Lane(c) /\ 1 \in 1..Len(q) /\ Head(q) = q[1]
  BY HeadTail
<1>2. q[1].counter \in first..(next - 1)
  BY <1>1 DEF Run
<1>3. PICK i \in 1..Len(q) : q[i] = Numbered(c, first)
  BY <1>2 DEF Run
<1>4. q[i] \in Lane(c) /\ q[i].counter = first
  BY <1>3 DEF Lane, Numbered
<1>5. CASE i = 1
  BY <1>1, <1>2, <1>4, <1>5
<1>6. CASE i # 1
  <2>1. q[1].counter < q[i].counter
    BY <1>1, <1>4, <1>6 DEF Run
  <2>2. QED
    BY <1>2, <1>4, <2>1
<1>7. QED
  BY <1>5, <1>6

\* It is taken.
LEMMA RunTaken ==
    ASSUME NEW c \in Channel, NEW q \in Seq(Item), q # <<>>,
           NEW first \in Nat, NEW next \in Nat, Run(c, q, first, next),
           Head(q) \in Lane(c)
    PROVE  Run(c, Tail(q), first + 1, next)
<1> DEFINE r == Tail(q)
<1>1. /\ Len(q) \in Nat \ {0} /\ Head(q) = q[1]
      /\ Len(r) = Len(q) - 1
      /\ \A i \in 1..Len(r) : r[i] = q[i + 1] /\ i + 1 \in 1..Len(q)
  BY HeadTail
<1>2. q[1] \in Lane(c) /\ q[1].counter = first /\ first < next
  BY <1>1, HeadIsDue
<1> HIDE DEF r
<1>3. ASSUME NEW i \in 1..Len(r), r[i] \in Lane(c)
      PROVE  r[i].counter \in (first + 1)..(next - 1)
  <2>1. q[i + 1] \in Lane(c) /\ i + 1 \in 1..Len(q) /\ r[i] = q[i + 1]
    BY <1>1, <1>3
  <2>2. q[i + 1].counter \in first..(next - 1)
    BY <2>1 DEF Run
  <2>3. q[1].counter < q[i + 1].counter
    BY <1>1, <1>2, <2>1, SMTT(30) DEF Run
  <2>4. QED
    BY <1>2, <2>1, <2>2, <2>3
<1>4. ASSUME NEW n \in (first + 1)..(next - 1)
      PROVE  \E i \in 1..Len(r) : r[i] = Numbered(c, n)
  <2>1. PICK i \in 1..Len(q) : q[i] = Numbered(c, n)
    BY DEF Run
  <2>2. q[i].counter = n
    BY <2>1 DEF Numbered
  <2>3. i # 1
    BY <1>2, <2>2
  <2>4. i - 1 \in 1..Len(r) /\ (i - 1) + 1 = i
    BY <1>1, <2>3
  <2>5. r[i - 1] = q[i]
    BY <1>1, <2>4
  <2>6. QED
    BY <2>1, <2>4, <2>5
<1>5. ASSUME NEW i \in 1..Len(r), NEW j \in 1..Len(r), i < j,
             r[i] \in Lane(c), r[j] \in Lane(c)
      PROVE  r[i].counter < r[j].counter
  <2>1. /\ i + 1 \in 1..Len(q) /\ r[i] = q[i + 1]
        /\ j + 1 \in 1..Len(q) /\ r[j] = q[j + 1]
        /\ i + 1 < j + 1
    BY <1>1, <1>5
  <2>2. QED
    BY <1>5, <2>1 DEF Run
<1>6. QED
  BY <1>2, <1>3, <1>4, <1>5 DEF Run, r

\* An item of another lane, or Garbage, is taken.
LEMMA RunSkipped ==
    ASSUME NEW c \in Channel, NEW q \in Seq(Item), q # <<>>,
           NEW first \in Nat, NEW next \in Nat, Run(c, q, first, next),
           Head(q) \notin Lane(c)
    PROVE  Run(c, Tail(q), first, next)
<1> DEFINE r == Tail(q)
<1>1. /\ Len(q) \in Nat \ {0} /\ Head(q) = q[1]
      /\ Len(r) = Len(q) - 1
      /\ \A i \in 1..Len(r) : r[i] = q[i + 1] /\ i + 1 \in 1..Len(q)
  BY HeadTail
<1> HIDE DEF r
<1>3. ASSUME NEW i \in 1..Len(r), r[i] \in Lane(c)
      PROVE  r[i].counter \in first..(next - 1)
  BY <1>1, <1>3 DEF Run
<1>4. ASSUME NEW n \in first..(next - 1)
      PROVE  \E i \in 1..Len(r) : r[i] = Numbered(c, n)
  <2>1. PICK i \in 1..Len(q) : q[i] = Numbered(c, n)
    BY DEF Run
  <2>2. q[i] \in Lane(c)
    BY <2>1 DEF Run, Lane, Numbered
  <2>3. i # 1
    BY <1>1, <2>2
  <2>4. i - 1 \in 1..Len(r) /\ (i - 1) + 1 = i
    BY <1>1, <2>3
  <2>5. r[i - 1] = q[i]
    BY <1>1, <2>4
  <2>6. QED
    BY <2>1, <2>4, <2>5
<1>5. ASSUME NEW i \in 1..Len(r), NEW j \in 1..Len(r), i < j,
             r[i] \in Lane(c), r[j] \in Lane(c)
      PROVE  r[i].counter < r[j].counter
  <2>1. /\ i + 1 \in 1..Len(q) /\ r[i] = q[i + 1]
        /\ j + 1 \in 1..Len(q) /\ r[j] = q[j + 1]
        /\ i + 1 < j + 1
    BY <1>1, <1>5
  <2>2. QED
    BY <1>5, <2>1 DEF Run
<1>6. first <= next
  BY DEF Run
<1>7. QED
  BY <1>3, <1>4, <1>5, <1>6 DEF Run, r

-----------------------------------------------------------------------------
(***************************************************************************)
(* The steps.                                                              *)
(***************************************************************************)
\* Channels by name.
LEMMA Channels ==
    /\ "control" \in Channel /\ "audio" \in Channel /\ "video" \in Channel
    /\ "control" \in Ordered /\ "audio" \in Ordered
    /\ "video" \notin Ordered /\ Ordered \subseteq Channel
  BY DEF Channel, Ordered

\* Selecting and Gone, field by field.
LEMMA DemuxFields ==
    /\ Selecting.forwards = <<>> /\ Selecting.alive
    /\ Gone.forwards = <<>> /\ ~Gone.alive
    /\ \A q : Holding(q).forwards = q /\ Holding(q).alive
    /\ \A x : <<x>> # <<>> /\ <<x>>[1] = x
  BY DEF Selecting, Gone, Holding

\* Sending numbers the next envelope of its channel and no other.
LEMMA SealSteps ==
    ASSUME TypeOK, NEW c \in Channel, Seal(c)
    PROVE  /\ ~lost
           /\ counters' \in [Channel -> Nat]
           /\ counters'[c] = counters[c] + 1
           /\ \A d \in Channel : d # c => counters'[d] = counters[d]
           /\ \A d \in Channel : counters[d] \in Nat /\ counters[d] <= counters'[d]
           /\ Sealed(c) = Numbered(c, counters[c])
           /\ Sealed(c) \in Envelope /\ Sealed(c) \in Lane(c)
  BY DEF TypeOK, Seal, Sealed, Numbered, Envelope, Lane

\* The types of what a step can change.
LEMMA TypeSteps == LanesInv /\ [Next]_vars => TypeOK'
<1> SUFFICES ASSUME LanesInv, [Next]_vars PROVE TypeOK'
  OBVIOUS
<1> USE Channels
<1>0. TypeOK /\ <<>> \in Seq(Envelope) /\ <<>> \in Seq(Envelope \union {Garbage})
  BY DEF LanesInv
<1>1. CASE SendControl
  <2>1. Seal("control")
    BY <1>1 DEF SendControl
  <2>2. counters' \in [Channel -> Nat] /\ Sealed("control") \in Envelope
    BY <1>0, <2>1, SealSteps
  <2>3. control' \in Seq(Envelope)
    BY <1>0, <1>1, <2>2, Added DEF TypeOK, SendControl
  <2>4. QED
    BY <1>0, <1>1, <2>2, <2>3 DEF TypeOK, SendControl, app
<1>2. CASE SendAudio
  <2>1. Seal("audio")
    BY <1>2 DEF SendAudio
  <2>2. AudioLane \in Envelope
    BY DEF AudioLane, Envelope
  <2>3. counters' \in [Channel -> Nat] /\ Sealed("audio") \in Envelope
    BY <1>0, <2>1, SealSteps
  <2>4. audio' \in Seq(Envelope) /\ opened' \in Seq(Envelope)
    BY <1>0, <1>2, <2>2, <2>3, Added DEF TypeOK, SendAudio
  <2>5. QED
    BY <1>0, <1>2, <2>3, <2>4 DEF TypeOK, SendAudio, app
<1>3. CASE SendVideo
  <2>1. Seal("video")
    BY <1>3 DEF SendVideo
  <2>2. counters' \in [Channel -> Nat] /\ Sealed("video") \in Envelope
    BY <1>0, <2>1, SealSteps
  <2>3. opened' \in Seq(Envelope)
    BY <1>0, <1>3, <2>2, Added DEF TypeOK, SendVideo
  <2>4. QED
    BY <1>0, <1>3, <2>2, <2>3 DEF TypeOK, SendVideo, app
<1>4. CASE ReadPart
  BY <1>0, <1>4 DEF TypeOK, ReadPart, app
<1>5. CASE ReadControl
  <2>1. Head(control) \in Envelope /\ Tail(control) \in Seq(Envelope)
    BY <1>0, <1>5, HeadTail DEF TypeOK, ReadControl
  <2>2. <<Head(control)>> \in Seq(Envelope \union {Garbage})
    BY <2>1
  <2>3. demux' \in [forwards : Seq(Envelope \union {Garbage}), alive : BOOLEAN]
    BY <1>5, <2>2 DEF ReadControl, Holding
  <2>4. QED
    BY <1>0, <1>5, <2>1, <2>3 DEF TypeOK, ReadControl, app
<1>6. CASE ReadOutOfStep
  <2>1. demux' \in [forwards : Seq(Envelope \union {Garbage}), alive : BOOLEAN]
    <3>1. <<Garbage>> \in Seq(Envelope \union {Garbage})
      OBVIOUS
    <3>2. CASE demux' = Gone
      BY <1>0, <3>2 DEF Gone
    <3>3. CASE demux' = Holding(<<Garbage>>)
      BY <3>1, <3>3 DEF Holding
    <3>4. QED
      BY <1>6, <3>2, <3>3 DEF ReadOutOfStep
  <2>2. QED
    BY <1>0, <1>6, <2>1 DEF TypeOK, ReadOutOfStep, app
<1>7. CASE ForwardControl
  <2>1. PICK e : e \in Envelope \union {Garbage} /\ demux.forwards = <<e>>
    <3>1. PICK e : demux = Holding(<<e>>)
      BY <1>7, DemuxFields DEF LanesInv, Forwarding, ForwardControl
    <3>2. demux.forwards = <<e>>
      BY <3>1, DemuxFields
    <3>0. demux.forwards \in Seq(Envelope \union {Garbage})
      BY <1>0 DEF TypeOK
    <3>3. e \in Envelope \union {Garbage}
      BY <3>0, <3>2
    <3>4. QED
      BY <3>2, <3>3
  <2>2. inbound' = Append(inbound, e) /\ Len(inbound') = Len(inbound) + 1
    BY <1>0, <1>7, <2>1, Added DEF TypeOK, ForwardControl
  <2>3. inbound' \in Seq(Envelope \union {Garbage}) /\ Len(inbound') <= Capacity
    BY <1>0, <1>7, <2>1, <2>2 DEF TypeOK, ForwardControl, HasRoom
  <2>4. demux' \in [forwards : Seq(Envelope \union {Garbage}), alive : BOOLEAN]
    BY <1>7 DEF ForwardControl, Selecting, Holding
  <2>5. QED
    BY <1>0, <1>7, <2>3, <2>4 DEF TypeOK, ForwardControl, app
<1>8. CASE AcceptUni
  <2>1. Head(opened) \in Envelope /\ Tail(opened) \in Seq(Envelope)
    BY <1>0, <1>8, HeadTail DEF TypeOK, AcceptUni
  <2>2. QED
    BY <1>0, <1>8, <2>1 DEF TypeOK, AcceptUni, app
<1>9. ASSUME NEW stream \in reading, ReadVideo(stream) PROVE TypeOK'
  <2>1. stream \in Envelope \union {Garbage}
    BY <1>0 DEF TypeOK
  <2>2. /\ inbound' \in Seq(Envelope \union {Garbage})
        /\ Len(inbound') = Len(inbound) + 1
    BY <1>0, <1>9, <2>1, Added DEF TypeOK, ReadVideo
  <2>3. Len(inbound') <= Capacity
    BY <1>0, <1>9, <2>2 DEF TypeOK, ReadVideo, HasRoom
  <2>4. QED
    BY <1>0, <1>9, <2>2, <2>3 DEF TypeOK, ReadVideo, app
<1>10. CASE ReadAudio
  <2>1. Head(audio) \in Envelope /\ Tail(audio) \in Seq(Envelope)
    BY <1>0, <1>10, HeadTail DEF TypeOK, ReadAudio
  <2>2. /\ inbound' \in Seq(Envelope \union {Garbage})
        /\ Len(inbound') = Len(inbound) + 1
    BY <1>0, <1>10, <2>1, Added DEF TypeOK, ReadAudio
  <2>3. Len(inbound') <= Capacity
    BY <1>0, <1>10, <2>2 DEF TypeOK, ReadAudio, HasRoom
  <2>4. QED
    BY <1>0, <1>10, <2>1, <2>2, <2>3 DEF TypeOK, ReadAudio, app
<1>11. CASE Recv
  <2>1. /\ inbound' \in Seq(Envelope \union {Garbage})
        /\ Head(inbound) \in Envelope \union {Garbage}
        /\ Len(inbound') <= Capacity
    <3>1. inbound # <<>> /\ inbound' = Tail(inbound)
      BY <1>11 DEF Recv
    <3>2. /\ Tail(inbound) \in Seq(Envelope \union {Garbage})
          /\ Head(inbound) \in Envelope \union {Garbage}
          /\ Len(Tail(inbound)) = Len(inbound) - 1 /\ Len(inbound) \in Nat
      BY <1>0, <3>1, HeadTail DEF TypeOK
    <3>3. Len(inbound) <= Capacity
      BY <1>0 DEF TypeOK
    <3>4. QED
      BY <3>1, <3>2, <3>3
  <2>2. UNCHANGED <<counters, control, half, garbled, audio, opened, reading, demux, lost>>
    BY <1>11 DEF Recv
  <2>3. /\ expected' \in [Channel -> Nat]
        /\ viewer' \in {"on", "error", "closed"}
        /\ got' \in [Channel -> Seq(Nat)]
    <3>1. CASE UNCHANGED <<expected, got>>
      BY <1>0, <1>11, <3>1 DEF TypeOK, Recv, app
    <3>2. CASE ~UNCHANGED <<expected, got>>
      <4> DEFINE e == Head(inbound)
      <4>1. /\ e # Garbage
            /\ expected' = [expected EXCEPT ![e.chan] = e.counter + 1]
            /\ got' = [got EXCEPT ![e.chan] = Append(@, e.counter)]
            /\ UNCHANGED viewer
        BY <1>11, <3>2 DEF Recv, app
      <4>2. e.chan \in Channel /\ e.counter \in Nat
        BY <2>1, <4>1 DEF Envelope
      <4> HIDE DEF e
      <4>3. Append(got[e.chan], e.counter) \in Seq(Nat)
        <5>1. got[e.chan] \in Seq(Nat)
          BY <1>0, <4>2 DEF TypeOK
        <5>2. QED
          BY <4>2, <5>1, Added
      <4>4. expected' \in [Channel -> Nat]
        <5>1. expected \in [Channel -> Nat]
          BY <1>0 DEF TypeOK
        <5>0. e.counter + 1 \in Nat
          BY <4>2
        <5>2. QED
          BY <4>1, <4>2, <5>0, <5>1
      <4>5. got' \in [Channel -> Seq(Nat)]
        BY <1>0, <4>1, <4>2, <4>3 DEF TypeOK
      <4>6. QED
        BY <1>0, <4>1, <4>4, <4>5 DEF TypeOK
    <3>3. QED
      BY <3>1, <3>2
  <2>4. QED
    BY <1>0, <2>1, <2>2, <2>3 DEF TypeOK
<1>12. CASE RecvClosed
  BY <1>0, <1>12 DEF TypeOK, RecvClosed, wire
<1>13. CASE Lose
  <2>1. demux' \in [forwards : Seq(Envelope \union {Garbage}), alive : BOOLEAN]
    BY <1>0, <1>13 DEF Lose, Gone
  <2>2. QED
    BY <1>0, <1>13, <2>1 DEF TypeOK, Lose, app
<1>14. CASE UNCHANGED vars
  BY <1>0, <1>14 DEF TypeOK, vars, wire, app
<1>15. QED
  BY <1>1, <1>2, <1>3, <1>4, <1>5, <1>6, <1>7, <1>8, <1>9, <1>10, <1>11, <1>12,
     <1>13, <1>14 DEF Next

\* Neither a loss nor a read out of step is ever undone.
LEMMA NoReturn ==
    ASSUME TypeOK, [Next]_vars
    PROVE  (lost => lost') /\ (garbled => garbled')
<1>1. AcceptUni \/ garbled' = garbled
  BY DEF Next, SendControl, SendAudio, SendVideo, ReadPart, ReadControl,
         ReadOutOfStep, ForwardControl, ReadVideo, ReadAudio, Recv,
         RecvClosed, Lose, vars, wire
<1>2. Lose \/ lost' = lost
  BY DEF Next, SendControl, SendAudio, SendVideo, ReadPart, ReadControl,
         ReadOutOfStep, ForwardControl, AcceptUni, ReadVideo, ReadAudio, Recv,
         RecvClosed, vars
<1>3. garbled => garbled'
  BY <1>1 DEF AcceptUni
<1>4. lost => lost'
  BY <1>2 DEF Lose
<1>5. QED
  BY <1>3, <1>4

\* Once the connection is lost nothing is read and nothing arrives.
LEMMA CutSteps == LanesInv /\ [Next]_vars => Cut'
<1> SUFFICES ASSUME LanesInv, [Next]_vars PROVE Cut'
  OBVIOUS
<1>0. Cut /\ Forwarding
  BY DEF LanesInv
<1>1. Gone # Selecting
  BY DemuxFields
<1>2. CASE lost
  <2>1. demux = Gone /\ reading = {} /\ opened = <<>> /\ demux.forwards = <<>>
    BY <1>0, <1>2, DemuxFields DEF Cut
  <2>2. QED
    BY <1>1, <1>2, <2>1 DEF Cut, Next, SendControl, SendAudio, SendVideo, Seal,
         ReadPart, ReadControl, ReadOutOfStep, ForwardControl, AcceptUni, ReadVideo,
         ReadAudio, Recv, RecvClosed, Lose, vars, wire, app, InSelect
<1>3. CASE ~lost
  <2>1. CASE Lose
    BY <2>1 DEF Cut, Lose
  <2>2. CASE ~Lose
    BY <1>3, <2>2 DEF Cut, Next, SendControl, SendAudio, SendVideo, Seal,
         ReadPart, ReadControl, ReadOutOfStep, ForwardControl, AcceptUni, ReadVideo,
         ReadAudio, Recv, RecvClosed, vars, wire, app
  <2>3. QED
    BY <2>1, <2>2
<1>4. QED
  BY <1>2, <1>3

\* Of the streams that are accepted one is the audio stream, the others are
\* frames: the lane of the control messages is the control stream's alone.
LEMMA AcceptedSteps == LanesInv /\ [Next]_vars => Accepted'
<1> SUFFICES ASSUME LanesInv, [Next]_vars PROVE Accepted'
  OBVIOUS
<1> USE Channels
<1>0. TypeOK /\ Accepted /\ opened \in Seq(Envelope)
  BY DEF LanesInv, TypeOK
<1>1. CASE SendVideo
  <2>1. Sealed("video") \in Lane("video") /\ Sealed("video") \in Envelope
    BY <1>0, <1>1, SealSteps DEF SendVideo
  <2>2. /\ Len(opened') = Len(opened) + 1 /\ Len(opened) \in Nat
        /\ \A i \in 1..Len(opened) : opened'[i] = opened[i]
        /\ opened'[Len(opened) + 1] = Sealed("video")
    BY <1>0, <1>1, <2>1, Added DEF SendVideo
  <2>3. \A i \in 1..Len(opened') : i \in 1..Len(opened) \/ i = Len(opened) + 1
    BY <2>2
  <2>4. QED
    BY <1>0, <1>1, <2>1, <2>2, <2>3 DEF SendVideo, Accepted, OneWay
<1>2. CASE SendAudio
  <2>1. AudioLane \in OneWay /\ AudioLane \in Envelope
    BY DEF OneWay, AudioLane, Envelope
  <2>2. reading' = reading
    BY <1>2 DEF SendAudio
  <2>3. CASE opened' = opened
    BY <1>0, <2>2, <2>3 DEF Accepted
  <2>4. CASE opened' = Append(opened, AudioLane)
    <3>1. /\ Len(opened') = Len(opened) + 1 /\ Len(opened) \in Nat
          /\ \A i \in 1..Len(opened) : opened'[i] = opened[i]
          /\ opened'[Len(opened) + 1] = AudioLane
      BY <1>0, <2>1, <2>4, Added
    <3>2. \A i \in 1..Len(opened') : i \in 1..Len(opened) \/ i = Len(opened) + 1
      BY <3>1
    <3>3. QED
      BY <1>0, <2>1, <2>2, <3>1, <3>2 DEF Accepted
  <2>5. QED
    BY <1>2, <2>3, <2>4 DEF SendAudio
<1>3. CASE AcceptUni
  <2>1. /\ opened # <<>> /\ opened' = Tail(opened)
        /\ reading' = reading \union {Head(opened)}
    BY <1>3 DEF AcceptUni
  <2>2. /\ Len(opened) \in Nat \ {0} /\ Head(opened) = opened[1]
        /\ Len(opened') = Len(opened) - 1
        /\ \A i \in 1..(Len(opened) - 1) : opened'[i] = opened[i + 1]
    BY <1>0, <2>1, HeadTail
  <2>3. Head(opened) \in OneWay
    BY <1>0, <2>2 DEF Accepted
  <2>4. \A i \in 1..Len(opened') : opened'[i] = opened[i + 1] /\ i + 1 \in 1..Len(opened)
    BY <2>2
  <2>5. QED
    BY <1>0, <2>1, <2>3, <2>4 DEF Accepted
<1>4. CASE Lose
  <2>1. opened' = <<>> /\ reading' = {}
    BY <1>4 DEF Lose
  <2>2. QED
    BY <2>1 DEF Accepted
<1>5. CASE UNCHANGED opened /\ reading' \subseteq reading
  BY <1>0, <1>5 DEF Accepted
<1>6. QED
  BY <1>1, <1>2, <1>3, <1>4, <1>5 DEF Next, SendControl, ReadPart, ReadControl,
     ReadOutOfStep, ForwardControl, ReadVideo, ReadAudio, Recv, RecvClosed, vars,
     wire, app

\* A block or a message is put at the end of its stream.
LEMMA NewestSent ==
    ASSUME TypeOK, NEW c \in Channel, NEW s \in Seq(Envelope), NEW r \in Seq(Envelope),
           Newest(c, s), Seal(c), r = Append(s, Sealed(c))
    PROVE  /\ Len(r) <= counters'[c]
           /\ \A i \in 1..Len(r) : r[i] = Numbered(c, counters'[c] - Len(r) + i - 1)
<1>1. /\ counters'[c] = counters[c] + 1 /\ counters[c] \in Nat
      /\ Sealed(c) = Numbered(c, counters[c]) /\ Sealed(c) \in Envelope
  BY SealSteps
<1>2. /\ Len(r) = Len(s) + 1 /\ Len(s) \in Nat
      /\ \A i \in 1..Len(s) : r[i] = s[i]
      /\ r[Len(s) + 1] = Sealed(c)
  BY <1>1, Added
<1>3. ASSUME NEW i \in 1..Len(r)
      PROVE  r[i] = Numbered(c, counters'[c] - Len(r) + i - 1)
  <2>1. CASE i \in 1..Len(s)
    <3>1. counters'[c] - Len(r) + i - 1 = counters[c] - Len(s) + i - 1
      BY <1>1, <1>2
    <3>2. QED
      BY <1>2, <2>1, <3>1 DEF Newest
  <2>2. CASE i = Len(s) + 1
    <3>1. counters'[c] - Len(r) + i - 1 = counters[c]
      BY <1>1, <1>2, <2>2
    <3>2. QED
      BY <1>1, <1>2, <2>2, <3>1
  <2>3. QED
    BY <1>2, <2>1, <2>2
<1>4. QED
  BY <1>1, <1>2, <1>3 DEF Newest

\* The first one of a stream is read.
LEMMA NewestRead ==
    ASSUME TypeOK, NEW c \in Channel, NEW s \in Seq(Envelope), s # <<>>, Newest(c, s)
    PROVE  /\ Newest(c, Tail(s))
           /\ Head(s) = Numbered(c, counters[c] - Len(s))
           /\ counters[c] - Len(s) \in Nat
           /\ counters[c] - Len(Tail(s)) = counters[c] - Len(s) + 1
           /\ Len(Tail(s)) < counters[c]
<1>1. /\ Len(s) \in Nat \ {0} /\ Head(s) = s[1]
      /\ Len(Tail(s)) = Len(s) - 1
      /\ \A i \in 1..(Len(s) - 1) : Tail(s)[i] = s[i + 1]
  BY HeadTail
<1>2. counters[c] \in Nat /\ Len(s) <= counters[c]
  BY DEF TypeOK, Newest
<1>3. Head(s) = Numbered(c, counters[c] - Len(s))
  <2>1. s[1] = Numbered(c, counters[c] - Len(s) + 1 - 1) /\ 1 \in 1..Len(s)
    BY <1>1 DEF Newest
  <2>2. counters[c] - Len(s) + 1 - 1 = counters[c] - Len(s)
    BY <1>1, <1>2
  <2>3. QED
    BY <1>1, <2>1, <2>2
<1>4. ASSUME NEW i \in 1..Len(Tail(s))
      PROVE  Tail(s)[i] = Numbered(c, counters[c] - Len(Tail(s)) + i - 1)
  <2>1. i + 1 \in 1..Len(s) /\ Tail(s)[i] = s[i + 1]
    BY <1>1
  <2>2. counters[c] - Len(Tail(s)) + i - 1 = counters[c] - Len(s) + (i + 1) - 1
    BY <1>1, <1>2
  <2>3. QED
    BY <2>1, <2>2 DEF Newest
<1>5. Newest(c, Tail(s))
  BY <1>1, <1>2, <1>4 DEF Newest
<1>6. QED
  BY <1>1, <1>2, <1>3, <1>5

\* The streams' contents.
LEMMA StreamSteps == LanesInv /\ [Next]_vars => Streams'
<1> SUFFICES ASSUME LanesInv, [Next]_vars, ~lost'
             PROVE  Newest("control", control)' /\ Newest("audio", audio)'
  BY DEF Streams
<1> USE Channels
<1>0. /\ TypeOK /\ TypeOK' /\ Newest("control", control) /\ Newest("audio", audio)
      /\ control \in Seq(Envelope) /\ audio \in Seq(Envelope)
      /\ control' \in Seq(Envelope) /\ audio' \in Seq(Envelope)
  BY NoReturn, TypeSteps DEF LanesInv, Streams, TypeOK
<1>1. CASE SendControl
  <2>1. /\ Seal("control") /\ control' = Append(control, Sealed("control"))
        /\ audio' = audio /\ counters'["audio"] = counters["audio"]
    BY <1>0, <1>1, SealSteps DEF SendControl
  <2>2. Newest("control", control)'
    BY <1>0, <2>1, NewestSent DEF Newest
  <2>3. QED
    BY <1>0, <2>1, <2>2 DEF Newest
<1>2. CASE SendAudio
  <2>1. /\ Seal("audio") /\ audio' = Append(audio, Sealed("audio"))
        /\ control' = control /\ counters'["control"] = counters["control"]
    BY <1>0, <1>2, SealSteps DEF SendAudio
  <2>2. Newest("audio", audio)'
    BY <1>0, <2>1, NewestSent DEF Newest
  <2>3. QED
    BY <1>0, <2>1, <2>2 DEF Newest
<1>3. CASE SendVideo
  <2>1. /\ audio' = audio /\ counters'["audio"] = counters["audio"]
        /\ control' = control /\ counters'["control"] = counters["control"]
    BY <1>0, <1>3, SealSteps DEF SendVideo
  <2>2. QED
    BY <1>0, <2>1 DEF Newest
<1>4. CASE ReadControl
  <2>1. /\ control # <<>> /\ control' = Tail(control)
        /\ audio' = audio /\ counters' = counters
    BY <1>4 DEF ReadControl
  <2>2. QED
    BY <1>0, <2>1, NewestRead DEF Newest
<1>5. CASE ReadAudio
  <2>1. /\ audio # <<>> /\ audio' = Tail(audio)
        /\ control' = control /\ counters' = counters
    BY <1>5 DEF ReadAudio
  <2>2. QED
    BY <1>0, <2>1, NewestRead DEF Newest
<1>6. CASE UNCHANGED <<counters, control, audio>>
  BY <1>0, <1>6 DEF Newest
<1>7. QED
  BY <1>1, <1>2, <1>3, <1>4, <1>5, <1>6 DEF Next, ReadPart, ReadOutOfStep,
     ForwardControl, AcceptUni, ReadVideo, Recv, RecvClosed, Lose, vars, wire, app

\* While the connection holds, the next number of a lane is one that is sent.
LEMMA NextNumbers ==
    ASSUME LanesInv, ~lost
    PROVE  /\ AudioNext \in 0..counters["audio"]
           /\ ~garbled => ControlNext \in 0..counters["control"]
<1> USE Channels
<1>1. /\ counters["audio"] \in Nat /\ Len(audio) \in Nat /\ Len(audio) <= counters["audio"]
      /\ counters["control"] \in Nat /\ Len(control) \in Nat
      /\ Len(control) <= counters["control"]
  <2>1. /\ counters["audio"] \in Nat /\ Len(audio) \in Nat
        /\ counters["control"] \in Nat /\ Len(control) \in Nat
    <3>1. /\ counters \in [Channel -> Nat]
          /\ control \in Seq(Envelope) /\ audio \in Seq(Envelope)
      BY DEF LanesInv, TypeOK
    <3>2. QED
      BY <3>1
  <2>2. Newest("audio", audio) /\ Newest("control", control)
    BY DEF LanesInv, Streams
  <2>3. QED
    BY <2>1, <2>2 DEF Newest
<1>2. ASSUME ~garbled, demux.forwards # <<>> PROVE Len(control) < counters["control"]
  BY <1>2, DemuxFields DEF LanesInv, Forwarding
<1>3. AudioNext \in 0..counters["audio"]
  BY <1>1 DEF AudioNext
<1>4. ASSUME ~garbled PROVE ControlNext \in 0..counters["control"]
  <2>1. CASE demux.forwards = <<>>
    BY <1>1, <2>1 DEF ControlNext, InHand
  <2>2. CASE demux.forwards # <<>>
    BY <1>1, <1>2, <1>4, <2>2 DEF ControlNext, InHand
  <2>3. QED
    BY <2>1, <2>2
<1>5. QED
  BY <1>3, <1>4

\* An envelope in hand is the next one of the control channel.
LEMMA ForwardingSteps == LanesInv /\ [Next]_vars => Forwarding'
<1> SUFFICES ASSUME LanesInv, [Next]_vars PROVE Forwarding'
  OBVIOUS
<1> USE Channels
<1>0. TypeOK /\ TypeOK' /\ Forwarding /\ Cut
  BY TypeSteps DEF LanesInv
<1>1. CASE SendControl
  <2>1. /\ Seal("control") /\ control' = Append(control, Sealed("control"))
        /\ UNCHANGED <<demux, lost>> /\ garbled' = garbled
    BY <1>1 DEF SendControl
  <2>2. /\ counters'["control"] = counters["control"] + 1
        /\ counters["control"] \in Nat /\ Sealed("control") \in Envelope
    BY <1>0, <2>1, SealSteps
  <2>3. Len(control') = Len(control) + 1 /\ Len(control) \in Nat
    BY <1>0, <2>1, <2>2, Added DEF TypeOK
  <2>4. counters'["control"] - Len(control') - 1 = counters["control"] - Len(control) - 1
    BY <2>2, <2>3, SMTT(30)
  <2>5. Len(control) < counters["control"] => Len(control') < counters'["control"]
    BY <2>2, <2>3
  <2>6. QED
    BY <1>0, <2>1, <2>4, <2>5 DEF Forwarding
<1>2. CASE SendAudio \/ SendVideo
  <2>1. /\ UNCHANGED <<control, demux, lost>> /\ garbled' = garbled
        /\ counters'["control"] = counters["control"]
    BY <1>0, <1>2, SealSteps DEF SendAudio, SendVideo
  <2>2. QED
    BY <1>0, <2>1 DEF Forwarding
<1>3. CASE ReadControl
  <2>1. /\ control # <<>> /\ control' = Tail(control) /\ demux = Selecting
        /\ demux' = Holding(<<Head(control)>>) /\ ~garbled /\ garbled' = garbled
        /\ counters' = counters
    BY <1>3 DEF ReadControl, InSelect
  <2>2. ~lost
    BY <1>0, <2>1, DemuxFields DEF Cut
  <2>3. Newest("control", control) /\ control \in Seq(Envelope)
    BY <2>2 DEF LanesInv, Streams, TypeOK
  <2>4. /\ Head(control) = Numbered("control", counters["control"] - Len(control))
        /\ counters["control"] - Len(control') = counters["control"] - Len(control) + 1
        /\ counters["control"] - Len(control) \in Nat
        /\ Len(control') < counters["control"]
    BY <1>0, <2>1, <2>3, NewestRead
  <2>5. counters'["control"] - Len(control') - 1 = counters["control"] - Len(control)
    BY <2>1, <2>4
  <2>6. QED
    BY <2>1, <2>4, <2>5 DEF Forwarding
<1>4. CASE ReadOutOfStep
  BY <1>4, DemuxFields DEF ReadOutOfStep, Forwarding
<1>5. CASE ForwardControl
  BY <1>5 DEF ForwardControl, Forwarding
<1>6. CASE AcceptUni
  BY <1>6 DEF AcceptUni, InSelect, Forwarding
<1>7. CASE Lose
  BY <1>7 DEF Lose, Forwarding
<1>8. CASE UNCHANGED <<counters, control, demux, lost>> /\ garbled' = garbled
  BY <1>0, <1>8 DEF Forwarding
<1>9. QED
  BY <1>1, <1>2, <1>3, <1>4, <1>5, <1>6, <1>7, <1>8 DEF Next, ReadPart, ReadVideo,
     ReadAudio, Recv, RecvClosed, vars, wire, app

\* recv returns the next envelope of a lane, passes over what belongs to
\* another one, and ends in an error over Garbage only.
LEMMA RecvSteps ==
    ASSUME LanesInv, Recv, NEW c \in Ordered
    PROVE  /\ Head(inbound) \in Lane(c) =>
                  /\ expected'[c] = expected[c] + 1
                  /\ got'[c] = Append(got[c], expected[c])
           /\ Head(inbound) \notin Lane(c) => expected'[c] = expected[c] /\ got'[c] = got[c]
<1> DEFINE e == Head(inbound)
<1> USE Channels
<1>0. /\ TypeOK /\ inbound # <<>> /\ inbound \in Seq(Item) /\ e \in Item
      /\ expected \in [Channel -> Nat] /\ got \in [Channel -> Seq(Nat)]
  BY HeadTail DEF LanesInv, TypeOK, Recv, Item
<1>1. PICK next \in 0..counters[c] : Run(c, inbound, expected[c], next)
  BY DEF LanesInv, Queue
<1>2. next \in Nat /\ expected[c] \in Nat
  BY <1>0 DEF TypeOK
<1>3. CASE e \in Lane(c)
  <2>1. e.chan = c /\ e.counter \in Nat /\ e # Garbage
    BY <1>3, LaneItems
  <2>2. e.counter = expected[c]
    BY <1>0, <1>1, <1>2, <1>3, HeadIsDue
  <2>3. ~Replay(e) /\ ~Overtaken(e)
    BY <1>2, <2>1, <2>2 DEF Replay, Overtaken
  <2>4. /\ expected' = [expected EXCEPT ![e.chan] = e.counter + 1]
        /\ got' = [got EXCEPT ![e.chan] = Append(@, e.counter)]
    BY <2>1, <2>3 DEF Recv, app
  <2> HIDE DEF e
  <2>5. QED
    BY <1>0, <2>1, <2>2, <2>4, <1>3 DEF e
<1>4. CASE e \notin Lane(c)
  <2>1. CASE UNCHANGED <<expected, got>>
    BY <1>4, <2>1
  <2>2. CASE ~UNCHANGED <<expected, got>>
    <3>1. /\ e # Garbage
          /\ expected' = [expected EXCEPT ![e.chan] = e.counter + 1]
          /\ got' = [got EXCEPT ![e.chan] = Append(@, e.counter)]
      BY <2>2 DEF Recv, app
    <3>2. e \in Envelope
      BY <1>0, <3>1 DEF Item
    <3>3. e.chan # c
      BY <1>4, <3>2, OneLane
    <3> HIDE DEF e
    <3>4. expected'[c] = expected[c] /\ got'[c] = got[c]
      BY <1>0, <3>1, <3>3
    <3>5. QED
      BY <1>4, <3>4 DEF e
  <2>3. QED
    BY <2>1, <2>2
<1>5. QED
  BY <1>3, <1>4

\* No envelope ends a session with an error: Garbage does.
LEMMA RecvEnds ==
    ASSUME LanesInv, Recv
    PROVE  viewer' = viewer \/ (viewer' = "error" /\ Head(inbound) = Garbage)
<1> DEFINE e == Head(inbound)
<1> USE Channels
<1>0. /\ TypeOK /\ inbound # <<>> /\ inbound \in Seq(Item) /\ e \in Item
      /\ expected \in [Channel -> Nat] /\ viewer = "on"
  BY HeadTail DEF LanesInv, TypeOK, Recv, Item
<1>c. counters \in [Channel -> Nat]
  BY DEF LanesInv, TypeOK
<1>1. CASE e = Garbage
  BY <1>0, <1>1 DEF Recv, app
<1>2. CASE e # Garbage
  <2>1. e \in Envelope /\ e.chan \in Channel /\ e.counter \in Nat
    BY <1>0, <1>2 DEF Item, Envelope
  <2>2. ~Overtaken(e) => ~Replay(e)
    <3>1. CASE e.chan = "video"
      BY <3>1 DEF Overtaken
    <3>2. CASE e.chan # "video"
      <4>1. e.chan \in Ordered /\ e \in Lane(e.chan)
        BY <2>1, <3>2, OneLane DEF Channel, Ordered
      <4>2. PICK next \in 0..counters[e.chan] : Run(e.chan, inbound, expected[e.chan], next)
        BY <4>1 DEF LanesInv, Queue
      <4>3. next \in Nat /\ expected[e.chan] \in Nat
        <5>1. counters[e.chan] \in Nat /\ expected[e.chan] \in Nat
          BY <1>0, <1>c, <2>1
        <5>2. QED
          BY <5>1
      <4>4. e.counter = expected[e.chan]
        BY <1>0, <2>1, <4>1, <4>2, <4>3, HeadIsDue
      <4>5. QED
        BY <4>3, <4>4 DEF Replay
    <3>3. QED
      BY <3>1, <3>2
  <2> HIDE DEF e
  <2>3. CASE Overtaken(e)
    BY <1>2, <2>3 DEF Recv, app, e
  <2>4. CASE ~Overtaken(e)
    BY <1>2, <2>2, <2>4 DEF Recv, app, e
  <2>5. QED
    BY <2>3, <2>4
<1>3. QED
  BY <1>1, <1>2

\* Nothing joins or leaves the queue.
LEMMA QueueKept ==
    ASSUME LanesInv, UNCHANGED <<inbound, expected>>,
           TypeOK', \A c \in Channel : counters[c] <= counters'[c],
           lost => lost', garbled => garbled',
           ~lost' => AudioNext' = AudioNext,
           ~lost' /\ ~garbled' => ControlNext' = ControlNext
    PROVE  Queue'
<1> USE Channels
<1>1. \A c \in Channel : counters[c] \in Nat /\ counters'[c] \in Nat
  BY DEF LanesInv, TypeOK
<1>2. ASSUME NEW c \in Ordered
      PROVE  \E next \in 0..counters'[c] : Run(c, inbound', expected'[c], next)
  <2>1. PICK next \in 0..counters[c] : Run(c, inbound, expected[c], next)
    BY DEF LanesInv, Queue
  <2>2. next \in 0..counters'[c]
    BY <1>1
  <2>3. QED
    BY <2>1, <2>2
<1>3. ~lost' => Run("audio", inbound', expected'["audio"], AudioNext')
  BY DEF LanesInv, Queue
<1>4. ~lost' /\ ~garbled' => Run("control", inbound', expected'["control"], ControlNext')
  BY DEF LanesInv, Queue
<1>5. \A i \in 1..Len(inbound') : inbound'[i] = Garbage => garbled'
  BY DEF LanesInv, Queue
<1>6. QED
  BY <1>2, <1>3, <1>4, <1>5 DEF Queue

\* An item of no ordered lane joins the queue.
LEMMA QueuePassed ==
    ASSUME LanesInv, NEW e \in Item, inbound' = Append(inbound, e),
           UNCHANGED <<counters, expected, lost>>, garbled' = garbled,
           AudioNext' = AudioNext, ~garbled => ControlNext' = ControlNext,
           \A c \in Ordered : e \notin Lane(c), e = Garbage => garbled
    PROVE  Queue'
<1> USE Channels
<1>1. /\ inbound \in Seq(Item)
      /\ \A c \in Channel : counters[c] \in Nat /\ expected[c] \in Nat
  BY DEF LanesInv, TypeOK, Item
<1>2. /\ Len(inbound') = Len(inbound) + 1 /\ Len(inbound) \in Nat
      /\ \A i \in 1..Len(inbound) : inbound'[i] = inbound[i]
      /\ inbound'[Len(inbound) + 1] = e
  BY <1>1, Added
<1>3. ASSUME NEW c \in Ordered, NEW next \in Nat, Run(c, inbound, expected[c], next)
      PROVE  Run(c, inbound', expected'[c], next)
  <2>1. expected'[c] = expected[c] /\ c \in Channel /\ expected[c] \in Nat
    BY <1>1
  <2>2. Run(c, Append(inbound, e), expected[c], next)
    BY <1>1, <1>3, <2>1, RunPassed
  <2>3. QED
    BY <2>1, <2>2
<1>4. ASSUME NEW c \in Ordered
      PROVE  \E next \in 0..counters'[c] : Run(c, inbound', expected'[c], next)
  <2>1. PICK next \in 0..counters[c] : Run(c, inbound, expected[c], next)
    BY DEF LanesInv, Queue
  <2>2. next \in Nat
    BY <1>1
  <2>3. QED
    BY <1>3, <2>1, <2>2
<1>5. ASSUME ~lost'
      PROVE  Run("audio", inbound', expected'["audio"], AudioNext')
  BY <1>1, <1>3, <1>5, NextNumbers DEF LanesInv, Queue
<1>6. ASSUME ~lost', ~garbled'
      PROVE  Run("control", inbound', expected'["control"], ControlNext')
  BY <1>1, <1>3, <1>6, NextNumbers DEF LanesInv, Queue
<1>7. \A i \in 1..Len(inbound') : inbound'[i] = Garbage => garbled'
  <2>1. \A i \in 1..Len(inbound') : i \in 1..Len(inbound) \/ i = Len(inbound) + 1
    BY <1>2
  <2>2. QED
    BY <1>2, <2>1 DEF LanesInv, Queue
<1>8. QED
  BY <1>4, <1>5, <1>6, <1>7 DEF Queue

\* The next envelope of an ordered lane, d, joins the queue.
LEMMA QueueJoined ==
    ASSUME LanesInv, NEW d \in Ordered, NEW next \in Nat,
           Run(d, inbound, expected[d], next), next < counters[d],
           inbound' = Append(inbound, Numbered(d, next)),
           UNCHANGED <<counters, expected>>
    PROVE  /\ Run(d, inbound', expected'[d], next + 1)
           /\ \A c \in Ordered : c # d =>
                  \A n \in Nat : Run(c, inbound, expected[c], n)
                                     => Run(c, inbound', expected'[c], n)
           /\ \A c \in Ordered :
                  \E n \in 0..counters'[c] : Run(c, inbound', expected'[c], n)
           /\ \A i \in 1..Len(inbound') : inbound'[i] = Garbage => garbled
<1> DEFINE e == Numbered(d, next)
<1> USE Channels
<1>1. /\ inbound \in Seq(Item)
      /\ \A c \in Channel : counters[c] \in Nat /\ expected[c] \in Nat
  BY DEF LanesInv, TypeOK, Item
<1>2. e \in Envelope /\ e \in Item /\ e # Garbage /\ e.chan = d
  BY DEF Item, Envelope, Numbered
<1>3. /\ Len(inbound') = Len(inbound) + 1 /\ Len(inbound) \in Nat
      /\ \A i \in 1..Len(inbound) : inbound'[i] = inbound[i]
      /\ inbound'[Len(inbound) + 1] = e
  BY <1>1, <1>2, Added
<1>4. Run(d, inbound', expected'[d], next + 1)
  BY <1>1, RunJoined
<1> HIDE DEF e
<1>5. ASSUME NEW c \in Ordered, c # d, NEW n \in Nat, Run(c, inbound, expected[c], n)
      PROVE  Run(c, inbound', expected'[c], n)
  <2>1. e \notin Lane(c) /\ c \in Channel /\ expected[c] \in Nat
    BY <1>1, <1>2, <1>5, OneLane
  <2>2. Run(c, Append(inbound, e), expected[c], n)
    BY <1>1, <1>2, <1>5, <2>1, RunPassed
  <2>3. QED
    BY <2>2 DEF e
<1>6. ASSUME NEW c \in Ordered
      PROVE  \E n \in 0..counters'[c] : Run(c, inbound', expected'[c], n)
  <2>1. CASE c = d
    <3>1. next + 1 \in 0..counters[d] /\ counters' = counters
      BY <1>1
    <3>2. QED
      BY <1>4, <2>1, <3>1
  <2>2. CASE c # d
    <3>1. PICK n \in 0..counters[c] : Run(c, inbound, expected[c], n)
      BY DEF LanesInv, Queue
    <3>2. n \in Nat /\ counters' = counters
      BY <1>1
    <3>3. QED
      BY <1>5, <2>2, <3>1, <3>2
  <2>3. QED
    BY <2>1, <2>2
<1>7. \A i \in 1..Len(inbound') : inbound'[i] = Garbage => garbled
  <2>1. \A i \in 1..Len(inbound') : i \in 1..Len(inbound) \/ i = Len(inbound) + 1
    BY <1>3
  <2>2. QED
    BY <1>2, <1>3, <2>1 DEF LanesInv, Queue
<1>8. QED
  BY <1>4, <1>5, <1>6, <1>7

\* The runs of the queue.
LEMMA QueueSteps == LanesInv /\ [Next]_vars => Queue'
<1> SUFFICES ASSUME LanesInv, [Next]_vars PROVE Queue'
  OBVIOUS
<1> USE Channels
<1>0. /\ TypeOK /\ TypeOK' /\ Forwarding /\ Cut /\ Accepted /\ Queue
      /\ lost => lost'
      /\ garbled => garbled'
      /\ control \in Seq(Envelope) /\ audio \in Seq(Envelope)
      /\ inbound \in Seq(Item)
  BY TypeSteps, NoReturn DEF LanesInv, TypeOK, Item
<1>1. \A c \in Channel : counters[c] \in Nat /\ expected[c] \in Nat
  BY <1>0 DEF TypeOK
<1>2. ASSUME counters' = counters, UNCHANGED <<inbound, expected>>,
             ~lost' => audio' = audio,
             ~lost' /\ ~garbled' => ControlNext' = ControlNext
      PROVE  Queue'
  <2>1. ~lost' => AudioNext' = AudioNext
    BY <1>2 DEF AudioNext
  <2>2. \A c \in Channel : counters[c] <= counters'[c]
    BY <1>1, <1>2
  <2>3. QED
    BY <1>0, <1>2, <2>1, <2>2, QueueKept
<1>3. CASE SendControl
  <2>1. /\ Seal("control") /\ control' = Append(control, Sealed("control"))
        /\ UNCHANGED <<inbound, expected, audio, demux>>
    BY <1>3 DEF SendControl, app
  <2>2. /\ counters'["control"] = counters["control"] + 1
        /\ counters'["audio"] = counters["audio"]
        /\ \A c \in Channel : counters[c] <= counters'[c]
        /\ Sealed("control") \in Envelope
    BY <1>0, <2>1, SealSteps
  <2>3. Len(control') = Len(control) + 1 /\ Len(control) \in Nat
    BY <1>0, <2>1, <2>2, Added
  <2>4. InHand' = InHand /\ InHand \in Nat
    BY <2>1 DEF InHand
  <2>5. AudioNext' = AudioNext
    BY <2>1, <2>2 DEF AudioNext
  <2>6. ControlNext' = ControlNext
    BY <1>1, <2>2, <2>3, <2>4 DEF ControlNext
  <2>7. QED
    BY <1>0, <2>1, <2>2, <2>5, <2>6, QueueKept
<1>4. CASE SendAudio
  <2>1. /\ Seal("audio") /\ audio' = Append(audio, Sealed("audio"))
        /\ UNCHANGED <<inbound, expected, control, demux>>
    BY <1>4 DEF SendAudio, app
  <2>2. /\ counters'["audio"] = counters["audio"] + 1
        /\ counters'["control"] = counters["control"]
        /\ \A c \in Channel : counters[c] <= counters'[c]
        /\ Sealed("audio") \in Envelope
    BY <1>0, <2>1, SealSteps
  <2>3. Len(audio') = Len(audio) + 1 /\ Len(audio) \in Nat
    BY <1>0, <2>1, <2>2, Added
  <2>4. AudioNext' = AudioNext
    BY <1>1, <2>2, <2>3 DEF AudioNext
  <2>5. ControlNext' = ControlNext
    BY <2>1, <2>2 DEF ControlNext, InHand
  <2>6. QED
    BY <1>0, <2>1, <2>2, <2>4, <2>5, QueueKept
<1>5. CASE SendVideo
  <2>1. Seal("video") /\ UNCHANGED <<inbound, expected, control, audio, demux>>
    BY <1>5 DEF SendVideo, app
  <2>2. /\ counters'["audio"] = counters["audio"]
        /\ counters'["control"] = counters["control"]
        /\ \A c \in Channel : counters[c] <= counters'[c]
    BY <1>0, <2>1, SealSteps
  <2>3. AudioNext' = AudioNext /\ ControlNext' = ControlNext
    BY <2>1, <2>2 DEF AudioNext, ControlNext, InHand
  <2>4. QED
    BY <1>0, <2>1, <2>2, <2>3, QueueKept
<1>6. CASE ReadPart \/ AcceptUni
  <2>1. UNCHANGED <<counters, inbound, expected, audio, control, demux>>
    BY <1>6 DEF ReadPart, AcceptUni, app
  <2>2. ControlNext' = ControlNext
    BY <2>1 DEF ControlNext, InHand
  <2>3. QED
    BY <1>2, <2>1, <2>2
<1>7. CASE ReadControl
  <2>1. /\ control # <<>> /\ control' = Tail(control) /\ demux = Selecting
        /\ demux' = Holding(<<Head(control)>>)
        /\ UNCHANGED <<counters, inbound, expected, audio>>
    BY <1>7 DEF ReadControl, InSelect, app
  <2>2. Len(control') = Len(control) - 1 /\ Len(control) \in Nat
    BY <1>0, <2>1, HeadTail
  <2>3. InHand = 0 /\ InHand' = 1
    <3>1. demux.forwards = <<>> /\ demux'.forwards = <<Head(control)>>
      BY <2>1, DemuxFields
    <3>2. QED
      BY <3>1, DemuxFields DEF InHand
  <2>4. ControlNext' = ControlNext
    BY <1>1, <2>1, <2>2, <2>3 DEF ControlNext
  <2>5. QED
    BY <1>2, <2>1, <2>4
<1>8. CASE ReadOutOfStep
  <2>1. garbled' /\ UNCHANGED <<counters, inbound, expected, audio>>
    BY <1>0, <1>8 DEF ReadOutOfStep, app
  <2>2. QED
    BY <1>2, <2>1
<1>9. CASE ForwardControl
  <2>1. /\ demux.forwards # <<>> /\ demux' = Selecting
        /\ inbound' = inbound \o demux.forwards
        /\ UNCHANGED <<counters, control, audio, expected, lost>>
        /\ garbled' = garbled
    BY <1>9 DEF ForwardControl, app
  <2>2. ~lost /\ InHand = 1 /\ InHand' = 0
    BY <1>0, <2>1, DemuxFields DEF Cut, InHand
  <2>3. AudioNext' = AudioNext
    BY <2>1 DEF AudioNext
  <2>4. CASE garbled /\ demux = Holding(<<Garbage>>)
    <3>1. inbound' = Append(inbound, Garbage) /\ Garbage \in Item
      <4>1. demux.forwards = <<Garbage>> /\ Garbage \in Item
        BY <2>4, DemuxFields DEF Item
      <4>2. QED
        BY <1>0, <2>1, <4>1, Added
    <3>2. \A c \in Ordered : Garbage \notin Lane(c)
      BY LaneItems
    <3>3. QED
      BY <2>1, <2>3, <2>4, <3>1, <3>2, QueuePassed
  <2>5. CASE ~garbled /\ demux # Holding(<<Garbage>>)
    <3>1. /\ Len(control) < counters["control"] /\ Len(control) \in Nat
          /\ demux = Holding(<<Numbered("control", counters["control"] - Len(control) - 1)>>)
      BY <1>0, <2>1, <2>5, DemuxFields DEF Forwarding
    <3>2. /\ ControlNext = counters["control"] - Len(control) - 1
          /\ ControlNext' = ControlNext + 1
          /\ ControlNext \in Nat /\ ControlNext < counters["control"]
      BY <1>1, <2>1, <2>2, <3>1 DEF ControlNext
    <3>3. Numbered("control", ControlNext) \in Item
      BY <3>2 DEF Numbered, Item, Envelope
    <3>4. inbound' = Append(inbound, Numbered("control", ControlNext))
      <4>1. demux.forwards = <<Numbered("control", ControlNext)>>
        BY <3>1, <3>2, DemuxFields
      <4>2. QED
        BY <1>0, <2>1, <3>3, <4>1, Added
    <3>5. Run("control", inbound, expected["control"], ControlNext)
      BY <1>0, <2>2, <2>5 DEF Queue
    <3>6. /\ Run("control", inbound', expected'["control"], ControlNext')
          /\ \A n \in Nat : Run("audio", inbound, expected["audio"], n)
                                => Run("audio", inbound', expected'["audio"], n)
          /\ \A c \in Ordered :
                 \E n \in 0..counters'[c] : Run(c, inbound', expected'[c], n)
          /\ \A i \in 1..Len(inbound') : inbound'[i] = Garbage => garbled
      BY <2>1, <3>2, <3>4, <3>5, QueueJoined
    <3>7. Run("audio", inbound', expected'["audio"], AudioNext')
      BY <1>0, <1>1, <2>2, <2>3, <3>6, NextNumbers DEF Queue
    <3>8. QED
      BY <2>1, <2>2, <2>5, <3>6, <3>7 DEF Queue
  <2>6. QED
    <3>1. demux = Holding(<<Garbage>>) => garbled
      <4>1. ASSUME ~garbled, demux = Holding(<<Garbage>>) PROVE FALSE
        <5>1. demux = Holding(<<Numbered("control", counters["control"] - Len(control) - 1)>>)
              /\ Len(control) < counters["control"]
          BY <1>0, <2>1, <4>1, DemuxFields DEF Forwarding
        <5>2. Garbage = Numbered("control", counters["control"] - Len(control) - 1)
          <6>1. <<Garbage>> = <<Numbered("control", counters["control"] - Len(control) - 1)>>
            <7>1. demux.forwards = <<Garbage>>
              BY <4>1, DemuxFields
            <7>2. demux.forwards =
                    <<Numbered("control", counters["control"] - Len(control) - 1)>>
              BY <5>1, DemuxFields
            <7>3. QED
              BY <7>1, <7>2
          <6>2. QED
            BY <6>1, DemuxFields
        <5>3. counters["control"] - Len(control) - 1 \in Nat
          BY <1>0, <1>1, <5>1
        <5>4. QED
          BY <5>2, <5>3 DEF Numbered, Envelope
      <4>2. QED
        BY <4>1
    <3>2. garbled => demux = Holding(<<Garbage>>)
      BY <1>0, <2>1, DemuxFields DEF Forwarding
    <3>3. QED
      BY <2>4, <2>5, <3>1, <3>2
<1>10. ASSUME NEW stream \in reading, ReadVideo(stream) PROVE Queue'
  <2>1. /\ stream.chan # "audio" /\ inbound' = Append(inbound, stream)
        /\ UNCHANGED <<counters, control, audio, demux, expected, lost>>
        /\ garbled' = garbled
    BY <1>10 DEF ReadVideo, app
  <2>2. stream \in Lane("video")
    BY <1>0, <2>1 DEF Accepted, OneWay, AudioLane
  <2>3. stream \in Item /\ stream # Garbage /\ stream.chan = "video" /\ stream \in Envelope
    BY <2>2, LaneItems DEF Item
  <2>4. \A c \in Ordered : stream \notin Lane(c)
    BY <2>3, OneLane
  <2>5. AudioNext' = AudioNext /\ ControlNext' = ControlNext
    BY <2>1 DEF AudioNext, ControlNext, InHand
  <2>6. QED
    BY <2>1, <2>3, <2>4, <2>5, QueuePassed
<1>11. CASE ReadAudio
  <2>1. /\ AudioLane \in reading /\ audio # <<>>
        /\ inbound' = Append(inbound, Head(audio)) /\ audio' = Tail(audio)
        /\ UNCHANGED <<counters, control, demux, expected, lost>>
        /\ garbled' = garbled
    BY <1>11 DEF ReadAudio, app
  <2>2. ~lost
    BY <1>0, <2>1 DEF Cut
  <2>3. Newest("audio", audio)
    BY <2>2 DEF LanesInv, Streams
  <2>4. /\ Head(audio) = Numbered("audio", AudioNext) /\ AudioNext \in Nat
        /\ AudioNext' = AudioNext + 1 /\ AudioNext < counters["audio"]
    <3>1. /\ Head(audio) = Numbered("audio", counters["audio"] - Len(audio))
          /\ counters["audio"] - Len(audio) \in Nat
          /\ counters["audio"] - Len(Tail(audio)) = counters["audio"] - Len(audio) + 1
      BY <1>0, <2>1, <2>3, NewestRead
    <3>2. Len(audio) \in Nat \ {0}
      BY <1>0, <2>1, HeadTail
    <3>3. QED
      BY <1>1, <2>1, <3>1, <3>2 DEF AudioNext
  <2>5. ControlNext' = ControlNext
    BY <2>1 DEF ControlNext, InHand
  <2>6. Run("audio", inbound, expected["audio"], AudioNext)
    BY <1>0, <2>2 DEF Queue
  <2>7. /\ Run("audio", inbound', expected'["audio"], AudioNext')
        /\ \A n \in Nat : Run("control", inbound, expected["control"], n)
                              => Run("control", inbound', expected'["control"], n)
        /\ \A c \in Ordered :
               \E n \in 0..counters'[c] : Run(c, inbound', expected'[c], n)
        /\ \A i \in 1..Len(inbound') : inbound'[i] = Garbage => garbled
    BY <2>1, <2>4, <2>6, QueueJoined
  <2>8. ~garbled => Run("control", inbound', expected'["control"], ControlNext')
    BY <1>0, <1>1, <2>2, <2>5, <2>7, NextNumbers DEF Queue
  <2>9. QED
    BY <2>1, <2>2, <2>7, <2>8 DEF Queue
<1>12. CASE Recv
  <2>1. /\ inbound # <<>> /\ inbound' = Tail(inbound)
        /\ UNCHANGED <<counters, control, audio, demux, lost>>
        /\ garbled' = garbled
    BY <1>12 DEF Recv
  <2>2. AudioNext' = AudioNext /\ ControlNext' = ControlNext
    BY <2>1 DEF AudioNext, ControlNext, InHand
  <2>3. ASSUME NEW c \in Ordered, NEW n \in Nat, Run(c, inbound, expected[c], n)
        PROVE  Run(c, inbound', expected'[c], n)
    <3>0. c \in Channel /\ expected[c] \in Nat
      BY <1>1
    <3>1. CASE Head(inbound) \in Lane(c)
      <4>1. expected'[c] = expected[c] + 1
        BY <1>12, <3>1, RecvSteps
      <4>2. Run(c, Tail(inbound), expected[c] + 1, n)
        BY <1>0, <2>1, <2>3, <3>0, <3>1, RunTaken
      <4>3. QED
        BY <2>1, <4>1, <4>2
    <3>2. CASE Head(inbound) \notin Lane(c)
      <4>1. expected'[c] = expected[c]
        BY <1>12, <3>2, RecvSteps
      <4>2. Run(c, Tail(inbound), expected[c], n)
        BY <1>0, <2>1, <2>3, <3>0, <3>2, RunSkipped
      <4>3. QED
        BY <2>1, <4>1, <4>2
    <3>3. QED
      BY <3>1, <3>2
  <2>4. ASSUME NEW c \in Ordered
        PROVE  \E n \in 0..counters'[c] : Run(c, inbound', expected'[c], n)
    <3>1. PICK n \in 0..counters[c] : Run(c, inbound, expected[c], n)
      BY <1>0 DEF Queue
    <3>2. n \in Nat /\ counters' = counters
      BY <1>1, <2>1
    <3>3. QED
      BY <2>3, <3>1, <3>2
  <2>5. ~lost' => Run("audio", inbound', expected'["audio"], AudioNext')
    BY <1>0, <1>1, <2>1, <2>2, <2>3, NextNumbers DEF Queue
  <2>6. ~lost' /\ ~garbled' => Run("control", inbound', expected'["control"], ControlNext')
    BY <1>0, <1>1, <2>1, <2>2, <2>3, NextNumbers DEF Queue
  <2>7. \A i \in 1..Len(inbound') : inbound'[i] = Garbage => garbled'
    <3>1. /\ Len(inbound') = Len(inbound) - 1 /\ Len(inbound) \in Nat
          /\ \A i \in 1..(Len(inbound) - 1) : inbound'[i] = inbound[i + 1]
      BY <1>0, <2>1, HeadTail
    <3>2. \A i \in 1..Len(inbound') : i + 1 \in 1..Len(inbound) /\ inbound'[i] = inbound[i + 1]
      BY <3>1
    <3>3. QED
      BY <1>0, <2>1, <3>2 DEF Queue
  <2>8. QED
    BY <2>4, <2>5, <2>6, <2>7 DEF Queue
<1>13. CASE Lose
  <2>1. lost' /\ UNCHANGED <<counters, inbound, expected>>
    BY <1>13 DEF Lose, app
  <2>2. QED
    BY <1>2, <2>1
<1>14. CASE RecvClosed \/ UNCHANGED vars
  <2>1. UNCHANGED <<counters, inbound, expected, audio, control, demux>>
    BY <1>14 DEF RecvClosed, wire, vars, app
  <2>2. ControlNext' = ControlNext
    BY <2>1 DEF ControlNext, InHand
  <2>3. QED
    BY <1>2, <2>1, <2>2
<1>15. QED
  BY <1>3, <1>4, <1>5, <1>6, <1>7, <1>8, <1>9, <1>10, <1>11, <1>12, <1>13, <1>14
     DEF Next

\* What recv returned.
LEMMA ReturnedSteps == LanesInv /\ [Next]_vars => Returned'
<1> SUFFICES ASSUME LanesInv, [Next]_vars, NEW c \in Ordered
             PROVE  /\ Len(got'[c]) = expected'[c]
                    /\ \A i \in 1..Len(got'[c]) : got'[c][i] = i - 1
  BY DEF Returned
<1> USE Channels
<1>1. /\ got[c] \in Seq(Nat) /\ expected[c] \in Nat
      /\ Len(got[c]) = expected[c] /\ \A i \in 1..Len(got[c]) : got[c][i] = i - 1
  BY DEF LanesInv, TypeOK, Returned
<1>2. CASE Recv
  <2>1. CASE Head(inbound) \in Lane(c)
    <3>1. /\ expected'[c] = expected[c] + 1
          /\ got'[c] = Append(got[c], expected[c])
      BY <1>2, <2>1, RecvSteps
    <3>2. /\ Len(got'[c]) = Len(got[c]) + 1 /\ Len(got[c]) \in Nat
          /\ \A i \in 1..Len(got[c]) : got'[c][i] = got[c][i]
          /\ got'[c][Len(got[c]) + 1] = expected[c]
      BY <1>1, <3>1, Added
    <3>0. \A i \in 1..Len(got'[c]) : i \in 1..Len(got[c]) \/ i = Len(got[c]) + 1
      BY <3>2
    <3>4. Len(got[c]) + 1 - 1 = expected[c] /\ Len(got'[c]) = expected'[c]
      BY <1>1, <3>1, <3>2
    <3>5. ASSUME NEW i \in 1..Len(got'[c]) PROVE got'[c][i] = i - 1
      <4>1. CASE i \in 1..Len(got[c])
        BY <1>1, <3>2, <4>1
      <4>2. CASE i = Len(got[c]) + 1
        BY <3>2, <3>4, <4>2
      <4>3. QED
        BY <3>0, <4>1, <4>2
    <3>3. QED
      BY <3>4, <3>5
  <2>2. CASE Head(inbound) \notin Lane(c)
    BY <1>1, <1>2, <2>2, RecvSteps
  <2>3. QED
    BY <2>1, <2>2
<1>3. CASE ~Recv
  <2>1. got' = got /\ expected' = expected
    BY <1>3 DEF Next, SendControl, SendAudio, SendVideo, ReadPart, ReadControl,
       ReadOutOfStep, ForwardControl, AcceptUni, ReadVideo, ReadAudio, RecvClosed,
       Lose, vars, app
  <2>2. QED
    BY <1>1, <2>1
<1>4. QED
  BY <1>2, <1>3

\* Why a viewer gives up.
LEMMA EndSteps == LanesInv /\ [Next]_vars => EndsExplained'
<1> SUFFICES ASSUME LanesInv, [Next]_vars PROVE EndsExplained'
  OBVIOUS
<1>0. /\ TypeOK /\ EndsExplained /\ Forwarding /\ Queue
      /\ lost => lost'
      /\ garbled => garbled'
  BY NoReturn DEF LanesInv
<1>1. CASE Recv
  <2>1. viewer' = viewer \/ (viewer' = "error" /\ Head(inbound) = Garbage)
    BY <1>1, RecvEnds
  <2>2. inbound # <<>> /\ inbound \in Seq(Item)
    BY <1>0, <1>1 DEF Recv, TypeOK, Item
  <2>3. Head(inbound) = inbound[1] /\ 1 \in 1..Len(inbound)
    BY <2>2, HeadTail
  <2>4. Head(inbound) = Garbage => garbled
    BY <1>0, <2>3 DEF Queue
  <2>5. QED
    BY <1>0, <2>1, <2>4 DEF EndsExplained
<1>2. CASE RecvClosed
  <2>1. demux = Gone /\ viewer' = "closed"
    BY <1>2 DEF RecvClosed
  <2>2. \A q : Gone # Holding(q)
    BY DemuxFields
  <2>3. lost \/ garbled
    BY <1>0, <2>1, <2>2, DemuxFields DEF Forwarding
  <2>4. QED
    BY <1>0, <2>1, <2>3 DEF EndsExplained
<1>3. CASE ~Recv /\ ~RecvClosed
  <2>1. viewer' = viewer
    BY <1>3 DEF Next, SendControl, SendAudio, SendVideo, ReadPart, ReadControl,
       ReadOutOfStep, ForwardControl, AcceptUni, ReadVideo, ReadAudio, Lose, vars, app
  <2>2. QED
    BY <1>0, <2>1 DEF EndsExplained
<1>4. QED
  BY <1>1, <1>2, <1>3

\* A session that begins has sent and queued nothing.
LEMMA LanesInit == Init => LanesInv
<1> SUFFICES ASSUME Init PROVE LanesInv
  OBVIOUS
<1> USE Channels
<1>1. /\ <<>> \in Seq(Envelope) /\ <<>> \in Seq(Envelope \union {Garbage})
      /\ <<>> \in Seq(Nat) /\ Len(<<>>) = 0
  OBVIOUS
<1>2. demux \in [forwards : Seq(Envelope \union {Garbage}), alive : BOOLEAN]
  BY <1>1 DEF Init, Selecting, Holding
<1>3. TypeOK
  <2>1. Len(inbound) <= Capacity
    BY DEF Init
  <2>2. /\ counters \in [Channel -> Nat] /\ expected \in [Channel -> Nat]
        /\ got \in [Channel -> Seq(Nat)]
    BY <1>1 DEF Init
  <2>3. QED
    BY <1>1, <1>2, <2>1, <2>2 DEF Init, TypeOK
<1>4. \A c \in Ordered : Run(c, inbound, expected[c], 0)
  BY <1>1 DEF Init, Run
<1>5. Streams
  BY <1>1 DEF Init, Streams, Newest
<1>6. AudioNext = 0 /\ ControlNext = 0
  BY <1>1, DemuxFields DEF Init, AudioNext, ControlNext, InHand
<1>7. Queue
  BY <1>1, <1>4, <1>6 DEF Init, Queue
<1>8. Forwarding /\ Cut /\ EndsExplained
  BY DEF Init, Forwarding, Cut, EndsExplained
<1>9. Accepted /\ Returned
  BY <1>1 DEF Init, Accepted, Returned
<1>10. QED
  BY <1>3, <1>5, <1>7, <1>8, <1>9 DEF LanesInv

\* All of it holds in every reachable state.
LEMMA LanesInvariant == Spec => []LanesInv
<1>1. LanesInv /\ [Next]_vars => LanesInv'
  BY TypeSteps, CutSteps, AcceptedSteps, StreamSteps, ForwardingSteps, QueueSteps,
     ReturnedSteps, EndSteps DEF LanesInv
<1>2. QED
  BY <1>1, LanesInit, PTL DEF Spec

-----------------------------------------------------------------------------
\* Every reachable state is well typed, and the queue holds no more than its
\* capacity: every task that fills it waits for room.
THEOREM TypeCorrect == Spec => []TypeOK
<1>1. LanesInv => TypeOK
  BY DEF LanesInv
<1>2. QED
  BY <1>1, LanesInvariant, PTL

\* Whatever the streams' order of arrival, recv returns the control messages
\* and the audio blocks as they were sent, in their order and without a gap,
\* although only video frames are spared the check of the counter.
THEOREM LanesOrdered == Spec => []OrderedLanes
<1>1. LanesInv => OrderedLanes
  <2> SUFFICES ASSUME LanesInv, NEW c \in Ordered, NEW i \in DOMAIN got[c]
               PROVE  got[c][i] = i - 1
    BY DEF OrderedLanes, Ordered
  <2>1. got[c] \in Seq(Nat)
    BY Channels DEF LanesInv, TypeOK
  <2>2. i \in 1..Len(got[c])
    BY <2>1
  <2>3. QED
    BY <2>2 DEF LanesInv, Returned
<1>2. QED
  BY <1>1, LanesInvariant, PTL

\* Reordering ends no session: recv fails only over what a read of the control
\* stream that was dropped half-way left behind, and finds the queue closed only
\* then or when the connection is lost.
THEOREM EndsAreExplained == Spec => []EndsExplained
<1>1. LanesInv => EndsExplained
  BY DEF LanesInv
<1>2. QED
  BY <1>1, LanesInvariant, PTL

\* What a stream of the newest envelopes holds.
LEMMA StreamHolds ==
    ASSUME NEW c \in Channel, NEW s \in Seq(Envelope), counters[c] \in Nat, Newest(c, s),
           NEW n \in (counters[c] - Len(s))..(counters[c] - 1)
    PROVE  Holds(s, Numbered(c, n))
<1> DEFINE i == n - (counters[c] - Len(s)) + 1
<1>1. /\ Len(s) \in Nat /\ Len(s) <= counters[c] /\ n \in Nat
      /\ counters[c] - Len(s) <= n /\ n <= counters[c] - 1
  BY DEF Newest
<1>2. i \in 1..Len(s) /\ counters[c] - Len(s) + i - 1 = n
  BY <1>1
<1>3. s[i] = Numbered(c, n)
  BY <1>2 DEF Newest
<1>4. QED
  BY <1>2, <1>3 DEF Holds

\* No task between the streams and recv drops an envelope of the two channels
\* that are in order: one that was sent and not received is in its stream, in the
\* hand of demux or in the queue.  ControlArrives rests on this.
THEOREM NothingIsDropped == Spec => []NothingDropped
<1>1. ASSUME LanesInv, NEW c \in Ordered, ~lost, ~(c = "control" /\ garbled),
             NEW n \in 0..(counters[c] - 1), ~(n < Len(got[c]))
      PROVE  OnItsWay(Numbered(c, n))
  <2> USE Channels
  <2>1. /\ counters["control"] \in Nat /\ counters["audio"] \in Nat
        /\ control \in Seq(Envelope) /\ audio \in Seq(Envelope)
        /\ expected[c] \in Nat /\ Len(got[c]) = expected[c] /\ n \in Nat
        /\ Forwarding
        /\ Newest("control", control) /\ Newest("audio", audio)
    BY <1>1 DEF LanesInv, TypeOK, Streams, Returned
  <2>2. ASSUME NEW next \in Nat, Run(c, inbound, expected[c], next), n < next
        PROVE  OnItsWay(Numbered(c, n))
    <3>1. n \in expected[c]..(next - 1)
      BY <1>1, <2>1, <2>2
    <3>2. QED
      BY <2>2, <3>1 DEF Run, OnItsWay, Holds
  <2>3. CASE c = "audio"
    <3>1. Run("audio", inbound, expected["audio"], AudioNext) /\ Len(audio) \in Nat
      BY <1>1, <2>1 DEF LanesInv, Queue
    <3>2. AudioNext \in Nat /\ AudioNext = counters["audio"] - Len(audio)
      BY <1>1, <2>1, NextNumbers DEF AudioNext
    <3>3. CASE ~(n < AudioNext)
      <4>1. n \in (counters["audio"] - Len(audio))..(counters["audio"] - 1)
        BY <1>1, <2>1, <2>3, <3>1, <3>2, <3>3
      <4>2. QED
        BY <2>1, <2>3, <4>1, StreamHolds DEF OnItsWay
    <3>4. QED
      BY <2>2, <2>3, <3>1, <3>2, <3>3
  <2>4. CASE c = "control"
    <3>1. /\ Run("control", inbound, expected["control"], ControlNext)
          /\ Len(control) \in Nat
      BY <1>1, <2>1, <2>4 DEF LanesInv, Queue
    <3>2. /\ ControlNext \in Nat
          /\ ControlNext = counters["control"] - Len(control) - InHand
      BY <1>1, <2>1, <2>4, NextNumbers DEF ControlNext
    <3>3. CASE n >= counters["control"] - Len(control)
      <4>1. n \in (counters["control"] - Len(control))..(counters["control"] - 1)
        BY <1>1, <2>1, <2>4, <3>1, <3>3
      <4>2. QED
        BY <2>1, <2>4, <4>1, StreamHolds DEF OnItsWay
    <3>4. CASE ~(n < ControlNext) /\ n < counters["control"] - Len(control)
      <4>1. InHand = 1 /\ n = counters["control"] - Len(control) - 1
        BY <2>1, <3>1, <3>2, <3>4 DEF InHand
      <4>2. demux.forwards # <<>>
        BY <4>1 DEF InHand
      <4>3. demux = Holding(<<Numbered("control",
                                       counters["control"] - Len(control) - 1)>>)
        BY <1>1, <2>1, <2>4, <4>2, DemuxFields DEF Forwarding
      <4>4. demux.forwards = <<Numbered(c, n)>>
        BY <2>4, <4>1, <4>3, DemuxFields
      <4>5. Holds(<<Numbered(c, n)>>, Numbered(c, n))
        BY DEF Holds
      <4>6. QED
        BY <4>4, <4>5 DEF OnItsWay
    <3>5. QED
      BY <2>1, <2>2, <2>4, <3>1, <3>2, <3>3, <3>4
  <2>5. QED
    BY <2>3, <2>4 DEF Ordered
<1>2. LanesInv => NothingDropped
  BY <1>1 DEF NothingDropped, Ordered, Numbered
<1>3. QED
  BY <1>2, LanesInvariant, PTL

-----------------------------------------------------------------------------
(***************************************************************************)
(* The sends of OutboundSend, which share the lanes' queues but have state *)
(* of their own: the spool files and their owners.                         *)
(***************************************************************************)
CONSTANTS Sends, Size, LaneCap, None

VARIABLES panel, spools, cmds, sup, slot, flag, fresh, pump, task, down, up,
          deciding, active, kept, replaced, stray

Send == INSTANCE OutboundSend

\* Where a send's chunk task stands.
Stages == {"none", "open", "stream", "failing", "failed", "gone"}
TaskState == [at : Stages, sent : 0..Size]

\* A queued send is queued once; the panel has let go of its spool file.
QueueOwns ==
    /\ \A i, j \in 1..Len(cmds) : i # j => cmds[i] # cmds[j]
    /\ \A i \in 1..Len(cmds) : panel[cmds[i]] = "over" /\ cmds[i] \in spools

\* The send in the slot has left the queue, and its spool file is there.
SlotOwns ==
    slot # None =>
        /\ panel[slot.id] = "over" /\ slot.id \in spools
        /\ \A i \in 1..Len(cmds) : cmds[i] # slot.id

PanelOwns == \A f \in Sends : panel[f] = "spooling" => f \in spools

SendInv ==
    /\ Send!TypeOK
    /\ QueueOwns /\ SlotOwns /\ PanelOwns
    /\ Send!SpoolsOwned

-----------------------------------------------------------------------------
\* A message of a known kind about a send.
LEMMA MessageTyped ==
    ASSUME NEW kind \in Send!Kinds, NEW f \in Sends
    PROVE  Send!Message(kind, f) \in Send!Messages
  BY DEF Send!Message, Send!Messages

\* Every step of the sends is one of these.
LEMMA SendSteps ==
    ASSUME [Send!Next]_(Send!vars)
    PROVE  \/ \E f \in Sends : Send!Panel(f)
           \/ Send!Supervisor
           \/ Send!Leave
           \/ Send!Pump
           \/ \E f \in Sends : Send!TaskStep(f)
           \/ Send!Viewer
           \/ UNCHANGED Send!vars
  BY DEF Send!Next

-----------------------------------------------------------------------------
(***************************************************************************)
(* The types.                                                              *)
(***************************************************************************)
\* What is said on either direction of the control lane.
LEMMA SendSays ==
    ASSUME Send!LaneCapAssumption, Send!TypeOK,
           NEW kind \in Send!Kinds, NEW f \in Sends
    PROVE  /\ Append(up, Send!Message(kind, f)) \in Seq(Send!Messages)
           /\ Append(down, Send!Message(kind, f)) \in Seq(Send!Messages)
           /\ Send!Room => Len(Append(down, Send!Message(kind, f))) <= LaneCap
<1>1. Send!Message(kind, f) \in Send!Messages
  BY MessageTyped
<1>2. up \in Seq(Send!Messages) /\ down \in Seq(Send!Messages)
  BY DEF Send!TypeOK
<1>3. LaneCap \in Nat
  BY DEF Send!LaneCapAssumption
<1>4. Len(Append(down, Send!Message(kind, f))) = Len(down) + 1 /\ Len(down) \in Nat
  BY <1>1, <1>2, Added
<1>5. Send!Room => Len(Append(down, Send!Message(kind, f))) <= LaneCap
  BY <1>3, <1>4 DEF Send!Room
<1>6. QED
  BY <1>1, <1>2, <1>5, Added

\* A chunk task moves on.
LEMMA TaskTyped ==
    ASSUME Send!TypeOK, NEW f \in Sends, NEW at \in Stages, Send!TaskTo(f, at)
    PROVE  task' \in [Sends -> TaskState]
  BY DEF Send!TypeOK, Send!TaskTo, TaskState, Stages

\* The slot's send is discarded, and its task, if one is attached, stopped.
LEMMA DiscardTyped ==
    ASSUME Send!TypeOK, Send!NoneAssumption, Send!Discard, slot # None
    PROVE  /\ spools' \subseteq Sends
           /\ slot.id \in Sends
           /\ task' \in [Sends -> TaskState]
<1>1. slot \in Send!Slots
  BY DEF Send!TypeOK
<1>2. slot.id \in Sends /\ slot.task \in Sends \union {None}
  BY <1>1 DEF Send!Slots
<1>3. spools' \subseteq Sends
  BY DEF Send!Discard, Send!TypeOK
<1>4. CASE slot.task # None /\ task[slot.task].at \in {"open", "stream"}
  <2>1. slot.task \in Sends /\ Send!TaskTo(slot.task, "gone")
    BY <1>2, <1>4 DEF Send!Discard, Send!TaskTo
  <2>2. task' \in [Sends -> TaskState]
    BY <2>1, TaskTyped DEF Stages
  <2>3. QED
    BY <1>2, <1>3, <2>2
<1>5. CASE ~(slot.task # None /\ task[slot.task].at \in {"open", "stream"})
  <2>1. task' = task
    BY <1>5 DEF Send!Discard
  <2>2. QED
    BY <1>2, <1>3, <2>1 DEF Send!TypeOK, TaskState, Stages
<1>6. QED
  BY <1>4, <1>5

\* No step of the sends leaves the types.
LEMMA SendTypeSteps ==
    ASSUME Send!SizeAssumption, Send!LaneCapAssumption, Send!NoneAssumption,
           SendInv, [Send!Next]_(Send!vars)
    PROVE  Send!TypeOK'
<1> USE DEF SendInv
<1>0. Size \in Nat /\ Size >= 1 /\ LaneCap \in Nat /\ LaneCap >= 1
  BY DEF Send!SizeAssumption, Send!LaneCapAssumption
<1>n. None \notin Sends /\ None \notin Send!Slots /\ None \notin Send!Receipts
  BY DEF Send!NoneAssumption
<1>s. slot # None => slot \in Send!Slots /\ slot.id \in Sends
                     /\ slot.task \in Sends \union {None}
  BY DEF Send!TypeOK, Send!Slots
<1>m. ASSUME NEW kind \in Send!Kinds, NEW f \in Sends
      PROVE  /\ Append(up, Send!Message(kind, f)) \in Seq(Send!Messages)
             /\ Append(down, Send!Message(kind, f)) \in Seq(Send!Messages)
             /\ Send!Room => Len(Append(down, Send!Message(kind, f))) <= LaneCap
  BY <1>m, SendSays
<1>u. up # <<>> => Tail(up) \in Seq(Send!Messages)
  BY HeadTail DEF Send!TypeOK
<1>d. down # <<>> => Tail(down) \in Seq(Send!Messages) /\ Len(Tail(down)) <= LaneCap
  <2>1. ASSUME down # <<>>
        PROVE  /\ Tail(down) \in Seq(Send!Messages)
               /\ Len(Tail(down)) = Len(down) - 1 /\ Len(down) \in Nat
    BY <2>1, HeadTail DEF Send!TypeOK
  <2>2. QED
    BY <1>0, <2>1 DEF Send!TypeOK
<1>1. ASSUME NEW f \in Sends, Send!Panel(f) PROVE Send!TypeOK'
  <2>1. Append(cmds, f) \in Seq(Sends)
    BY Added DEF Send!TypeOK
  <2>2. CASE Send!Request(f)
    BY <2>2 DEF Send!TypeOK, Send!Request, Send!slotVars, Send!laneVars,
                Send!viewerVars, Send!history
  <2>3. CASE Send!UploadFails(f)
    BY <2>3 DEF Send!TypeOK, Send!UploadFails, Send!slotVars, Send!laneVars,
                Send!viewerVars, Send!history
  <2>4. CASE Send!HandOver(f)
    BY <2>1, <2>4 DEF Send!TypeOK, Send!HandOver, Send!slotVars, Send!laneVars,
                Send!viewerVars, Send!history
  <2>5. QED
    BY <1>1, <2>2, <2>3, <2>4 DEF Send!Panel
<1>2. CASE Send!Supervisor
  <2>1. CASE Send!TakeSend
    <3>1. Head(cmds) \in Sends /\ Tail(cmds) \in Seq(Sends)
      BY <2>1, HeadTail DEF Send!TypeOK, Send!TakeSend
    <3>2. slot' \in Send!Slots
      BY <2>1, <3>1 DEF Send!TakeSend, Send!Slots
    <3>3. spools' \subseteq Sends /\ replaced' \subseteq Sends
          /\ task' \in [Sends -> TaskState]
      <4>1. CASE slot = None
        BY <2>1, <4>1 DEF Send!TakeSend, Send!TypeOK, TaskState, Stages
      <4>2. CASE slot # None
        <5>1. Send!Discard /\ replaced' = replaced \union {slot.id}
          BY <2>1, <4>2 DEF Send!TakeSend
        <5>2. QED
          BY <4>2, <5>1, DiscardTyped DEF Send!TypeOK
      <4>3. QED
        BY <4>1, <4>2
    <3>4. /\ cmds' = Tail(cmds) /\ sup' = "filled" /\ fresh' = Head(cmds)
          /\ UNCHANGED <<panel, flag, pump, down, up, deciding, active, kept, stray>>
      BY <2>1 DEF Send!TakeSend, Send!laneVars, Send!viewerVars
    <3>5. QED
      BY <1>n, <3>1, <3>2, <3>3, <3>4 DEF Send!TypeOK, TaskState, Stages
  <2>2. CASE Send!RaiseFlag
    BY <2>2 DEF Send!TypeOK, Send!RaiseFlag, Send!panelVars, Send!laneVars,
                Send!viewerVars, Send!history
  <2>3. CASE Send!Offer
    <3>1. fresh \in Sends /\ "offer" \in Send!Kinds
      BY <2>3 DEF Send!Offer, Send!TypeOK, Send!Kinds
    <3>2. down' \in Seq(Send!Messages) /\ Len(down') <= LaneCap
      BY <1>m, <2>3, <3>1 DEF Send!Offer
    <3>3. QED
      BY <2>3, <3>2 DEF Send!TypeOK, Send!Offer, Send!panelVars, Send!slotVars,
                  Send!viewerVars, Send!history
  <2>4. QED
    BY <1>2, <2>1, <2>2, <2>3 DEF Send!Supervisor
<1>3. CASE Send!Leave
  <2>1. spools' \subseteq Sends /\ task' \in [Sends -> TaskState]
    <3>1. CASE slot = None
      BY <1>3, <3>1 DEF Send!Leave, Send!TypeOK, TaskState, Stages
    <3>2. CASE slot # None
      BY <1>3, <3>2, DiscardTyped DEF Send!Leave
    <3>3. QED
      BY <3>1, <3>2
  <2>2. <<>> \in Seq(Sends) /\ <<>> \in Seq(Send!Messages)
    OBVIOUS
  <2>3. /\ sup' = "ended" /\ fresh' = None /\ pump' = None /\ slot' = None
        /\ cmds' = <<>> /\ up' = <<>>
        /\ UNCHANGED <<panel, flag, down, deciding, active, kept, replaced, stray>>
    BY <1>3 DEF Send!Leave, Send!viewerVars, Send!history
  <2>4. QED
    BY <2>1, <2>2, <2>3 DEF Send!TypeOK, TaskState, Stages
<1>4. CASE Send!Pump
  <2>1. CASE Send!Attach
    <3>1. slot' \in Send!Slots \union {None}
      BY <1>s, <2>1 DEF Send!Attach, Send!TypeOK, Send!Slots
    <3>2. QED
      BY <2>1, <3>1 DEF Send!TypeOK, Send!Attach, Send!panelVars, Send!laneVars,
                  Send!viewerVars, Send!history
  <2>2. ASSUME NEW f \in Sends, Send!HearAccept(f) PROVE Send!TypeOK'
    <3>1. up' \in Seq(Send!Messages)
      BY <1>u, <2>2 DEF Send!HearAccept, Send!Hears
    <3>2. task' \in [Sends -> TaskState] /\ pump' \in Sends \union {None}
      <4>1. CASE Send!InSlot(f)
        <5>1. Send!TaskTo(f, "open") /\ pump' = f
          BY <2>2, <4>1 DEF Send!HearAccept, Send!TaskTo
        <5>2. QED
          BY <5>1, TaskTyped DEF Stages
      <4>2. CASE ~Send!InSlot(f)
        BY <2>2, <4>2 DEF Send!HearAccept, Send!TypeOK, TaskState, Stages
      <4>3. QED
        BY <4>1, <4>2
    <3>3. QED
      BY <2>2, <3>1, <3>2 DEF Send!TypeOK, Send!HearAccept, Send!panelVars,
                  Send!slotVars, Send!viewerVars, Send!history, TaskState, Stages
  <2>3. ASSUME NEW f \in Sends, Send!HearEnd(f) PROVE Send!TypeOK'
    <3>1. up' \in Seq(Send!Messages)
      BY <1>u, <2>3 DEF Send!HearEnd, Send!Hears
    <3>2. /\ spools' \subseteq Sends /\ task' \in [Sends -> TaskState]
          /\ slot' \in Send!Slots \union {None} /\ flag' \in BOOLEAN
      <4>1. CASE Send!InSlot(f)
        <5>1. Send!Discard /\ slot' = None /\ flag' = FALSE /\ slot # None
          BY <2>3, <4>1 DEF Send!HearEnd, Send!InSlot
        <5>2. QED
          BY <5>1, DiscardTyped
      <4>2. CASE ~Send!InSlot(f)
        BY <2>3, <4>2 DEF Send!HearEnd, Send!TypeOK, Send!slotVars, TaskState, Stages
      <4>3. QED
        BY <4>1, <4>2
    <3>3. QED
      BY <2>3, <3>1, <3>2 DEF Send!TypeOK, Send!HearEnd, Send!viewerVars,
                  Send!history, TaskState, Stages
  <2>4. QED
    BY <1>4, <2>1, <2>2, <2>3 DEF Send!Pump
<1>5. ASSUME NEW f \in Sends, Send!TaskStep(f) PROVE Send!TypeOK'
  <2>k. {"chunk", "end", "abort"} \subseteq Send!Kinds
    BY DEF Send!Kinds
  <2>1. CASE Send!TaskOpen(f) \/ Send!TaskStops(f)
    <3>1. task' \in [Sends -> TaskState]
      BY <2>1, TaskTyped DEF Send!TaskOpen, Send!TaskStops, Stages
    <3>2. QED
      BY <2>1, <3>1 DEF Send!TypeOK, Send!TaskOpen, Send!TaskStops, Send!panelVars,
                  Send!slotVars, Send!laneVars, Send!viewerVars, Send!history,
                  TaskState, Stages
  <2>2. CASE Send!TaskChunk(f)
    <3>1. task' \in [Sends -> TaskState]
      <4>1. task \in [Sends -> TaskState] /\ task[f] \in TaskState
        BY DEF Send!TypeOK, TaskState, Stages
      <4>2. task' = [task EXCEPT ![f].sent = @ + 1] /\ task[f].sent < Size
        BY <2>2 DEF Send!TaskChunk
      <4>3. [task[f] EXCEPT !.sent = @ + 1] \in TaskState
        BY <1>0, <4>1, <4>2 DEF TaskState
      <4>4. task' = [task EXCEPT ![f] = [task[f] EXCEPT !.sent = @ + 1]]
        BY <4>1, <4>2
      <4>5. QED
        BY <4>1, <4>3, <4>4
    <3>2. down' \in Seq(Send!Messages) /\ Len(down') <= LaneCap
      BY <1>m, <2>k, <2>2 DEF Send!TaskChunk
    <3>3. QED
      BY <2>2, <3>1, <3>2 DEF Send!TypeOK, Send!TaskChunk, Send!panelVars,
                  Send!slotVars, Send!viewerVars, Send!history, TaskState, Stages
  <2>3. CASE Send!TaskEnd(f) \/ Send!TaskFails(f)
    <3>1. task' \in [Sends -> TaskState]
      BY <2>3, TaskTyped DEF Send!TaskEnd, Send!TaskFails, Stages
    <3>2. down' \in Seq(Send!Messages) /\ Len(down') <= LaneCap
      BY <1>m, <2>k, <2>3 DEF Send!TaskEnd, Send!TaskFails
    <3>3. QED
      BY <2>3, <3>1, <3>2 DEF Send!TypeOK, Send!TaskEnd, Send!TaskFails,
                  Send!panelVars, Send!slotVars, Send!viewerVars, Send!history,
                  TaskState, Stages
  <2>4. CASE Send!TaskEmpties(f)
    <3>1. task' \in [Sends -> TaskState]
      BY <2>4, TaskTyped DEF Send!TaskEmpties, Stages
    <3>2. spools' \subseteq Sends /\ stray' \subseteq Sends
      BY <1>s, <2>4 DEF Send!TaskEmpties, Send!TypeOK
    <3>3. QED
      BY <2>4, <3>1, <3>2 DEF Send!TypeOK, Send!TaskEmpties, Send!laneVars,
                  Send!viewerVars, TaskState, Stages
  <2>5. CASE Send!TaskClears(f)
    <3>1. task' \in [Sends -> TaskState]
      BY <2>5, TaskTyped DEF Send!TaskClears, Stages
    <3>2. stray' \subseteq Sends
      BY <1>s, <2>5 DEF Send!TaskClears, Send!TypeOK
    <3>3. QED
      BY <2>5, <3>1, <3>2 DEF Send!TypeOK, Send!TaskClears, Send!panelVars,
                  Send!laneVars, Send!viewerVars, TaskState, Stages
  <2>6. QED
    BY <1>5, <2>1, <2>2, <2>3, <2>4, <2>5 DEF Send!TaskStep
<1>6. CASE Send!Viewer
  <2>k. {"accept", "decline", "done", "abort"} \subseteq Send!Kinds
    BY DEF Send!Kinds
  <2>s. ASSUME NEW kind \in {"accept", "decline", "done", "abort"}, NEW f \in Sends
        PROVE  Send!Say(kind, f) => up' \in Seq(Send!Messages)
    BY <1>m, <2>k DEF Send!Say
  <2>t. UNCHANGED up => up' \in Seq(Send!Messages)
    BY DEF Send!TypeOK
  <2>a. active # None => /\ active \in Send!Receipts
                         /\ active.id \in Sends /\ active.received \in 0..Size
    BY DEF Send!TypeOK, Send!Receipts
  <2>1. ASSUME NEW f \in Sends, Send!GetOffer(f) \/ Send!GetAbort(f) PROVE Send!TypeOK'
    <3>1. down' \in Seq(Send!Messages) /\ Len(down') <= LaneCap
      BY <1>d, <2>1 DEF Send!GetOffer, Send!GetAbort, Send!Gets
    <3>2. CASE Send!GetOffer(f)
      <4>1. up' \in Seq(Send!Messages) /\ deciding' \in Sends \union {None}
        <5>1. CASE Send!Say("decline", f) /\ UNCHANGED deciding
          BY <2>s, <5>1 DEF Send!TypeOK
        <5>2. CASE deciding' = f /\ UNCHANGED up
          BY <2>t, <5>2
        <5>3. QED
          BY <3>2, <5>1, <5>2 DEF Send!GetOffer
      <4>2. QED
        BY <3>1, <3>2, <4>1 DEF Send!TypeOK, Send!GetOffer, Send!panelVars,
                    Send!slotVars, Send!history
    <3>3. CASE Send!GetAbort(f)
      BY <3>1, <3>3 DEF Send!TypeOK, Send!GetAbort, Send!panelVars, Send!slotVars,
                  Send!history
    <3>4. QED
      BY <2>1, <3>2, <3>3
  <2>2. ASSUME NEW f \in Sends, NEW ok \in BOOLEAN, Send!GetChunk(f, ok)
        PROVE  Send!TypeOK'
    <3>1. down' \in Seq(Send!Messages) /\ Len(down') <= LaneCap
      BY <1>d, <2>2 DEF Send!GetChunk, Send!Gets
    <3>2. up' \in Seq(Send!Messages)
      <4>1. Send!Say("abort", f) \/ UNCHANGED up
        BY <2>2 DEF Send!GetChunk
      <4>2. QED
        BY <2>s, <2>t, <4>1
    <3>3. active' \in Send!Receipts \union {None}
      <4>1. CASE Send!Receiving(f) /\ ok /\ active.received < Size
        <5>1. active' = [active EXCEPT !.received = @ + 1] /\ active # None
          BY <2>2, <4>1 DEF Send!GetChunk, Send!Receiving
        <5>2. QED
          BY <1>0, <2>a, <4>1, <5>1 DEF Send!Receipts
      <4>2. CASE ~(Send!Receiving(f) /\ ok /\ active.received < Size)
        BY <2>2, <4>2 DEF Send!GetChunk, Send!TypeOK
      <4>3. QED
        BY <4>1, <4>2
    <3>4. QED
      BY <2>2, <3>1, <3>2, <3>3 DEF Send!TypeOK, Send!GetChunk, Send!panelVars,
                  Send!slotVars, Send!history
  <2>3. ASSUME NEW f \in Sends, NEW ok \in BOOLEAN, Send!GetEnd(f, ok)
        PROVE  Send!TypeOK'
    <3>1. down' \in Seq(Send!Messages) /\ Len(down') <= LaneCap
      BY <1>d, <2>3 DEF Send!GetEnd, Send!Gets
    <3>2. up' \in Seq(Send!Messages)
      <4>1. Send!Say("done", f) \/ Send!Say("abort", f) \/ UNCHANGED up
        BY <2>3 DEF Send!GetEnd
      <4>2. QED
        BY <2>s, <2>t, <4>1
    <3>3. active' \in Send!Receipts \union {None} /\ kept' \subseteq Sends
      BY <2>3 DEF Send!GetEnd, Send!TypeOK
    <3>4. QED
      BY <2>3, <3>1, <3>2, <3>3 DEF Send!TypeOK, Send!GetEnd, Send!panelVars,
                  Send!slotVars, Send!history
  <2>4. ASSUME NEW accept \in BOOLEAN, Send!Decide(accept) PROVE Send!TypeOK'
    <3>1. deciding \in Sends /\ deciding' = None
      BY <2>4 DEF Send!Decide, Send!TypeOK
    <3>2. up' \in Seq(Send!Messages)
      BY <1>m, <2>k, <2>4, <3>1 DEF Send!Decide, Send!Say
    <3>3. active' \in Send!Receipts \union {None}
      BY <1>0, <2>4, <3>1 DEF Send!Decide, Send!TypeOK, Send!Receipts
    <3>4. QED
      BY <2>4, <3>1, <3>2, <3>3 DEF Send!TypeOK, Send!Decide, Send!panelVars,
                  Send!slotVars, Send!history
  <2>5. QED
    BY <1>6, <2>1, <2>2, <2>3, <2>4 DEF Send!Viewer
<1>7. CASE UNCHANGED Send!vars
  BY <1>7 DEF Send!TypeOK, Send!vars, Send!panelVars, Send!slotVars, Send!laneVars,
              Send!viewerVars, Send!history
<1>8. QED
  BY <1>1, <1>2, <1>3, <1>4, <1>5, <1>6, <1>7, SendSteps

-----------------------------------------------------------------------------
(***************************************************************************)
(* Who owns a spool file.                                                  *)
(***************************************************************************)
\* The other variables own nothing.
LEMMA OwnersUntouched ==
    ASSUME SendInv, UNCHANGED <<panel, spools, cmds>>,
           \/ slot' = slot
           \/ slot # None /\ slot' # None /\ slot'.id = slot.id,
           Send!Live' => Send!Live
    PROVE  QueueOwns' /\ SlotOwns' /\ PanelOwns' /\ Send!SpoolsOwned'
<1>1. QueueOwns' /\ PanelOwns'
  BY DEF SendInv, QueueOwns, PanelOwns
<1>2. SlotOwns'
  BY DEF SendInv, SlotOwns
<1>3. \A f \in Sends : Send!InSlot(f)' <=> Send!InSlot(f)
  BY DEF Send!InSlot
<1>4. spools \subseteq Sends
  BY DEF SendInv, Send!TypeOK
<1>5. Send!SpoolsOwned'
  BY <1>3, <1>4 DEF SendInv, Send!SpoolsOwned
<1>6. QED
  BY <1>1, <1>2, <1>5

\* The slot is emptied and its spool file removed.
LEMMA SlotEmptied ==
    ASSUME SendInv, slot # None, slot' = None, spools' = spools \ {slot.id},
           UNCHANGED <<panel, cmds>>, Send!Live' => Send!Live
    PROVE  QueueOwns' /\ SlotOwns' /\ PanelOwns' /\ Send!SpoolsOwned'
<1>1. QueueOwns'
  BY DEF SendInv, QueueOwns, SlotOwns
<1>2. SlotOwns' /\ PanelOwns'
  BY DEF SendInv, SlotOwns, PanelOwns
<1>3. Send!SpoolsOwned'
  BY DEF SendInv, Send!SpoolsOwned, Send!InSlot
<1>4. QED
  BY <1>1, <1>2, <1>3

\* An upload begins, and breaks off.
LEMMA UploadOwns ==
    ASSUME SendInv, NEW f \in Sends, Send!Request(f) \/ Send!UploadFails(f)
    PROVE  QueueOwns' /\ SlotOwns' /\ PanelOwns' /\ Send!SpoolsOwned'
<1>1. /\ panel[f] # "over" /\ panel[f]' \in {"spooling", "over"}
      /\ \A g \in Sends \ {f} : panel'[g] = panel[g]
      /\ spools' = IF panel'[f] = "spooling" THEN spools \union {f} ELSE spools \ {f}
      /\ UNCHANGED <<cmds, slot, sup>>
  BY DEF Send!Request, Send!UploadFails, SendInv, Send!TypeOK, Send!slotVars
<1>2. \A i \in 1..Len(cmds) : cmds[i] \in Sends
  BY DEF SendInv, Send!TypeOK
<1>3. slot # None => slot.id \in Sends
  BY DEF SendInv, Send!TypeOK, Send!Slots
<1>4. spools \subseteq Sends
  BY DEF SendInv, Send!TypeOK
<1>5. QueueOwns'
  BY <1>1, <1>2 DEF SendInv, QueueOwns
<1>6. SlotOwns'
  BY <1>1, <1>2, <1>3 DEF SendInv, SlotOwns
<1>7. PanelOwns'
  BY <1>1 DEF SendInv, PanelOwns
<1>8. Send!SpoolsOwned'
  BY <1>1, <1>3, <1>4, <1>6
     DEF SendInv, SlotOwns, Send!SpoolsOwned, Send!InSlot, Send!Live
<1>9. QED
  BY <1>5, <1>6, <1>7, <1>8

\* The spool file becomes the queue's, or goes with the session.
LEMMA HandOverOwns ==
    ASSUME SendInv, NEW f \in Sends, Send!HandOver(f)
    PROVE  QueueOwns' /\ SlotOwns' /\ PanelOwns' /\ Send!SpoolsOwned'
<1>1. /\ panel[f] = "spooling" /\ panel'[f] = "over"
      /\ \A g \in Sends \ {f} : panel'[g] = panel[g]
      /\ UNCHANGED <<slot, sup>>
  BY DEF Send!HandOver, SendInv, Send!TypeOK, Send!slotVars
<1>2. cmds \in Seq(Sends) /\ spools \subseteq Sends
  BY DEF SendInv, Send!TypeOK
<1>3. \A i \in 1..Len(cmds) : cmds[i] \in Sends /\ cmds[i] # f
  BY <1>1, <1>2 DEF SendInv, QueueOwns
<1>4. slot # None => slot.id \in Sends /\ slot.id # f
  BY <1>1 DEF SendInv, Send!TypeOK, Send!Slots, SlotOwns
<1>5. CASE Send!Live
  <2>1. cmds' = Append(cmds, f) /\ spools' = spools
    BY <1>5 DEF Send!HandOver
  <2>2. /\ Len(cmds') = Len(cmds) + 1 /\ Len(cmds) \in Nat
        /\ \A i \in 1..Len(cmds) : cmds'[i] = cmds[i]
        /\ cmds'[Len(cmds) + 1] = f
    BY <1>2, <2>1, Added
  <2>3. \A i \in 1..Len(cmds') : i \in 1..Len(cmds) \/ i = Len(cmds) + 1
    BY <2>2
  <2>4. f \in spools
    BY <1>1 DEF SendInv, PanelOwns
  <2>5. QueueOwns'
    BY <1>1, <1>3, <2>1, <2>2, <2>3, <2>4 DEF SendInv, QueueOwns
  <2>6. SlotOwns'
    BY <1>1, <1>3, <1>4, <2>1, <2>2, <2>3 DEF SendInv, SlotOwns
  <2>7. PanelOwns'
    BY <1>1, <2>1 DEF SendInv, PanelOwns
  <2>8. ASSUME NEW g \in spools
        PROVE  panel'[g] = "spooling" \/ (\E i \in 1..Len(cmds') : cmds'[i] = g)
               \/ Send!InSlot(g)
    <3>1. panel[g] = "spooling" \/ (\E i \in 1..Len(cmds) : cmds[i] = g) \/ Send!InSlot(g)
      BY <1>5 DEF SendInv, Send!SpoolsOwned
    <3>2. \A i \in 1..Len(cmds) : i \in 1..Len(cmds')
      BY <2>2
    <3>3. Len(cmds) + 1 \in 1..Len(cmds')
      BY <2>2
    <3>4. QED
      BY <1>1, <1>2, <2>2, <3>1, <3>2, <3>3
  <2>9. QED
    BY <1>1, <2>1, <2>5, <2>6, <2>7, <2>8 DEF Send!SpoolsOwned, SlotOwns, Send!InSlot
<1>6. CASE ~Send!Live
  <2>1. cmds' = cmds /\ spools' = spools \ {f}
    BY <1>6 DEF Send!HandOver
  <2>2. QueueOwns' /\ PanelOwns'
    BY <1>1, <1>3, <2>1 DEF SendInv, QueueOwns, PanelOwns
  <2>3. SlotOwns'
    BY <1>1, <1>3, <1>4, <2>1 DEF SendInv, SlotOwns
  <2>4. Send!SpoolsOwned'
    BY <1>1, <1>6 DEF Send!SpoolsOwned, Send!Live
  <2>5. QED
    BY <2>2, <2>3, <2>4
<1>7. QED
  BY <1>5, <1>6

\* The queue's first send moves to the slot; the one that was there is discarded.
LEMMA TakeSendOwns ==
    ASSUME SendInv, Send!NoneAssumption, Send!TakeSend
    PROVE  QueueOwns' /\ SlotOwns' /\ PanelOwns' /\ Send!SpoolsOwned'
<1> DEFINE first == Head(cmds)
<1>1. /\ cmds \in Seq(Sends) /\ spools \subseteq Sends
      /\ cmds # <<>> /\ cmds' = Tail(cmds) /\ Send!Live /\ panel' = panel
      /\ slot' = [id |-> first, task |-> None]
  BY DEF SendInv, Send!TypeOK, Send!TakeSend, Send!Live
<1>2. /\ first \in Sends /\ first = cmds[1]
      /\ Len(cmds) \in Nat /\ Len(cmds) >= 1
      /\ Len(cmds') = Len(cmds) - 1
      /\ \A i \in 1..(Len(cmds) - 1) : cmds'[i] = cmds[i + 1]
  BY <1>1, HeadTail
<1>3. slot' # None /\ slot'.id = first
  BY <1>1, <1>2 DEF Send!NoneAssumption, Send!Slots
<1>4. 1 \in 1..Len(cmds)
      /\ \A i \in 1..Len(cmds') : i + 1 \in 1..Len(cmds) /\ cmds'[i] = cmds[i + 1]
  BY <1>2
<1>5. /\ slot = None => spools' = spools
      /\ slot # None => spools' = spools \ {slot.id}
  BY DEF Send!TakeSend, Send!Discard
<1> HIDE DEF first
<1>6. /\ first \in spools' /\ panel'[first] = "over"
      /\ \A i \in 1..Len(cmds') :
            cmds'[i] # first /\ cmds'[i] \in spools' /\ panel'[cmds'[i]] = "over"
  <2>1. first \in spools /\ panel[first] = "over" /\ (slot # None => slot.id # first)
    BY <1>2, <1>4 DEF SendInv, QueueOwns, SlotOwns
  <2>2. ASSUME NEW i \in 1..Len(cmds')
        PROVE  cmds'[i] # first /\ cmds'[i] \in spools' /\ panel'[cmds'[i]] = "over"
    <3>1. i + 1 \in 1..Len(cmds) /\ cmds'[i] = cmds[i + 1] /\ i + 1 # 1
      BY <1>2, <1>4
    <3>2. cmds[i + 1] # cmds[1] /\ cmds[i + 1] \in spools /\ panel[cmds[i + 1]] = "over"
          /\ (slot # None => slot.id # cmds[i + 1])
      BY <1>4, <3>1 DEF SendInv, QueueOwns, SlotOwns
    <3>3. QED
      BY <1>1, <1>2, <1>5, <3>1, <3>2
  <2>3. QED
    BY <1>1, <1>5, <2>1, <2>2
<1>7. QueueOwns'
  <2>1. ASSUME NEW i \in 1..Len(cmds'), NEW j \in 1..Len(cmds'), i # j
        PROVE  cmds'[i] # cmds'[j]
    <3>1. i + 1 \in 1..Len(cmds) /\ j + 1 \in 1..Len(cmds) /\ i + 1 # j + 1
      BY <1>2, <1>4, <2>1
    <3>2. QED
      BY <1>4, <3>1 DEF SendInv, QueueOwns
  <2>2. QED
    BY <1>6, <2>1 DEF QueueOwns
<1>8. SlotOwns'
  BY <1>3, <1>6 DEF SlotOwns
<1>9. PanelOwns'
  BY <1>1, <1>5 DEF SendInv, PanelOwns, SlotOwns
<1>10. ASSUME NEW g \in spools'
       PROVE  panel'[g] = "spooling" \/ (\E i \in 1..Len(cmds') : cmds'[i] = g) \/ g = first
  <2>1. g \in spools /\ ~Send!InSlot(g)
    BY <1>5 DEF Send!InSlot
  <2>2. panel[g] = "spooling" \/ \E i \in 1..Len(cmds) : cmds[i] = g
    BY <1>1, <2>1 DEF SendInv, Send!SpoolsOwned
  <2>3. ASSUME NEW i \in 1..Len(cmds), cmds[i] = g, i # 1
        PROVE  i - 1 \in 1..Len(cmds') /\ cmds'[i - 1] = g
    BY <1>2, <2>3
  <2>4. QED
    BY <1>1, <1>2, <2>2, <2>3
<1>11. Send!SpoolsOwned'
  BY <1>3, <1>6, <1>10 DEF Send!SpoolsOwned, Send!InSlot
<1>12. QED
  BY <1>7, <1>8, <1>9, <1>11

\* The session ends: the queue and the slot own nothing.
LEMMA LeaveOwns ==
    ASSUME SendInv, Send!Leave
    PROVE  QueueOwns' /\ SlotOwns' /\ PanelOwns' /\ Send!SpoolsOwned'
<1>1. /\ cmds' = <<>> /\ slot' = None /\ sup' = "ended" /\ panel' = panel
      /\ slot = None => spools' = spools
      /\ slot # None => spools' = spools \ {slot.id}
  BY DEF Send!Leave, Send!Discard
<1>2. QueueOwns' /\ SlotOwns' /\ Send!SpoolsOwned'
  BY <1>1 DEF QueueOwns, SlotOwns, Send!SpoolsOwned, Send!Live
<1>3. PanelOwns'
  BY <1>1 DEF SendInv, PanelOwns, SlotOwns
<1>4. QED
  BY <1>2, <1>3

\* No step of the sends takes a spool file from its owner.
LEMMA SendOwnsSteps ==
    ASSUME Send!NoneAssumption, SendInv, [Send!Next]_(Send!vars)
    PROVE  QueueOwns' /\ SlotOwns' /\ PanelOwns' /\ Send!SpoolsOwned'
<1>1. ASSUME NEW f \in Sends, Send!Panel(f)
      PROVE  QueueOwns' /\ SlotOwns' /\ PanelOwns' /\ Send!SpoolsOwned'
  BY <1>1, UploadOwns, HandOverOwns DEF Send!Panel
<1>2. CASE Send!Supervisor
  <2>1. CASE Send!TakeSend
    BY <2>1, TakeSendOwns
  <2>2. CASE Send!RaiseFlag \/ Send!Offer
    <3>1. UNCHANGED <<panel, spools, cmds, slot>> /\ Send!Live
      BY <2>2 DEF Send!RaiseFlag, Send!Offer, Send!panelVars, Send!slotVars, Send!Live
    <3>2. QED
      BY <3>1, OwnersUntouched
  <2>3. QED
    BY <1>2, <2>1, <2>2 DEF Send!Supervisor
<1>3. CASE Send!Leave
  BY <1>3, LeaveOwns
<1>4. CASE Send!Pump
  <2>1. CASE Send!Attach
    <3>1. /\ UNCHANGED <<panel, spools, cmds, sup>>
          /\ slot' = IF slot = None THEN None ELSE [slot EXCEPT !.task = pump]
          /\ pump \in Sends
      BY <2>1 DEF Send!Attach, Send!panelVars, SendInv, Send!TypeOK
    <3>2. CASE slot = None
      BY <3>1, <3>2, OwnersUntouched DEF Send!Live
    <3>3. CASE slot # None
      <4>1. slot \in Send!Slots /\ slot' = [slot EXCEPT !.task = pump]
        BY <3>1, <3>3 DEF SendInv, Send!TypeOK
      <4>2. slot' \in Send!Slots /\ slot'.id = slot.id
        BY <3>1, <4>1 DEF Send!Slots
      <4>3. slot' # None
        BY <4>2 DEF Send!NoneAssumption
      <4>4. QED
        BY <3>1, <3>3, <4>2, <4>3, OwnersUntouched DEF Send!Live
    <3>4. QED
      BY <3>2, <3>3
  <2>2. ASSUME NEW f \in Sends, Send!HearAccept(f)
        PROVE  QueueOwns' /\ SlotOwns' /\ PanelOwns' /\ Send!SpoolsOwned'
    <3>1. UNCHANGED <<panel, spools, cmds, slot, sup>>
      BY <2>2 DEF Send!HearAccept, Send!panelVars, Send!slotVars
    <3>2. QED
      BY <3>1, OwnersUntouched DEF Send!Live
  <2>3. ASSUME NEW f \in Sends, Send!HearEnd(f)
        PROVE  QueueOwns' /\ SlotOwns' /\ PanelOwns' /\ Send!SpoolsOwned'
    <3>1. CASE Send!InSlot(f)
      <4>1. /\ slot # None /\ slot' = None /\ spools' = spools \ {slot.id}
            /\ UNCHANGED <<panel, cmds, sup>>
        BY <2>3, <3>1 DEF Send!HearEnd, Send!InSlot, Send!Discard
      <4>2. QED
        BY <4>1, SlotEmptied DEF Send!Live
    <3>2. CASE ~Send!InSlot(f)
      <4>1. UNCHANGED <<panel, spools, cmds, slot, sup>>
        BY <2>3, <3>2 DEF Send!HearEnd, Send!slotVars
      <4>2. QED
        BY <4>1, OwnersUntouched DEF Send!Live
    <3>3. QED
      BY <3>1, <3>2
  <2>4. QED
    BY <1>4, <2>1, <2>2, <2>3 DEF Send!Pump
<1>5. ASSUME NEW f \in Sends, Send!TaskStep(f)
      PROVE  QueueOwns' /\ SlotOwns' /\ PanelOwns' /\ Send!SpoolsOwned'
  <2>1. CASE Send!TaskEmpties(f)
    <3>1. /\ slot' = None /\ UNCHANGED <<panel, cmds, sup>>
          /\ spools' = IF slot = None THEN spools ELSE spools \ {slot.id}
      BY <2>1 DEF Send!TaskEmpties
    <3>2. CASE slot = None
      BY <3>1, <3>2, OwnersUntouched DEF Send!Live
    <3>3. CASE slot # None
      BY <3>1, <3>3, SlotEmptied DEF Send!Live
    <3>4. QED
      BY <3>2, <3>3
  <2>2. CASE ~Send!TaskEmpties(f)
    <3>1. UNCHANGED <<panel, spools, cmds, slot, sup>>
      BY <1>5, <2>2 DEF Send!TaskStep, Send!TaskOpen, Send!TaskChunk, Send!TaskEnd,
                Send!TaskStops, Send!TaskFails, Send!TaskClears, Send!panelVars,
                Send!slotVars
    <3>2. QED
      BY <3>1, OwnersUntouched DEF Send!Live
  <2>3. QED
    BY <2>1, <2>2
<1>6. CASE Send!Viewer
  <2>1. UNCHANGED <<panel, spools, cmds, slot, sup>>
    BY <1>6 DEF Send!Viewer, Send!GetOffer, Send!GetAbort, Send!GetChunk, Send!GetEnd,
                Send!Decide, Send!panelVars, Send!slotVars
  <2>2. QED
    BY <2>1, OwnersUntouched DEF Send!Live
<1>7. CASE UNCHANGED Send!vars
  <2>1. UNCHANGED <<panel, spools, cmds, slot, sup>>
    BY <1>7 DEF Send!vars, Send!panelVars, Send!slotVars
  <2>2. QED
    BY <2>1, OwnersUntouched DEF Send!Live
<1>8. QED
  BY <1>1, <1>2, <1>3, <1>4, <1>5, <1>6, <1>7, SendSteps

-----------------------------------------------------------------------------
LEMMA SendInit ==
    ASSUME Send!SizeAssumption, Send!LaneCapAssumption, Send!Init
    PROVE  SendInv
<1>1. /\ <<>> \in Seq(Sends) /\ <<>> \in Seq(Send!Messages)
      /\ Size \in Nat /\ LaneCap \in Nat /\ Len(<<>>) = 0
  BY DEF Send!SizeAssumption, Send!LaneCapAssumption
<1>t. task \in [Sends -> [at : Stages, sent : 0..Size]]
  <2>1. [at |-> "none", sent |-> 0] \in [at : Stages, sent : 0..Size]
    BY <1>1 DEF Stages
  <2>2. QED
    BY <2>1 DEF Send!Init
<1>q. /\ cmds \in Seq(Sends)
      /\ down \in Seq(Send!Messages) /\ Len(down) <= LaneCap
      /\ up \in Seq(Send!Messages)
  <2>1. cmds = <<>> /\ down = <<>> /\ up = <<>>
    BY DEF Send!Init
  <2>2. QED
    BY <1>1, <2>1
<1>p. panel \in [Sends -> {"new", "spooling", "over"}]
  BY DEF Send!Init
<1>2. Send!TypeOK
  <2>1. /\ spools = {} /\ sup = "idle" /\ slot = None /\ flag = FALSE /\ fresh = None
        /\ pump = None /\ deciding = None /\ active = None /\ kept = {}
        /\ replaced = {} /\ stray = {}
    BY DEF Send!Init
  <2>2. QED
    BY <1>t, <1>q, <1>p, <2>1 DEF Send!TypeOK, Stages
<1>3. QueueOwns /\ SlotOwns /\ PanelOwns /\ Send!SpoolsOwned
  BY DEF Send!Init, QueueOwns, SlotOwns, PanelOwns, Send!SpoolsOwned
<1>4. QED
  BY <1>2, <1>3 DEF SendInv

\* SendInv holds at the start, and always.
LEMMA SendInvariant ==
    ASSUME Send!SizeAssumption, Send!LaneCapAssumption, Send!NoneAssumption
    PROVE  Send!Spec => []SendInv
<1>1. Send!Init => SendInv
  BY SendInit
<1>2. SendInv /\ [Send!Next]_(Send!vars) => SendInv'
  BY SendTypeSteps, SendOwnsSteps DEF SendInv
<1>3. QED
  BY <1>1, <1>2, PTL DEF Send!Spec

\* The sends are well typed: the control queue keeps to its capacity, and the
\* supervisor has a send in hand exactly between taking it and offering it.
THEOREM SendTypeCorrect ==
    ASSUME Send!SizeAssumption, Send!LaneCapAssumption, Send!NoneAssumption
    PROVE  Send!Spec => []Send!TypeOK
<1>1. SendInv => Send!TypeOK
  BY DEF SendInv
<1>2. QED
  BY <1>1, SendInvariant, PTL

\* While the session lives no spool file is forgotten and the slot's is there:
\* whichever of supervisor, pump, failing task and teardown empties the slot,
\* it removes the file of the send that is in it, and that file has no other
\* owner.
THEOREM SpoolsAreOwned ==
    ASSUME Send!SizeAssumption, Send!LaneCapAssumption, Send!NoneAssumption
    PROVE  Send!Spec => []Send!SpoolsOwned
<1>1. SendInv => Send!SpoolsOwned
  BY DEF SendInv
<1>2. QED
  BY <1>1, SendInvariant, PTL

-----------------------------------------------------------------------------
(***************************************************************************)
(* The panel's busy flag.                                                  *)
(***************************************************************************)
\* A message about the send is on its way.
Spoken(q, f) == \E i \in 1..Len(q) : q[i].id = f

Queued(f) == \E i \in 1..Len(cmds) : cmds[i] = f

\* The send was not offered yet, and may still be.
Waits(f) == panel[f] # "over" \/ Queued(f) \/ fresh = f

\* Nobody speaks of the send, nor works on it.
Quiet(f) ==
    /\ ~Spoken(up, f) /\ ~Spoken(down, f)
    /\ deciding # f /\ ~Send!Receiving(f)
    /\ pump # f /\ task[f].at = "none"

\* An answer or a failure that concerns the slot concerns a send that was offered.
QuietInv == \A f \in Sends : Waits(f) => Quiet(f)

\* The send in the supervisor's hand has left panel and queue.
FreshInv == fresh # None => ~Queued(fresh) /\ panel[fresh] = "over"

\* It is in the slot until it is offered, unless another send's task emptied that.
FilledInv == sup \in {"filled", "offering"} /\ stray = {} => Send!InSlot(fresh)

\* A task that has emptied the slot never finds its own send there again.
FailedInv == \A f \in Sends : task[f].at = "failed" => ~Send!InSlot(f)

BusyInv == QuietInv /\ FreshInv /\ FilledInv /\ FailedInv /\ Send!BusyAgrees

\* A message is taken from, or put into, a queue.
LEMMA SpokenQueue ==
    ASSUME NEW q \in Seq(Send!Messages), NEW m \in Send!Messages, NEW f \in Sends
    PROVE  /\ q # <<>> /\ Spoken(Tail(q), f) => Spoken(q, f)
           /\ q # <<>> => Spoken(q, Head(q).id)
           /\ Spoken(Append(q, m), f) => Spoken(q, f) \/ m.id = f
<1>1. ASSUME q # <<>>
      PROVE  /\ Spoken(Tail(q), f) => Spoken(q, f)
             /\ Spoken(q, Head(q).id)
  <2>1. /\ Len(q) \in Nat \ {0} /\ Head(q) = q[1]
        /\ Len(Tail(q)) = Len(q) - 1
        /\ \A i \in 1..(Len(q) - 1) : Tail(q)[i] = q[i + 1]
    BY <1>1, HeadTail
  <2>2. \A i \in 1..(Len(q) - 1) : i + 1 \in 1..Len(q)
    BY <2>1
  <2>3. 1 \in 1..Len(q)
    BY <2>1
  <2>4. QED
    BY <2>1, <2>2, <2>3 DEF Spoken
<1>2. Spoken(Append(q, m), f) => Spoken(q, f) \/ m.id = f
  <2>1. /\ Len(Append(q, m)) = Len(q) + 1 /\ Len(q) \in Nat
        /\ \A i \in 1..Len(q) : Append(q, m)[i] = q[i]
        /\ Append(q, m)[Len(q) + 1] = m
    BY Added
  <2>2. \A i \in 1..(Len(q) + 1) : i \in 1..Len(q) \/ i = Len(q) + 1
    BY <2>1
  <2>3. QED
    BY <2>1, <2>2 DEF Spoken
<1>3. QED
  BY <1>1, <1>2

\* A message about g is heard by the pump, or by the viewer: g was offered.
LEMMA HeardOffered ==
    ASSUME SendInv, QuietInv, NEW g \in Sends, NEW kind \in Send!Kinds,
           Send!Hears(kind, g) \/ Send!Gets(kind, g)
    PROVE  ~Waits(g)
<1>1. /\ up \in Seq(Send!Messages) /\ down \in Seq(Send!Messages)
      /\ Send!Message(kind, g) \in Send!Messages /\ Send!Message(kind, g).id = g
  BY MessageTyped DEF SendInv, Send!TypeOK, Send!Message
<1>2. Spoken(up, g) \/ Spoken(down, g)
  <2>1. CASE Send!Hears(kind, g)
    <3>1. up # <<>> /\ Head(up).id = g
      BY <1>1, <2>1 DEF Send!Hears
    <3>2. QED
      BY <1>1, <3>1, SpokenQueue
  <2>2. CASE Send!Gets(kind, g)
    <3>1. down # <<>> /\ Head(down).id = g
      BY <1>1, <2>2 DEF Send!Gets
    <3>2. QED
      BY <1>1, <3>1, SpokenQueue
  <2>3. QED
    BY <2>1, <2>2
<1>3. QED
  BY <1>2 DEF QuietInv, Quiet

\* A step after which only what waited waits, and nobody speaks of that.
LEMMA QuietStays ==
    ASSUME QuietInv,
           \A f \in Sends : Waits(f)' => Waits(f) /\ (Quiet(f) => Quiet(f)')
    PROVE  QuietInv'
  BY DEF QuietInv

\* A task that was not started stays so when the slot is discarded, and one that
\* has to clear the flag still has to.
LEMMA DiscardIdle ==
    ASSUME SendInv, Send!NoneAssumption, slot # None, Send!Discard, NEW f \in Sends
    PROVE  /\ task[f].at = "none" => task'[f].at = "none"
           /\ task[f].at = "failed" <=> task'[f].at = "failed"
<1>1. slot.task \in Sends \union {None} /\ task \in [Sends -> TaskState]
  BY DEF SendInv, Send!TypeOK, Send!Slots, TaskState, Stages
<1>2. CASE slot.task # None /\ task[slot.task].at \in {"open", "stream"}
  <2>1. task' = [task EXCEPT ![slot.task].at = "gone"]
    BY <1>2 DEF Send!Discard
  <2>2. f # slot.task => task'[f] = task[f]
    BY <1>1, <2>1
  <2>3. task'[slot.task].at = "gone"
    BY <1>1, <1>2, <2>1 DEF TaskState
  <2>4. QED
    BY <1>2, <2>2, <2>3
<1>3. CASE ~(slot.task # None /\ task[slot.task].at \in {"open", "stream"})
  BY <1>3 DEF Send!Discard
<1>4. QED
  BY <1>2, <1>3

\* Slot and flag are left alone, and what a failed task still has to do is too.
LEMMA BusyStays ==
    ASSUME BusyInv, UNCHANGED <<sup, flag, fresh, stray>>,
           \/ slot' = slot
           \/ slot # None /\ slot' # None /\ slot'.id = slot.id,
           \A f \in Sends : task[f].at = "failed" <=> task'[f].at = "failed"
    PROVE  FilledInv' /\ FailedInv' /\ Send!BusyAgrees'
<1>1. FilledInv'
  BY DEF BusyInv, FilledInv, Send!InSlot
<1>2. Send!BusyAgrees'
  BY DEF BusyInv, Send!BusyAgrees, Send!Live, Send!Task
<1>3. FailedInv'
  BY DEF BusyInv, FailedInv, Send!InSlot
<1>4. QED
  BY <1>1, <1>2, <1>3

\* The first send of the queue is nowhere else.
LEMMA QueueHead ==
    ASSUME SendInv, cmds # <<>>
    PROVE  /\ Head(cmds) \in Sends /\ Queued(Head(cmds)) /\ panel[Head(cmds)] = "over"
           /\ \A i \in 1..Len(Tail(cmds)) :
                 /\ i + 1 \in 1..Len(cmds) /\ Tail(cmds)[i] = cmds[i + 1]
                 /\ Tail(cmds)[i] # Head(cmds)
<1>1. /\ Len(cmds) \in Nat \ {0} /\ Head(cmds) = cmds[1] /\ Head(cmds) \in Sends
      /\ Len(Tail(cmds)) = Len(cmds) - 1
      /\ \A i \in 1..(Len(cmds) - 1) : Tail(cmds)[i] = cmds[i + 1]
  BY HeadTail DEF SendInv, Send!TypeOK
<1>2. 1 \in 1..Len(cmds)
  BY <1>1
<1>3. Queued(Head(cmds)) /\ panel[Head(cmds)] = "over"
  BY <1>1, <1>2 DEF Queued, SendInv, QueueOwns
<1>4. ASSUME NEW i \in 1..Len(Tail(cmds))
      PROVE  i + 1 \in 1..Len(cmds) /\ Tail(cmds)[i] = cmds[i + 1] /\ cmds[i + 1] # cmds[1]
  <2>1. i + 1 \in 1..Len(cmds) /\ i + 1 # 1
    BY <1>1
  <2>2. QED
    BY <1>1, <1>2, <2>1 DEF SendInv, QueueOwns
<1>5. QED
  BY <1>1, <1>3, <1>4

\* A send is queued.
LEMMA QueuedNext ==
    ASSUME SendInv, NEW f \in Sends, NEW g \in Sends,
           cmds' = Append(cmds, g), Queued(f)'
    PROVE  Queued(f) \/ f = g
<1>1. /\ Len(Append(cmds, g)) = Len(cmds) + 1 /\ Len(cmds) \in Nat
      /\ \A i \in 1..Len(cmds) : Append(cmds, g)[i] = cmds[i]
      /\ Append(cmds, g)[Len(cmds) + 1] = g
  BY Added DEF SendInv, Send!TypeOK
<1>2. \A i \in 1..(Len(cmds) + 1) : i \in 1..Len(cmds) \/ i = Len(cmds) + 1
  BY <1>1
<1>3. QED
  BY <1>1, <1>2 DEF Queued

\* Uploads: only what waited waits.
LEMMA PanelBusy ==
    ASSUME SendInv, BusyInv, NEW f \in Sends, Send!Panel(f)
    PROVE  BusyInv'
<1>1. /\ panel[f] # "over" /\ \A g \in Sends \ {f} : panel'[g] = panel[g]
      /\ cmds' \in {cmds, Append(cmds, f)}
      /\ UNCHANGED <<sup, slot, flag, fresh, pump, task, down, up, deciding, active, stray>>
  BY DEF Send!Panel, Send!Request, Send!UploadFails, Send!HandOver, Send!slotVars,
         Send!laneVars, Send!viewerVars, Send!history, SendInv, Send!TypeOK
<1>2. \A g \in Sends : Queued(g)' => Queued(g) \/ g = f
  BY <1>1, QueuedNext DEF Queued
<1>3. QuietInv'
  <2>1. \A g \in Sends : Waits(g)' => Waits(g)
    BY <1>1, <1>2 DEF Waits
  <2>2. \A g \in Sends : Quiet(g) => Quiet(g)'
    BY <1>1 DEF Quiet, Spoken, Send!Receiving
  <2>3. QED
    BY <2>1, <2>2, QuietStays DEF BusyInv
<1>4. FreshInv'
  BY <1>1, <1>2 DEF BusyInv, FreshInv, SendInv, Send!TypeOK
<1>5. QED
  BY <1>1, <1>3, <1>4, BusyStays DEF BusyInv

\* The supervisor takes a send, raises the flag and offers the send.
LEMMA SupervisorBusy ==
    ASSUME Send!NoneAssumption, SendInv, BusyInv, Send!Supervisor
    PROVE  BusyInv'
<1>0. /\ None \notin Sends /\ down \in Seq(Send!Messages)
      /\ fresh \in Sends \union {None}
      /\ fresh # None <=> sup \in {"filled", "offering"}
  BY DEF Send!NoneAssumption, SendInv, Send!TypeOK
<1>1. CASE Send!TakeSend
  <2> DEFINE first == Head(cmds)
  <2>1. /\ sup = "idle" /\ cmds # <<>> /\ cmds' = Tail(cmds) /\ sup' = "filled"
        /\ fresh' = first /\ slot' = [id |-> first, task |-> None]
        /\ UNCHANGED <<panel, pump, down, up, deciding, active, stray>>
        /\ IF slot = None THEN task' = task ELSE Send!Discard
    BY <1>1 DEF Send!TakeSend, Send!laneVars, Send!viewerVars
  <2>2. /\ first \in Sends /\ Queued(first) /\ panel[first] = "over"
        /\ \A f \in Sends : Queued(f)' => Queued(f)
        /\ ~\E i \in 1..Len(cmds') : cmds'[i] = first
    BY <2>1, QueueHead DEF Queued
  <2> HIDE DEF first
  <2>3. \A f \in Sends : task[f].at = "none" => task'[f].at = "none"
    BY <2>1, DiscardIdle
  <2>f. \A f \in Sends : task[f].at = "failed" <=> task'[f].at = "failed"
    BY <2>1, DiscardIdle
  <2>4. QuietInv'
    <3>1. \A f \in Sends : Waits(f)' => Waits(f)
      BY <2>1, <2>2 DEF Waits
    <3>2. UNCHANGED <<pump, down, up, deciding, active>>
      BY <2>1
    <3>4. \A f \in Sends : Quiet(f) => Quiet(f)'
      BY <2>3, <3>2 DEF Quiet, Spoken, Send!Receiving
    <3>3. QED
      BY <3>1, <3>4, QuietStays DEF BusyInv
  <2>5. FreshInv'
    BY <2>1, <2>2 DEF FreshInv, Queued
  <2>6. FilledInv'
    <3>1. slot' # None
      BY <2>1, <2>2 DEF Send!NoneAssumption, Send!Slots
    <3>2. QED
      BY <2>1, <3>1 DEF FilledInv, Send!InSlot
  <2>7. Send!BusyAgrees'
    BY <2>1 DEF Send!BusyAgrees
  <2>8. FailedInv'
    <3>1. task[first].at = "none"
      BY <2>2 DEF BusyInv, QuietInv, Waits, Quiet
    <3>2. QED
      BY <2>1, <2>f, <3>1 DEF FailedInv, Send!InSlot
  <2>9. QED
    BY <2>4, <2>5, <2>6, <2>7, <2>8 DEF BusyInv
<1>2. CASE Send!RaiseFlag
  <2>1. /\ sup = "filled" /\ sup' = "offering" /\ flag' = TRUE
        /\ UNCHANGED <<panel, cmds, slot, fresh, pump, task, down, up, deciding, active,
                       stray>>
    BY <1>2 DEF Send!RaiseFlag, Send!panelVars, Send!laneVars, Send!viewerVars, Send!history
  <2>2. QuietInv' /\ FreshInv'
    BY <2>1 DEF BusyInv, QuietInv, FreshInv, Waits, Queued, Quiet, Spoken, Send!Receiving
  <2>3. FilledInv' /\ FailedInv' /\ Send!BusyAgrees'
    BY <2>1 DEF BusyInv, FilledInv, FailedInv, Send!BusyAgrees, Send!InSlot
  <2>4. QED
    BY <2>2, <2>3 DEF BusyInv
<1>3. CASE Send!Offer
  <2>1. /\ sup = "offering" /\ sup' = "idle" /\ fresh' = None
        /\ down' = Append(down, Send!Message("offer", fresh))
        /\ UNCHANGED <<panel, cmds, slot, flag, pump, task, up, deciding, active, stray>>
    BY <1>3 DEF Send!Offer, Send!panelVars, Send!slotVars, Send!viewerVars, Send!history
  <2>2. fresh \in Sends /\ fresh # None
    BY <1>0, <2>1
  <2>3. /\ Send!Message("offer", fresh) \in Send!Messages
        /\ Send!Message("offer", fresh).id = fresh
    BY <2>2, MessageTyped DEF Send!Kinds, Send!Message
  <2>4. \A f \in Sends : Waits(f)' => Waits(f) /\ f # fresh
    BY <1>0, <2>1, <2>2 DEF Waits, Queued, BusyInv, FreshInv
  <2>5. \A f \in Sends : f # fresh /\ Quiet(f) => Quiet(f)'
    <3>1. \A f \in Sends : Spoken(down', f) => Spoken(down, f) \/ f = fresh
      BY <1>0, <2>1, <2>3, SpokenQueue
    <3>2. QED
      BY <2>1, <3>1 DEF Quiet, Spoken, Send!Receiving
  <2>6. QuietInv'
    BY <2>4, <2>5, QuietStays DEF BusyInv
  <2>7. FreshInv' /\ FilledInv' /\ FailedInv'
    BY <2>1 DEF BusyInv, FreshInv, FilledInv, FailedInv, Send!InSlot
  <2>8. Send!BusyAgrees'
    BY <2>1 DEF BusyInv, Send!BusyAgrees, Send!Live, Send!Task
  <2>9. QED
    BY <2>6, <2>7, <2>8 DEF BusyInv
<1>4. QED
  BY <1>1, <1>2, <1>3 DEF Send!Supervisor

\* The session ends.
LEMMA LeaveBusy ==
    ASSUME Send!NoneAssumption, SendInv, BusyInv, Send!Leave
    PROVE  BusyInv'
<1>1. /\ sup' = "ended" /\ fresh' = None /\ pump' = None /\ cmds' = <<>> /\ up' = <<>>
      /\ slot' = None
      /\ UNCHANGED <<panel, down, deciding, active>>
      /\ IF slot = None THEN task' = task ELSE Send!Discard
  BY DEF Send!Leave, Send!viewerVars
<1>2. None \notin Sends
  BY DEF Send!NoneAssumption
<1>3. \A f \in Sends : task[f].at = "none" => task'[f].at = "none"
  BY <1>1, DiscardIdle
<1>4. \A f \in Sends : Waits(f)' => Waits(f)
  BY <1>1, <1>2 DEF Waits, Queued
<1>5. \A f \in Sends : Quiet(f) => Quiet(f)'
  BY <1>1, <1>2, <1>3 DEF Quiet, Spoken, Send!Receiving
<1>6. QuietInv'
  BY <1>4, <1>5, QuietStays DEF BusyInv
<1>7. FreshInv' /\ FilledInv' /\ FailedInv' /\ Send!BusyAgrees'
  BY <1>1 DEF FreshInv, FilledInv, FailedInv, Send!InSlot, Send!BusyAgrees, Send!Live
<1>8. QED
  BY <1>6, <1>7 DEF BusyInv

\* The pump attaches a task, starts one, or empties the slot.
LEMMA PumpBusy ==
    ASSUME Send!NoneAssumption, SendInv, BusyInv, Send!Pump
    PROVE  BusyInv'
<1>0. /\ None \notin Sends /\ up \in Seq(Send!Messages)
      /\ task \in [Sends -> TaskState]
      /\ slot \in Send!Slots \union {None} /\ None \notin Send!Slots
      /\ pump \in Sends \union {None}
  BY DEF Send!NoneAssumption, SendInv, Send!TypeOK, TaskState, Stages
<1>1. CASE Send!Attach
  <2>1. /\ pump' = None /\ pump \in Sends
        /\ slot' = IF slot = None THEN None ELSE [slot EXCEPT !.task = pump]
        /\ UNCHANGED <<panel, cmds, sup, flag, fresh, task, down, up, deciding, active,
                       stray>>
    BY <1>0, <1>1 DEF Send!Attach, Send!panelVars, Send!laneVars, Send!viewerVars, Send!history
  <2>2. QuietInv' /\ FreshInv'
    BY <1>0, <2>1
       DEF BusyInv, QuietInv, FreshInv, Waits, Queued, Quiet, Spoken, Send!Receiving
  <2>3. slot' = slot \/ (slot # None /\ slot' # None /\ slot'.id = slot.id)
    <3>1. CASE slot = None
      BY <2>1, <3>1
    <3>2. CASE slot # None
      <4>1. slot \in Send!Slots /\ slot' = [slot EXCEPT !.task = pump]
        BY <1>0, <2>1, <3>2
      <4>2. slot' \in Send!Slots /\ slot'.id = slot.id
        BY <2>1, <4>1 DEF Send!Slots
      <4>3. QED
        BY <1>0, <3>2, <4>2
    <3>3. QED
      BY <3>1, <3>2
  <2>4. QED
    BY <2>1, <2>2, <2>3, BusyStays DEF BusyInv
<1>2. ASSUME NEW f \in Sends, Send!HearAccept(f)
      PROVE  BusyInv'
  <2>1. /\ up # <<>> /\ up' = Tail(up) /\ Send!Hears("accept", f)
        /\ pump' \in {pump, f}
        /\ task' \in {task, [task EXCEPT ![f].at = "open"]}
        /\ UNCHANGED <<panel, cmds, sup, slot, flag, fresh, down, deciding, active, stray>>
    BY <1>2 DEF Send!HearAccept, Send!Hears, Send!panelVars, Send!slotVars, Send!viewerVars,
                Send!history
  <2>2. ~Waits(f)
    BY <2>1, HeardOffered DEF Send!Kinds, BusyInv
  <2>3. \A g \in Sends : Waits(g)' => Waits(g)
    BY <2>1 DEF Waits, Queued
  <2>4. ASSUME NEW g \in Sends, g # f, Quiet(g) PROVE Quiet(g)'
    <3>1. Spoken(up', g) => Spoken(up, g)
      <4>1. Send!Message("accept", f) \in Send!Messages
        BY MessageTyped DEF Send!Kinds
      <4>2. QED
        BY <1>0, <2>1, <4>1, SpokenQueue
    <3>2. task'[g] = task[g]
      BY <1>0, <2>1, <2>4
    <3>3. QED
      BY <2>1, <2>4, <3>1, <3>2 DEF Quiet, Spoken, Send!Receiving
  <2>5. QuietInv'
    BY <2>2, <2>3, <2>4, QuietStays DEF BusyInv
  <2>6. FreshInv'
    BY <2>1 DEF BusyInv, FreshInv, Queued
  <2>7. \A g \in Sends : task[g].at = "failed" <=> task'[g].at = "failed"
    <3>1. CASE Send!InSlot(f)
      <4>1. task[f].at # "failed" /\ task' = [task EXCEPT ![f].at = "open"]
        BY <1>2, <3>1 DEF Send!HearAccept, BusyInv, FailedInv
      <4>2. task'[f].at = "open" /\ \A g \in Sends \ {f} : task'[g] = task[g]
        BY <1>0, <4>1 DEF TaskState
      <4>3. QED
        BY <4>1, <4>2
    <3>2. CASE ~Send!InSlot(f)
      BY <1>2, <3>2 DEF Send!HearAccept
    <3>3. QED
      BY <3>1, <3>2
  <2>8. QED
    BY <2>1, <2>5, <2>6, <2>7, BusyStays DEF BusyInv
<1>3. ASSUME NEW f \in Sends, Send!HearEnd(f)
      PROVE  BusyInv'
  <2>1. PICK kind \in {"decline", "done", "abort"} : Send!Hears(kind, f)
    BY <1>3 DEF Send!HearEnd
  <2>2. kind \in Send!Kinds /\ Send!Message(kind, f) \in Send!Messages
    BY <2>1, MessageTyped DEF Send!Kinds
  <2>3. ~Waits(f)
    BY <2>1, <2>2, HeardOffered DEF BusyInv
  <2>4. /\ up # <<>> /\ up' = Tail(up)
        /\ UNCHANGED <<panel, cmds, sup, fresh, pump, down, deciding, active, stray>>
        /\ IF Send!InSlot(f) THEN Send!Discard /\ slot' = None /\ flag' = FALSE
           ELSE UNCHANGED <<task, slot, flag>>
    BY <1>3, <2>1 DEF Send!HearEnd, Send!Hears, Send!viewerVars, Send!history, Send!slotVars
  <2>5. \A g \in Sends : task[g].at = "none" => task'[g].at = "none"
    BY <2>4, DiscardIdle DEF Send!InSlot
  <2>6. QuietInv'
    <3>1. \A g \in Sends : Waits(g)' => Waits(g)
      BY <2>4 DEF Waits, Queued
    <3>2. \A g \in Sends : Spoken(up', g) => Spoken(up, g)
      BY <1>0, <2>2, <2>4, SpokenQueue
    <3>3. UNCHANGED <<pump, down, deciding, active>>
      BY <2>4
    <3>5. \A g \in Sends : Quiet(g) => Quiet(g)'
      BY <2>5, <3>2, <3>3 DEF Quiet, Spoken, Send!Receiving
    <3>4. QED
      BY <3>1, <3>5, QuietStays DEF BusyInv
  <2>7. FreshInv'
    BY <2>4 DEF BusyInv, FreshInv, Queued
  <2>8. CASE Send!InSlot(f)
    <3>1. FilledInv'
      <4>1. ~Send!InSlot(fresh)
        BY <2>3, <2>8 DEF Send!InSlot, Waits
      <4>2. QED
        BY <2>4, <4>1 DEF BusyInv, FilledInv
    <3>2. FailedInv' /\ Send!BusyAgrees'
      BY <2>4, <2>8 DEF FailedInv, Send!InSlot, Send!BusyAgrees
    <3>3. QED
      BY <2>6, <2>7, <3>1, <3>2 DEF BusyInv
  <2>9. CASE ~Send!InSlot(f)
    <3>1. \A g \in Sends : task[g].at = "failed" <=> task'[g].at = "failed"
      BY <2>4, <2>9
    <3>2. QED
      BY <2>4, <2>6, <2>7, <2>9, <3>1, BusyStays DEF BusyInv
  <2>10. QED
    BY <2>8, <2>9
<1>4. QED
  BY <1>1, <1>2, <1>3 DEF Send!Pump

\* A step that concerns one send, and that was offered: those that wait do not
\* notice.
LEMMA OneMoves ==
    ASSUME QuietInv, FreshInv, NEW f \in Sends, ~Waits(f),
           UNCHANGED <<panel, cmds, fresh>>,
           \A g \in Sends \ {f} : Quiet(g) => Quiet(g)'
    PROVE  QuietInv' /\ FreshInv'
<1>1. \A g \in Sends : Waits(g)' => Waits(g)
  BY DEF Waits, Queued
<1>2. QuietInv'
  BY <1>1, QuietStays
<1>3. FreshInv'
  BY DEF FreshInv, Queued
<1>4. QED
  BY <1>2, <1>3

\* A chunk task moves: its send was offered.
LEMMA TaskBusy ==
    ASSUME Send!NoneAssumption, SendInv, BusyInv, NEW f \in Sends, Send!TaskStep(f)
    PROVE  BusyInv'
<1>0. /\ None \notin Sends /\ down \in Seq(Send!Messages)
      /\ task \in [Sends -> TaskState]
      /\ fresh \in Sends \union {None}
      /\ fresh # None <=> sup \in {"filled", "offering"}
  BY DEF Send!NoneAssumption, SendInv, Send!TypeOK, TaskState, Stages
<1>1. /\ task[f].at # "none"
      /\ UNCHANGED <<panel, cmds, sup, fresh, pump, up, deciding, active>>
  BY DEF Send!TaskStep, Send!TaskOpen, Send!TaskChunk, Send!TaskEnd, Send!TaskStops,
         Send!TaskFails, Send!TaskEmpties, Send!TaskClears, Send!Task, Send!panelVars,
         Send!slotVars, Send!laneVars, Send!viewerVars, Send!history
<1>2. ~Waits(f)
  BY <1>1 DEF BusyInv, QuietInv, Quiet
<1>3. \A g \in Sends \ {f} : task'[g] = task[g]
  BY <1>0 DEF Send!TaskStep, Send!TaskOpen, Send!TaskChunk, Send!TaskEnd, Send!TaskStops,
              Send!TaskFails, Send!TaskEmpties, Send!TaskClears, Send!TaskTo
<1>4. /\ Send!Message("chunk", f) \in Send!Messages /\ Send!Message("chunk", f).id = f
      /\ Send!Message("end", f) \in Send!Messages /\ Send!Message("end", f).id = f
      /\ Send!Message("abort", f) \in Send!Messages /\ Send!Message("abort", f).id = f
  BY MessageTyped DEF Send!Kinds, Send!Message
<1>5. \A g \in Sends \ {f} : Spoken(down', g) => Spoken(down, g)
  <2>1. \/ down' = down
        \/ down' = Append(down, Send!Message("chunk", f))
        \/ down' = Append(down, Send!Message("end", f))
        \/ down' = Append(down, Send!Message("abort", f))
    BY DEF Send!TaskStep, Send!TaskOpen, Send!TaskChunk, Send!TaskEnd, Send!TaskStops,
           Send!TaskFails, Send!TaskEmpties, Send!TaskClears, Send!laneVars
  <2>2. \A g \in Sends :
           /\ Spoken(Append(down, Send!Message("chunk", f)), g) => Spoken(down, g) \/ f = g
           /\ Spoken(Append(down, Send!Message("end", f)), g) => Spoken(down, g) \/ f = g
           /\ Spoken(Append(down, Send!Message("abort", f)), g) => Spoken(down, g) \/ f = g
    BY <1>0, <1>4, SpokenQueue
  <2>3. QED
    BY <2>1, <2>2
<1>6. \A g \in Sends \ {f} : Quiet(g) => Quiet(g)'
  BY <1>1, <1>3, <1>5 DEF Quiet, Spoken, Send!Receiving
<1>7. QuietInv' /\ FreshInv'
  BY <1>1, <1>2, <1>6, OneMoves DEF BusyInv
<1>8. CASE Send!TaskEmpties(f)
  <2>1. /\ slot' = None /\ task' = [task EXCEPT ![f].at = "failed"]
        /\ stray' = IF slot # None /\ slot.id # f THEN stray \union {slot.id} ELSE stray
    BY <1>8 DEF Send!TaskEmpties, Send!TaskTo
  <2>2. task'[f].at = "failed"
    BY <1>0, <2>1 DEF TaskState
  <2>3. FilledInv'
    <3>1. ASSUME sup \in {"filled", "offering"}, stray' = {} PROVE FALSE
      <4>1. fresh \in Sends /\ fresh # f
        BY <1>0, <1>2, <3>1 DEF Waits
      <4>2. stray = {} /\ ~(slot # None /\ slot.id # f)
        BY <2>1, <3>1
      <4>3. Send!InSlot(fresh)
        BY <3>1, <4>2 DEF BusyInv, FilledInv
      <4>4. QED
        BY <4>1, <4>2, <4>3 DEF Send!InSlot
    <3>2. QED
      BY <1>1, <3>1 DEF FilledInv
  <2>4. FailedInv' /\ Send!BusyAgrees'
    BY <2>1, <2>2 DEF FailedInv, Send!InSlot, Send!BusyAgrees, Send!Task
  <2>5. QED
    BY <1>7, <2>3, <2>4 DEF BusyInv
<1>9. CASE Send!TaskClears(f)
  <2>1. /\ task[f].at = "failed" /\ task' = [task EXCEPT ![f].at = "gone"]
        /\ slot' = slot /\ flag' = FALSE
        /\ stray' = IF slot = None THEN stray ELSE stray \union {slot.id}
    BY <1>9 DEF Send!TaskClears, Send!TaskTo, Send!Task
  <2>2. task'[f].at = "gone"
    BY <1>0, <2>1 DEF TaskState
  <2>3. stray' = {} => stray = {} /\ slot = None
    BY <2>1
  <2>4. FilledInv'
    BY <1>1, <2>1, <2>3 DEF BusyInv, FilledInv, Send!InSlot
  <2>5. FailedInv'
    BY <1>3, <2>1, <2>2 DEF BusyInv, FailedInv, Send!InSlot
  <2>6. Send!BusyAgrees'
    BY <2>1, <2>3 DEF Send!BusyAgrees
  <2>7. QED
    BY <1>7, <2>4, <2>5, <2>6 DEF BusyInv
<1>10. CASE ~Send!TaskEmpties(f) /\ ~Send!TaskClears(f)
  <2>1. UNCHANGED <<slot, flag, stray>>
    BY <1>10 DEF Send!TaskStep, Send!TaskOpen, Send!TaskChunk, Send!TaskEnd, Send!TaskStops,
                 Send!TaskFails, Send!slotVars, Send!history
  <2>2. task[f].at # "failed" /\ task'[f].at # "failed"
    BY <1>0, <1>10 DEF Send!TaskStep, Send!TaskOpen, Send!TaskChunk, Send!TaskEnd,
                       Send!TaskStops, Send!TaskFails, Send!TaskTo, Send!Task, TaskState
  <2>3. \A g \in Sends : task[g].at = "failed" <=> task'[g].at = "failed"
    BY <1>3, <2>2
  <2>4. QED
    BY <1>1, <1>7, <2>1, <2>3, BusyStays DEF BusyInv
<1>11. QED
  BY <1>8, <1>9, <1>10

\* The viewer takes a message, or its user decides: the send was offered.
LEMMA ViewerBusy ==
    ASSUME Send!SizeAssumption, Send!NoneAssumption, SendInv, BusyInv, Send!Viewer
    PROVE  BusyInv'
<1>0. /\ None \notin Sends
      /\ down \in Seq(Send!Messages) /\ up \in Seq(Send!Messages)
      /\ deciding \in Sends \union {None}
      /\ active \in Send!Receipts \union {None} /\ None \notin Send!Receipts
      /\ Size \in Nat \ {0}
  BY DEF Send!SizeAssumption, Send!NoneAssumption, SendInv, Send!TypeOK
<1>1. UNCHANGED <<panel, cmds, sup, slot, flag, fresh, pump, task, stray>>
  BY DEF Send!Viewer, Send!GetOffer, Send!GetAbort, Send!GetChunk, Send!GetEnd,
         Send!Decide, Send!panelVars, Send!slotVars, Send!history
<1>2. FilledInv' /\ FailedInv' /\ Send!BusyAgrees'
  BY <1>1, BusyStays
<1>3. ASSUME NEW f \in Sends, ~Waits(f),
             \/ down' = down
             \/ down # <<>> /\ down' = Tail(down),
             \/ up' = up
             \/ \E kind \in Send!Kinds : Send!Say(kind, f),
             deciding' \in {deciding, None, f},
             \/ active' \in {active, None}
             \/ active' \in Send!Receipts /\ active'.id = f
      PROVE  BusyInv'
  <2>1. \A g \in Sends : Spoken(down', g) => Spoken(down, g)
    <3>1. Send!Message("offer", f) \in Send!Messages
      BY MessageTyped DEF Send!Kinds
    <3>2. QED
      BY <1>0, <1>3, <3>1, SpokenQueue
  <2>2. \A g \in Sends \ {f} : Spoken(up', g) => Spoken(up, g)
    <3>1. CASE up' = up
      BY <3>1
    <3>2. ASSUME NEW kind \in Send!Kinds, Send!Say(kind, f)
          PROVE  \A g \in Sends \ {f} : Spoken(up', g) => Spoken(up, g)
      <4>1. /\ up' = Append(up, Send!Message(kind, f))
            /\ Send!Message(kind, f) \in Send!Messages /\ Send!Message(kind, f).id = f
        BY <3>2, MessageTyped DEF Send!Say, Send!Message
      <4>2. QED
        BY <1>0, <4>1, SpokenQueue
    <3>3. QED
      BY <1>3, <3>1, <3>2
  <2>3. \A g \in Sends \ {f} : Quiet(g) => Quiet(g)'
    BY <1>0, <1>1, <1>3, <2>1, <2>2 DEF Quiet, Send!Receiving
  <2>4. QED
    BY <1>1, <1>2, <1>3, <2>3, OneMoves DEF BusyInv
<1>4. ASSUME NEW f \in Sends, NEW kind \in Send!Kinds, Send!Gets(kind, f)
      PROVE  ~Waits(f) /\ down # <<>> /\ down' = Tail(down)
  BY <1>4, HeardOffered DEF BusyInv, Send!Gets
<1>5. ASSUME NEW f \in Sends, Send!GetOffer(f) \/ Send!GetAbort(f)
      PROVE  BusyInv'
  <2>1. CASE Send!GetOffer(f)
    <3>1. ~Waits(f) /\ down # <<>> /\ down' = Tail(down)
      BY <1>4, <2>1 DEF Send!GetOffer, Send!Kinds
    <3>2. /\ up' = up \/ Send!Say("decline", f)
          /\ deciding' \in {deciding, f} /\ active' = active
      BY <2>1 DEF Send!GetOffer
    <3>3. QED
      BY <1>3, <3>1, <3>2 DEF Send!Kinds
  <2>2. CASE Send!GetAbort(f)
    <3>1. ~Waits(f) /\ down # <<>> /\ down' = Tail(down)
      BY <1>4, <2>2 DEF Send!GetAbort, Send!Kinds
    <3>2. up' = up /\ deciding' = deciding /\ active' \in {active, None}
      BY <2>2 DEF Send!GetAbort
    <3>3. QED
      BY <1>3, <3>1, <3>2
  <2>3. QED
    BY <1>5, <2>1, <2>2
<1>6. ASSUME NEW f \in Sends, NEW ok \in BOOLEAN, Send!GetChunk(f, ok) \/ Send!GetEnd(f, ok)
      PROVE  BusyInv'
  <2>1. CASE Send!GetChunk(f, ok)
    <3>1. ~Waits(f) /\ down # <<>> /\ down' = Tail(down)
      BY <1>4, <2>1 DEF Send!GetChunk, Send!Kinds
    <3>2. (up' = up \/ Send!Say("abort", f)) /\ deciding' = deciding
      BY <2>1 DEF Send!GetChunk
    <3>3. active' \in {active, None} \/ (active' \in Send!Receipts /\ active'.id = f)
      <4>1. ASSUME Send!Receiving(f), active' = [active EXCEPT !.received = @ + 1],
                   active.received < Size
            PROVE  active' \in Send!Receipts /\ active'.id = f
        <5>1. active \in Send!Receipts /\ active.id = f
          BY <1>0, <4>1 DEF Send!Receiving
        <5>2. active.received + 1 \in 0..Size
          BY <1>0, <4>1, <5>1 DEF Send!Receipts
        <5>3. QED
          BY <4>1, <5>1, <5>2 DEF Send!Receipts
      <4>2. QED
        BY <2>1, <4>1 DEF Send!GetChunk
    <3>4. QED
      BY <1>3, <3>1, <3>2, <3>3 DEF Send!Kinds
  <2>2. CASE Send!GetEnd(f, ok)
    <3>1. ~Waits(f) /\ down # <<>> /\ down' = Tail(down)
      BY <1>4, <2>2 DEF Send!GetEnd, Send!Kinds
    <3>2. /\ up' = up \/ Send!Say("done", f) \/ Send!Say("abort", f)
          /\ deciding' = deciding /\ active' \in {active, None}
      BY <2>2 DEF Send!GetEnd
    <3>3. QED
      BY <1>3, <3>1, <3>2 DEF Send!Kinds
  <2>3. QED
    BY <1>6, <2>1, <2>2
<1>7. ASSUME NEW accept \in BOOLEAN, Send!Decide(accept)
      PROVE  BusyInv'
  <2>1. /\ deciding \in Sends /\ deciding' = None /\ down' = down
        /\ Send!Say("accept", deciding) \/ Send!Say("decline", deciding)
        /\ active' \in {active, [id |-> deciding, received |-> 0]}
    BY <1>0, <1>7 DEF Send!Decide
  <2>2. ~Waits(deciding)
    BY <2>1 DEF BusyInv, QuietInv, Quiet
  <2>3. /\ [id |-> deciding, received |-> 0] \in Send!Receipts
        /\ [id |-> deciding, received |-> 0].id = deciding
    BY <1>0, <2>1 DEF Send!Receipts
  <2>4. QED
    BY <1>3, <2>1, <2>2, <2>3 DEF Send!Kinds
<1>8. QED
  BY <1>5, <1>6, <1>7 DEF Send!Viewer

\* No step makes flag and slot disagree.
LEMMA BusySteps ==
    ASSUME Send!SizeAssumption, Send!NoneAssumption, SendInv, BusyInv,
           [Send!Next]_(Send!vars)
    PROVE  BusyInv'
<1>1. CASE UNCHANGED Send!vars
  BY <1>1
     DEF BusyInv, QuietInv, FreshInv, FilledInv, FailedInv, Waits, Queued, Quiet, Spoken,
         Send!InSlot, Send!Receiving, Send!BusyAgrees, Send!Live, Send!Task, Send!vars,
         Send!panelVars, Send!slotVars, Send!laneVars, Send!viewerVars, Send!history
<1>2. QED
  BY <1>1, SendSteps, PanelBusy, SupervisorBusy, LeaveBusy, PumpBusy, TaskBusy, ViewerBusy

LEMMA BusyInit ==
    ASSUME Send!NoneAssumption, Send!Init
    PROVE  BusyInv
<1>1. /\ cmds = <<>> /\ down = <<>> /\ up = <<>>
      /\ sup = "idle" /\ slot = None /\ flag = FALSE /\ fresh = None /\ pump = None
      /\ deciding = None /\ active = None /\ None \notin Sends
      /\ \A f \in Sends : task[f].at = "none"
  BY DEF Send!Init, Send!NoneAssumption
<1>2. \A f \in Sends : Quiet(f)
  BY <1>1 DEF Quiet, Spoken, Send!Receiving
<1>3. QED
  BY <1>1, <1>2 DEF BusyInv, QuietInv, FreshInv, FilledInv, FailedInv, Send!InSlot,
                    Send!BusyAgrees

\* The panel's busy flag says whether the slot holds a send, in every order of
\* uploads, answers, failures and ends, but between the two writes that move slot
\* and flag, and after a failed task emptied the slot of another send.
THEOREM BusyFlagAgrees ==
    ASSUME Send!SizeAssumption, Send!LaneCapAssumption, Send!NoneAssumption
    PROVE  Send!Spec => []Send!BusyAgrees
<1>1. Send!Init => BusyInv
  BY BusyInit
<1>2. SendInv /\ BusyInv /\ [Send!Next]_(Send!vars) => BusyInv'
  BY BusySteps
<1>3. BusyInv => Send!BusyAgrees
  BY DEF BusyInv
<1>4. QED
  BY <1>1, <1>2, <1>3, SendInvariant, PTL DEF Send!Spec

-----------------------------------------------------------------------------
(***************************************************************************)
(* The chunks of the file the viewer receives.                             *)
(***************************************************************************)
\* Where a queue holds a message.
At(q, kind, f) == {i \in 1..Len(q) : q[i] = Send!Message(kind, f)}

\* The viewer has not begun with the send: it may still be accepted.
Unbegun(f) ==
    Waits(f) \/ At(down, "offer", f) # {} \/ deciding = f \/ At(up, "accept", f) # {}

\* The send is in one stage at a time: offered, before the user, received; and it
\* is offered and accepted once.
Once(f) ==
    /\ \A i, j \in At(down, "offer", f) : i = j
    /\ \A i, j \in At(up, "accept", f) : i = j
    /\ deciding = f \/ Send!Receiving(f) \/ At(up, "accept", f) # {}
          => At(down, "offer", f) = {}
    /\ Send!Receiving(f) \/ At(up, "accept", f) # {} => deciding # f

\* Before the accept is heard there is no task, and before that task streams, no
\* chunk.
NotBegun(f) == Unbegun(f) => task[f].at = "none"

NothingSent(f) ==
    task[f].at \in {"none", "open"} => task[f].sent = 0 /\ At(down, "chunk", f) = {}

\* The end is said when the whole file is, and the task is over then.
EndLast(f) ==
    At(down, "end", f) # {} =>
        /\ task[f].at \notin {"none", "open", "stream"} /\ task[f].sent = Size
        /\ \A i \in At(down, "end", f), j \in At(down, "chunk", f) : j < i

Counted(f) ==
    Send!Receiving(f) =>
        active.received + Cardinality(At(down, "chunk", f)) = task[f].sent

Stepwise(f) == Once(f) /\ NotBegun(f) /\ NothingSent(f) /\ EndLast(f) /\ Counted(f)

StepInv == \A f \in Sends : Stepwise(f)

\* Messages differ by their kinds, and by their sends.
LEMMA MessageEqual ==
    ASSUME NEW k1, NEW k2, NEW f, NEW g
    PROVE  Send!Message(k1, f) = Send!Message(k2, g) <=> k1 = k2 /\ f = g
  BY DEF Send!Message

\* The places of a message are as many as there are.
LEMMA AtFinite ==
    ASSUME NEW q \in Seq(Send!Messages), NEW kind, NEW f
    PROVE  /\ IsFiniteSet(At(q, kind, f))
           /\ Cardinality(At(q, kind, f)) \in Nat
           /\ At(q, kind, f) \subseteq 1..Len(q) /\ Len(q) \in Nat
<1>1. Len(q) \in Nat
  OBVIOUS
<1>2. IsFiniteSet(1..Len(q))
  BY <1>1, FS_Interval
<1>3. At(q, kind, f) \in SUBSET (1..Len(q))
  BY DEF At
<1>4. IsFiniteSet(At(q, kind, f))
  BY <1>2, <1>3, FS_Subset
<1>5. QED
  BY <1>1, <1>3, <1>4, FS_CardinalityType

\* A message put into a queue takes the place behind all others.
LEMMA AtAppend ==
    ASSUME NEW q \in Seq(Send!Messages), NEW kind \in Send!Kinds, NEW f \in Sends
    PROVE  /\ At(Append(q, Send!Message(kind, f)), kind, f)
                 = At(q, kind, f) \union {Len(q) + 1}
           /\ Cardinality(At(Append(q, Send!Message(kind, f)), kind, f))
                 = Cardinality(At(q, kind, f)) + 1
<1> DEFINE more == Append(q, Send!Message(kind, f))
<1>1. Send!Message(kind, f) \in Send!Messages
  BY MessageTyped
<1>2. /\ Len(more) = Len(q) + 1 /\ Len(q) \in Nat
      /\ \A i \in 1..Len(q) : more[i] = q[i]
      /\ more[Len(q) + 1] = Send!Message(kind, f)
  BY <1>1, Added
<1> HIDE DEF more
<1>3. 1..Len(more) = (1..Len(q)) \union {Len(q) + 1}
  BY <1>2
<1>4. At(more, kind, f) = At(q, kind, f) \union {Len(q) + 1}
  BY <1>2, <1>3 DEF At
<1>5. Len(q) + 1 \notin At(q, kind, f)
  BY <1>2 DEF At
<1>6. Cardinality(At(more, kind, f)) = Cardinality(At(q, kind, f)) + 1
  BY <1>4, <1>5, AtFinite, FS_AddElement
<1>7. QED
  BY <1>4, <1>6 DEF more

\* The others stay where they are.
LEMMA AtOther ==
    ASSUME NEW q \in Seq(Send!Messages), NEW kind \in Send!Kinds, NEW f \in Sends,
           NEW k \in Send!Kinds, NEW g \in Sends, kind # k \/ f # g
    PROVE  At(Append(q, Send!Message(kind, f)), k, g) = At(q, k, g)
<1> DEFINE more == Append(q, Send!Message(kind, f))
<1>1. Send!Message(kind, f) \in Send!Messages
  BY MessageTyped
<1>2. /\ Len(more) = Len(q) + 1 /\ Len(q) \in Nat
      /\ \A i \in 1..Len(q) : more[i] = q[i]
      /\ more[Len(q) + 1] = Send!Message(kind, f)
  BY <1>1, Added
<1> HIDE DEF more
<1>3. 1..Len(more) = (1..Len(q)) \union {Len(q) + 1}
  BY <1>2
<1>4. Send!Message(kind, f) # Send!Message(k, g)
  BY MessageEqual
<1>5. QED
  BY <1>2, <1>3, <1>4 DEF At, more

\* When the first message is taken the others move up by one.
LEMMA AtTail ==
    ASSUME NEW q \in Seq(Send!Messages), q # <<>>, NEW kind, NEW f
    PROVE  /\ \A i \in At(Tail(q), kind, f) : i + 1 \in At(q, kind, f)
           /\ Head(q) = Send!Message(kind, f) <=> 1 \in At(q, kind, f)
           /\ Cardinality(At(Tail(q), kind, f)) =
                 IF Head(q) = Send!Message(kind, f)
                 THEN Cardinality(At(q, kind, f)) - 1 ELSE Cardinality(At(q, kind, f))
<1> DEFINE here == At(q, kind, f)
           next == At(Tail(q), kind, f)
<1>1. /\ Len(q) \in Nat \ {0} /\ Head(q) = q[1]
      /\ Tail(q) \in Seq(Send!Messages) /\ Len(Tail(q)) = Len(q) - 1
      /\ \A i \in 1..(Len(q) - 1) : Tail(q)[i] = q[i + 1]
  BY HeadTail
<1>2. Head(q) = Send!Message(kind, f) <=> 1 \in here
  BY <1>1 DEF At
<1>3. \A i \in next : i \in Nat /\ i + 1 \in here /\ i + 1 # 1
  BY <1>1 DEF At
<1>4. \A j \in here : j \in Nat /\ (j # 1 => j - 1 \in next)
  <2>1. ASSUME NEW j \in here, j # 1 PROVE j - 1 \in next
    <3>1. j \in 1..Len(q) /\ q[j] = Send!Message(kind, f)
      BY DEF At
    <3>2. j - 1 \in 1..(Len(q) - 1) /\ (j - 1) + 1 = j
      BY <1>1, <2>1, <3>1
    <3>3. Tail(q)[j - 1] = q[j]
      BY <1>1, <3>2
    <3>4. QED
      BY <1>1, <3>1, <3>2, <3>3 DEF At
  <2>2. QED
    BY <2>1 DEF At
<1>5. IsFiniteSet(next) /\ IsFiniteSet(here) /\ Cardinality(here) \in Nat
  BY <1>1, AtFinite
<1> HIDE DEF here, next
<1>6. ExistsBijection(next, here \ {1})
  <2> DEFINE up1 == [i \in next |-> i + 1]
  <2>1. up1 \in [next -> here \ {1}]
    BY <1>3
  <2>2. ASSUME NEW i \in next, NEW j \in next, up1[i] = up1[j] PROVE i = j
    BY <1>3, <2>2
  <2>3. ASSUME NEW j \in here \ {1} PROVE \E i \in next : up1[i] = j
    <3>1. j - 1 \in next /\ (j - 1) + 1 = j
      BY <1>4
    <3>2. QED
      BY <3>1
  <2>4. up1 \in Bijection(next, here \ {1})
    BY <2>1, <2>2, <2>3 DEF Bijection, Injection, Surjection, IsInjective
  <2>5. QED
    BY <2>4 DEF ExistsBijection
<1>7. Cardinality(next) = Cardinality(here \ {1})
  BY <1>5, <1>6, FS_Bijection
<1>8. Cardinality(here \ {1}) = IF 1 \in here THEN Cardinality(here) - 1 ELSE Cardinality(here)
  BY <1>5, FS_RemoveElement
<1>9. QED
  BY <1>2, <1>3, <1>7, <1>8 DEF here, next

\* The messages of these kinds about a send are those of before, moved up.
Behind(p, q, kinds, f) ==
    \E d \in Nat : \A kind \in kinds : \A i \in At(p, kind, f) : i + d \in At(q, kind, f)

Downward == {"offer", "chunk", "end"}

\* A step that does not concern the send but by what it takes from the queues and
\* from the viewer, and by stopping its task.
Keeps(f) ==
    /\ Waits(f)' => Waits(f)
    /\ Behind(down', down, Downward, f) /\ Behind(up', up, {"accept"}, f)
    /\ deciding' = f => deciding = f
    /\ task'[f].sent = task[f].sent
    /\ task'[f].at = "none" <=> task[f].at = "none"
    /\ task'[f].at = "open" => task[f].at = "open"
    /\ task'[f].at = "stream" => task[f].at \in {"open", "stream"}
    /\ Send!Receiving(f)' =>
          /\ Send!Receiving(f)
          /\ active'.received + Cardinality(At(down', "chunk", f))
                = active.received + Cardinality(At(down, "chunk", f))

LEMMA KeepsStepwise ==
    ASSUME SendInv, SendInv', NEW f \in Sends, Stepwise(f), Keeps(f)
    PROVE  Stepwise(f)'
<1>1. PICK d \in Nat : \A kind \in Downward : \A i \in At(down', kind, f) :
                          i + d \in At(down, kind, f)
  BY DEF Keeps, Behind
<1>2. PICK e \in Nat : \A i \in At(up', "accept", f) : i + e \in At(up, "accept", f)
  BY DEF Keeps, Behind
<1>3. /\ down \in Seq(Send!Messages) /\ down' \in Seq(Send!Messages)
      /\ up \in Seq(Send!Messages) /\ up' \in Seq(Send!Messages)
      /\ task[f] \in TaskState
  BY DEF SendInv, Send!TypeOK, TaskState, Stages
<1>4. /\ \A i \in At(down', "offer", f) : i \in Nat /\ i + d \in At(down, "offer", f)
      /\ \A i \in At(down', "chunk", f) : i \in Nat /\ i + d \in At(down, "chunk", f)
      /\ \A i \in At(down', "end", f) : i \in Nat /\ i + d \in At(down, "end", f)
      /\ \A i \in At(up', "accept", f) : i \in Nat /\ i + e \in At(up, "accept", f)
  BY <1>1, <1>2 DEF Downward, At
<1>5. \A i, j \in Nat, k \in {d, e} : i + k = j + k => i = j
  OBVIOUS
<1>6. /\ At(down', "offer", f) # {} => At(down, "offer", f) # {}
      /\ At(down', "chunk", f) # {} => At(down, "chunk", f) # {}
      /\ At(down', "end", f) # {} => At(down, "end", f) # {}
      /\ At(up', "accept", f) # {} => At(up, "accept", f) # {}
  BY <1>4
<1>7. Once(f)'
  <2>1. /\ \A i, j \in At(down', "offer", f) : i = j
        /\ \A i, j \in At(up', "accept", f) : i = j
    BY <1>4, <1>5 DEF Stepwise, Once
  <2>2. QED
    BY <1>6, <2>1 DEF Keeps, Stepwise, Once
<1>8. NotBegun(f)'
  BY <1>6 DEF Keeps, Stepwise, NotBegun, Unbegun
<1>9. NothingSent(f)'
  BY <1>6 DEF Keeps, Stepwise, NothingSent
<1>10. EndLast(f)'
  <2>1. ASSUME At(down', "end", f) # {}
        PROVE  /\ task'[f].at \notin {"none", "open", "stream"} /\ task'[f].sent = Size
               /\ \A i \in At(down, "end", f), j \in At(down, "chunk", f) : j < i
    BY <1>6, <2>1 DEF Keeps, Stepwise, EndLast
  <2>2. ASSUME NEW i \in At(down', "end", f), NEW j \in At(down', "chunk", f)
        PROVE  j < i
    <3>1. i \in Nat /\ j \in Nat /\ j + d < i + d
      BY <1>4, <2>1, <2>2
    <3>2. QED
      BY <3>1
  <2>3. QED
    BY <2>1, <2>2 DEF EndLast
<1>11. Counted(f)'
  BY DEF Keeps, Stepwise, Counted
<1>12. QED
  BY <1>7, <1>8, <1>9, <1>10, <1>11 DEF Stepwise

\* What a step may do to a queue without bringing news of the send.
LEMMA BehindQueue ==
    ASSUME NEW q \in Seq(Send!Messages), NEW kinds \in SUBSET Send!Kinds, NEW f \in Sends
    PROVE  /\ Behind(q, q, kinds, f)
           /\ Behind(<<>>, q, kinds, f)
           /\ q # <<>> => Behind(Tail(q), q, kinds, f)
           /\ \A kind \in Send!Kinds, g \in Sends :
                 kind \notin kinds \/ f # g
                    => Behind(Append(q, Send!Message(kind, g)), q, kinds, f)
<1>1. Behind(q, q, kinds, f)
  <2>1. \A kind \in kinds : \A i \in At(q, kind, f) : i + 0 \in At(q, kind, f)
    BY DEF At
  <2>2. QED
    BY <2>1 DEF Behind
<1>2. Behind(<<>>, q, kinds, f)
  <2>1. \A kind \in kinds : At(<<>>, kind, f) = {}
    BY DEF At
  <2>2. QED
    BY <2>1 DEF Behind
<1>3. q # <<>> => Behind(Tail(q), q, kinds, f)
  BY AtTail DEF Behind
<1>4. ASSUME NEW kind \in Send!Kinds, NEW g \in Sends, kind \notin kinds \/ f # g
      PROVE  Behind(Append(q, Send!Message(kind, g)), q, kinds, f)
  <2>1. \A k \in kinds : At(Append(q, Send!Message(kind, g)), k, f) = At(q, k, f)
    BY <1>4, AtOther
  <2>2. \A k \in kinds : \A i \in At(q, k, f) : i + 0 \in At(q, k, f)
    BY DEF At
  <2>3. QED
    BY <2>1, <2>2 DEF Behind
<1>5. QED
  BY <1>1, <1>2, <1>3, <1>4

\* Only what waited to be offered waits.
LEMMA WaitsStays ==
    ASSUME Send!NoneAssumption, SendInv, [Send!Next]_(Send!vars),
           NEW f \in Sends, Waits(f)'
    PROVE  Waits(f)
<1>0. None \notin Sends /\ panel \in [Sends -> {"new", "spooling", "over"}]
  BY DEF Send!NoneAssumption, SendInv, Send!TypeOK
<1>1. ASSUME NEW g \in Sends, Send!Panel(g) PROVE Waits(f)
  <2>1. /\ panel[g] # "over" /\ \A h \in Sends \ {g} : panel'[h] = panel[h]
        /\ cmds' \in {cmds, Append(cmds, g)} /\ fresh' = fresh
    BY <1>0, <1>1 DEF Send!Panel, Send!Request, Send!UploadFails, Send!HandOver
  <2>2. Queued(f)' => Queued(f) \/ f = g
    BY <2>1, QueuedNext DEF Queued
  <2>3. QED
    BY <2>1, <2>2 DEF Waits
<1>2. CASE Send!TakeSend
  <2>1. /\ cmds # <<>> /\ cmds' = Tail(cmds) /\ fresh' = Head(cmds) /\ panel' = panel
    BY <1>2 DEF Send!TakeSend
  <2>2. Queued(Head(cmds)) /\ (Queued(f)' => Queued(f))
    BY <2>1, QueueHead DEF Queued
  <2>3. QED
    BY <2>1, <2>2 DEF Waits
<1>3. CASE Send!RaiseFlag
  BY <1>3 DEF Send!RaiseFlag, Send!panelVars, Waits, Queued
<1>4. CASE Send!Offer
  BY <1>0, <1>4 DEF Send!Offer, Send!panelVars, Waits, Queued
<1>5. CASE Send!Leave
  BY <1>0, <1>5 DEF Send!Leave, Waits, Queued
<1>6. CASE \/ Send!Pump \/ Send!Viewer \/ UNCHANGED Send!vars
           \/ \E g \in Sends : Send!TaskStep(g)
  <2>1. UNCHANGED <<panel, cmds, fresh>>
    BY <1>6 DEF Send!Pump, Send!Attach, Send!HearAccept, Send!HearEnd, Send!Viewer,
       Send!GetOffer, Send!GetAbort, Send!GetChunk, Send!GetEnd, Send!Decide,
       Send!TaskStep, Send!TaskOpen, Send!TaskChunk, Send!TaskEnd, Send!TaskStops,
       Send!TaskFails, Send!TaskEmpties, Send!TaskClears, Send!panelVars, Send!vars
  <2>2. QED
    BY <2>1 DEF Waits, Queued
<1>7. QED
  BY <1>1, <1>2, <1>3, <1>4, <1>5, <1>6, SendSteps DEF Send!Supervisor

\* What a chunk task may do without sending anything of the file.
Slackens(f) ==
    /\ task'[f].sent = task[f].sent
    /\ task'[f].at = "none" <=> task[f].at = "none"
    /\ task'[f].at = "open" => task[f].at = "open"
    /\ task'[f].at = "stream" => task[f].at \in {"open", "stream"}

\* A discarded slot's task stops.
LEMMA DiscardSlackens ==
    ASSUME SendInv, Send!NoneAssumption, slot # None, Send!Discard, NEW f \in Sends
    PROVE  Slackens(f)
<1>1. slot.task \in Sends \union {None} /\ task \in [Sends -> TaskState]
  BY DEF SendInv, Send!TypeOK, Send!Slots, TaskState, Stages
<1>2. CASE slot.task # None /\ task[slot.task].at \in {"open", "stream"}
  <2>1. task' = [task EXCEPT ![slot.task].at = "gone"]
    BY <1>2 DEF Send!Discard
  <2>2. f # slot.task => task'[f] = task[f]
    BY <1>1, <2>1
  <2>3. task'[slot.task].at = "gone" /\ task'[slot.task].sent = task[slot.task].sent
    BY <1>1, <1>2, <2>1 DEF TaskState
  <2>4. QED
    BY <1>2, <2>2, <2>3 DEF Slackens
<1>3. CASE ~(slot.task # None /\ task[slot.task].at \in {"open", "stream"})
  BY <1>3 DEF Send!Discard, Slackens
<1>4. QED
  BY <1>2, <1>3

\* A step that leaves the downward queue and the viewer's file alone.
LEMMA KeepsQuietly ==
    ASSUME Send!NoneAssumption, SendInv, [Send!Next]_(Send!vars), NEW f \in Sends,
           UNCHANGED <<down, active>>, Behind(up', up, {"accept"}, f),
           deciding' = f => deciding = f, Slackens(f)
    PROVE  Keeps(f)
<1>1. down \in Seq(Send!Messages)
  BY DEF SendInv, Send!TypeOK
<1>2. Behind(down', down, Downward, f)
  BY <1>1, BehindQueue DEF Downward, Send!Kinds
<1>3. QED
  BY <1>2, WaitsStays DEF Keeps, Slackens, Send!Receiving

-----------------------------------------------------------------------------
\* The supervisor offers a send: once.
LEMMA OfferStepwise ==
    ASSUME Send!NoneAssumption, SendInv, SendInv', BusyInv, StepInv, Send!Offer
    PROVE  StepInv'
<1>1. /\ fresh # None <=> sup \in {"filled", "offering"}
      /\ fresh \in Sends \union {None}
      /\ down \in Seq(Send!Messages) /\ up \in Seq(Send!Messages)
  BY DEF SendInv, Send!TypeOK
<1>n. PICK new \in Sends : new = fresh
  BY <1>1 DEF Send!Offer
<1>2. /\ new = fresh
      /\ down' = Append(down, Send!Message("offer", new))
      /\ UNCHANGED <<task, up, deciding, active>>
  BY <1>n DEF Send!Offer, Send!viewerVars
<1>k. {"offer", "chunk", "end", "accept"} \subseteq Send!Kinds
      /\ Downward \subseteq Send!Kinds
  BY DEF Send!Kinds, Downward
<1>3. ASSUME NEW f \in Sends, f # new PROVE Stepwise(f)'
  <2>1. Behind(down', down, Downward, f) /\ Behind(up', up, {"accept"}, f)
    BY <1>1, <1>2, <1>3, <1>k, BehindQueue
  <2>2. At(down', "chunk", f) = At(down, "chunk", f)
    BY <1>1, <1>2, <1>k, AtOther
  <2>3. [Send!Next]_(Send!vars)
    BY DEF Send!Next, Send!Supervisor
  <2>4. Keeps(f)
    BY <1>2, <2>1, <2>2, <2>3, WaitsStays DEF Keeps, Send!Receiving
  <2>5. QED
    BY <2>4, KeepsStepwise DEF StepInv
<1>4. Stepwise(new)'
  <2>1. /\ Quiet(new) /\ Waits(new)
        /\ Stepwise(new)
    BY <1>2 DEF BusyInv, QuietInv, Waits, StepInv
  <2>2. /\ At(down, "offer", new) = {} /\ At(down, "end", new) = {}
        /\ At(down, "chunk", new) = {} /\ At(up, "accept", new) = {}
    BY <2>1 DEF Quiet, Spoken, At, Send!Message
  <2>3. /\ At(down', "offer", new) = {Len(down) + 1}
        /\ At(down', "end", new) = {} /\ At(down', "chunk", new) = {}
    BY <1>1, <1>2, <1>k, <2>2, AtAppend, AtOther
  <2>4. deciding # new /\ ~Send!Receiving(new) /\ task[new].at = "none"
    BY <2>1 DEF Quiet
  <2>5. UNCHANGED task[new] /\ ~Send!Receiving(new)'
    BY <1>2, <2>4 DEF Send!Receiving
  <2>6. Once(new)'
    BY <1>2, <2>2, <2>3, <2>4, <2>5 DEF Once
  <2>7. NotBegun(new)' /\ NothingSent(new)' /\ EndLast(new)' /\ Counted(new)'
    BY <1>2, <2>1, <2>3, <2>4, <2>5
       DEF Stepwise, NotBegun, NothingSent, EndLast, Counted
  <2>8. QED
    BY <2>6, <2>7 DEF Stepwise
<1>5. ASSUME NEW f \in Sends PROVE Stepwise(f)'
  BY <1>3, <1>4, <1>5
<1>6. QED
  BY <1>5 DEF StepInv

\* The panel, the supervisor and the end of a session leave what was offered alone,
\* but for stopping the slot's task.
LEMMA HostStepwise ==
    ASSUME Send!NoneAssumption, SendInv, SendInv', BusyInv, StepInv,
           \/ \E g \in Sends : Send!Panel(g)
           \/ Send!Supervisor
           \/ Send!Leave
    PROVE  StepInv'
<1>0. /\ [Send!Next]_(Send!vars)
      /\ up \in Seq(Send!Messages)
  BY DEF Send!Next, SendInv, Send!TypeOK
<1>1. CASE Send!Offer
  BY <1>1, OfferStepwise
<1>2. CASE ~Send!Offer
  <2>1. UNCHANGED <<down, active, deciding>> /\ up' \in {up, <<>>}
    BY <1>2 DEF Send!Panel, Send!Request, Send!UploadFails, Send!HandOver,
       Send!Supervisor, Send!TakeSend, Send!RaiseFlag, Send!Leave, Send!laneVars,
       Send!viewerVars
  <2>2. task' = task \/ (slot # None /\ Send!Discard)
    BY <1>2 DEF Send!Panel, Send!Request, Send!UploadFails, Send!HandOver,
       Send!Supervisor, Send!TakeSend, Send!RaiseFlag, Send!Leave
  <2>3. ASSUME NEW f \in Sends PROVE Keeps(f)
    <3>1. Slackens(f)
      BY <2>2, DiscardSlackens DEF Slackens
    <3>2. Behind(up', up, {"accept"}, f)
      <4>1. {"accept"} \in SUBSET Send!Kinds
        BY DEF Send!Kinds
      <4>2. CASE up' = up
        BY <1>0, <4>1, <4>2, BehindQueue
      <4>3. CASE up' = <<>>
        BY <1>0, <4>1, <4>3, BehindQueue
      <4>4. QED
        BY <2>1, <4>2, <4>3
    <3>3. QED
      BY <1>0, <2>1, <3>1, <3>2, KeepsQuietly
  <2>4. QED
    BY <2>3, KeepsStepwise DEF StepInv
<1>3. QED
  BY <1>1, <1>2

\* The pump starts the one task of a send when it hears its one accept.
LEMMA PumpStepwise ==
    ASSUME Send!NoneAssumption, SendInv, SendInv', BusyInv, StepInv, Send!Pump
    PROVE  StepInv'
<1>0. /\ [Send!Next]_(Send!vars)
      /\ up \in Seq(Send!Messages) /\ task \in [Sends -> TaskState]
  BY DEF Send!Next, SendInv, Send!TypeOK, TaskState, Stages
<1>1. /\ UNCHANGED <<down, active, deciding>>
      /\ up' = up \/ (up # <<>> /\ up' = Tail(up))
  <2>1. CASE Send!Attach
    BY <2>1 DEF Send!Attach, Send!laneVars, Send!viewerVars
  <2>2. ASSUME NEW g \in Sends, Send!HearAccept(g) \/ Send!HearEnd(g)
        PROVE  UNCHANGED <<down, active, deciding>> /\ up # <<>> /\ up' = Tail(up)
    BY <2>2 DEF Send!HearAccept, Send!HearEnd, Send!Hears, Send!viewerVars
  <2>3. QED
    BY <2>1, <2>2 DEF Send!Pump
<1>2. ASSUME NEW f \in Sends PROVE Behind(up', up, {"accept"}, f)
  <2>1. {"accept"} \in SUBSET Send!Kinds
    BY DEF Send!Kinds
  <2>2. CASE up' = up
    BY <1>0, <2>1, <2>2, BehindQueue
  <2>3. CASE up # <<>> /\ up' = Tail(up)
    BY <1>0, <2>1, <2>3, BehindQueue
  <2>4. QED
    BY <1>1, <2>2, <2>3
<1>3. ASSUME NEW g \in Sends, Send!HearAccept(g), Send!InSlot(g) PROVE StepInv'
  <2>1. /\ task' = [task EXCEPT ![g].at = "open"]
        /\ Send!Hears("accept", g)
    BY <1>3 DEF Send!HearAccept
  <2>2. ASSUME NEW f \in Sends, f # g PROVE Stepwise(f)'
    <3>1. Slackens(f)
      BY <1>0, <2>1, <2>2 DEF Slackens
    <3>2. QED
      BY <1>0, <1>1, <1>2, <3>1, KeepsQuietly, KeepsStepwise DEF StepInv
  <2>3. Stepwise(g)'
    <3>1. up # <<>> /\ Head(up) = Send!Message("accept", g) /\ up' = Tail(up)
      BY <2>1 DEF Send!Hears
    <3>2. 1 \in At(up, "accept", g) /\ \A i \in At(up', "accept", g) :
                                          i \in Nat \ {0} /\ i + 1 \in At(up, "accept", g)
      BY <1>0, <3>1, AtTail DEF At
    <3>3. Stepwise(g)
      BY DEF StepInv
    <3>4. At(up', "accept", g) = {}
      <4>1. ASSUME NEW i \in At(up', "accept", g) PROVE FALSE
        <5>1. i + 1 = 1 /\ i \in Nat \ {0}
          BY <3>2, <3>3 DEF Stepwise, Once
        <5>2. QED
          BY <5>1
      <4>2. QED
        BY <4>1
    <3>5. /\ At(down, "offer", g) = {} /\ deciding # g /\ task[g].at = "none"
          /\ task[g].sent = 0 /\ At(down, "chunk", g) = {} /\ At(down, "end", g) = {}
      BY <3>2, <3>3 DEF Stepwise, Once, NotBegun, Unbegun, NothingSent, EndLast
    <3>6. task'[g].at = "open" /\ task'[g].sent = 0
      BY <1>0, <2>1, <3>5 DEF TaskState
    <3>7. ~Waits(g)'
      <4>1. ~Waits(g)
        BY <2>1, HeardOffered DEF Send!Kinds, BusyInv
      <4>2. QED
        BY <1>0, <4>1, WaitsStays
    <3>8. Once(g)'
      BY <1>1, <3>3, <3>4, <3>5 DEF Stepwise, Once, Send!Receiving
    <3>9. NotBegun(g)' /\ NothingSent(g)' /\ EndLast(g)'
      BY <1>1, <3>4, <3>5, <3>6, <3>7 DEF NotBegun, Unbegun, NothingSent, EndLast
    <3>10. Counted(g)'
      BY <1>1, <3>3, <3>5, <3>6 DEF Stepwise, Counted, Send!Receiving
    <3>11. QED
      BY <3>8, <3>9, <3>10 DEF Stepwise
  <2>4. QED
    BY <2>2, <2>3 DEF StepInv
<1>4. CASE \A g \in Sends : ~(Send!HearAccept(g) /\ Send!InSlot(g))
  <2>1. task' = task \/ (slot # None /\ Send!Discard)
    BY <1>4 DEF Send!Pump, Send!Attach, Send!HearAccept, Send!HearEnd, Send!InSlot
  <2>2. ASSUME NEW f \in Sends PROVE Keeps(f)
    <3>1. Slackens(f)
      BY <2>1, DiscardSlackens DEF Slackens
    <3>2. QED
      BY <1>0, <1>1, <1>2, <3>1, KeepsQuietly
  <2>3. QED
    BY <2>2, KeepsStepwise DEF StepInv
<1>5. QED
  BY <1>3, <1>4

\* A chunk task sends: the chunk is queued before the next is read, the end last.
LEMMA TaskStepwise ==
    ASSUME Send!SizeAssumption, Send!NoneAssumption, SendInv, SendInv', BusyInv, StepInv,
           NEW g \in Sends, Send!TaskStep(g)
    PROVE  StepInv'
<1>0. /\ [Send!Next]_(Send!vars)
      /\ down \in Seq(Send!Messages) /\ up \in Seq(Send!Messages)
      /\ task \in [Sends -> TaskState] /\ Size \in Nat
  BY DEF Send!Next, SendInv, Send!TypeOK, TaskState, Stages, Send!SizeAssumption
<1>k. /\ {"offer", "chunk", "end", "abort", "accept"} \subseteq Send!Kinds
      /\ Downward \subseteq Send!Kinds /\ "abort" \notin Downward
  BY DEF Send!Kinds, Downward
<1>1. UNCHANGED <<up, active, deciding>>
  BY DEF Send!TaskStep, Send!TaskOpen, Send!TaskChunk, Send!TaskEnd, Send!TaskStops,
     Send!TaskFails, Send!TaskEmpties, Send!TaskClears, Send!laneVars, Send!viewerVars
<1>2. \A f \in Sends \ {g} : task'[f] = task[f]
  BY <1>0 DEF Send!TaskStep, Send!TaskOpen, Send!TaskChunk, Send!TaskEnd, Send!TaskStops,
              Send!TaskFails, Send!TaskEmpties, Send!TaskClears, Send!TaskTo
<1>3. \/ down' = down
      \/ \E kind \in {"chunk", "end", "abort"} : down' = Append(down, Send!Message(kind, g))
  BY DEF Send!TaskStep, Send!TaskOpen, Send!TaskChunk, Send!TaskEnd, Send!TaskStops,
     Send!TaskFails, Send!TaskEmpties, Send!TaskClears, Send!laneVars
<1>u. ASSUME NEW f \in Sends PROVE Behind(up', up, {"accept"}, f)
  BY <1>0, <1>1, <1>k, BehindQueue
<1>4. ASSUME NEW f \in Sends, f # g PROVE Stepwise(f)'
  <2>1. Behind(down', down, Downward, f) /\ At(down', "chunk", f) = At(down, "chunk", f)
    <3>1. CASE down' = down
      BY <1>0, <1>k, <3>1, BehindQueue
    <3>2. ASSUME NEW kind \in Send!Kinds, down' = Append(down, Send!Message(kind, g))
          PROVE  Behind(down', down, Downward, f)
                 /\ At(down', "chunk", f) = At(down, "chunk", f)
      <4>1. Behind(down', down, Downward, f)
        BY <1>0, <1>4, <1>k, <3>2, BehindQueue
      <4>2. At(down', "chunk", f) = At(down, "chunk", f)
        BY <1>0, <1>4, <1>k, <3>2, AtOther
      <4>3. QED
        BY <4>1, <4>2
    <3>3. QED
      BY <1>3, <1>k, <3>1, <3>2
  <2>3. Keeps(f)
    BY <1>0, <1>1, <1>2, <1>4, <1>u, <2>1, WaitsStays DEF Keeps, Send!Receiving
  <2>4. QED
    BY <2>3, KeepsStepwise DEF StepInv
<1>5. Stepwise(g)
  BY DEF StepInv
<1>6. ASSUME Send!TaskChunk(g) PROVE Stepwise(g)'
  <2>1. /\ task[g].at = "stream" /\ task[g].sent < Size
        /\ task' = [task EXCEPT ![g].sent = @ + 1]
        /\ down' = Append(down, Send!Message("chunk", g))
    BY <1>6 DEF Send!TaskChunk, Send!Task
  <2>2. task'[g].at = "stream" /\ task'[g].sent = task[g].sent + 1
    BY <1>0, <2>1 DEF TaskState
  <2>3. /\ At(down', "offer", g) = At(down, "offer", g)
        /\ At(down', "end", g) = At(down, "end", g)
        /\ Cardinality(At(down', "chunk", g)) = Cardinality(At(down, "chunk", g)) + 1
    BY <1>0, <1>k, <2>1, AtAppend, AtOther
  <2>4. ~Unbegun(g) /\ At(down, "end", g) = {}
    BY <1>5, <2>1 DEF Stepwise, NotBegun, EndLast
  <2>5. ~Unbegun(g)'
    BY <1>0, <1>1, <2>3, <2>4, WaitsStays DEF Unbegun
  <2>6. Once(g)'
    BY <1>1, <1>5, <2>3 DEF Stepwise, Once, Send!Receiving
  <2>7. NotBegun(g)' /\ NothingSent(g)' /\ EndLast(g)'
    BY <2>2, <2>3, <2>4, <2>5 DEF NotBegun, NothingSent, EndLast
  <2>8. Counted(g)'
    <3>1. Send!Receiving(g) => active \in Send!Receipts
      BY DEF Send!Receiving, SendInv, Send!TypeOK
    <3>2. Send!Receiving(g) => active.received \in Nat
      BY <1>0, <3>1 DEF Send!Receipts
    <3>3. Cardinality(At(down, "chunk", g)) \in Nat /\ task[g].sent \in Nat
      BY <1>0, AtFinite DEF TaskState
    <3>4. QED
      BY <1>1, <1>5, <2>2, <2>3, <3>2, <3>3 DEF Stepwise, Counted, Send!Receiving
  <2>9. QED
    BY <2>6, <2>7, <2>8 DEF Stepwise
<1>7. ASSUME Send!TaskEnd(g) PROVE Stepwise(g)'
  <2>1. /\ task[g].at = "stream" /\ task[g].sent = Size
        /\ task' = [task EXCEPT ![g].at = "gone"]
        /\ down' = Append(down, Send!Message("end", g))
    BY <1>7 DEF Send!TaskEnd, Send!Task, Send!TaskTo
  <2>2. task'[g].at = "gone" /\ task'[g].sent = Size
    BY <1>0, <2>1 DEF TaskState
  <2>3. /\ At(down', "offer", g) = At(down, "offer", g)
        /\ At(down', "end", g) = At(down, "end", g) \union {Len(down) + 1}
        /\ At(down', "chunk", g) = At(down, "chunk", g)
    BY <1>0, <1>k, <2>1, AtAppend, AtOther
  <2>4. ~Unbegun(g) /\ At(down, "end", g) = {}
    BY <1>5, <2>1 DEF Stepwise, NotBegun, EndLast
  <2>5. ~Unbegun(g)'
    BY <1>0, <1>1, <2>3, <2>4, WaitsStays DEF Unbegun
  <2>6. Once(g)'
    BY <1>1, <1>5, <2>3 DEF Stepwise, Once, Send!Receiving
  <2>7. \A j \in At(down, "chunk", g) : j < Len(down) + 1
    BY <1>0 DEF At
  <2>8. NotBegun(g)' /\ NothingSent(g)' /\ EndLast(g)'
    BY <2>2, <2>3, <2>4, <2>5, <2>7 DEF NotBegun, NothingSent, EndLast
  <2>9. Counted(g)'
    BY <1>1, <1>5, <2>1, <2>2, <2>3 DEF Stepwise, Counted, Send!Receiving
  <2>10. QED
    BY <2>6, <2>8, <2>9 DEF Stepwise
<1>8. ASSUME ~Send!TaskChunk(g), ~Send!TaskEnd(g) PROVE Stepwise(g)'
  <2>1. down' = down \/ down' = Append(down, Send!Message("abort", g))
    BY <1>8 DEF Send!TaskStep, Send!TaskOpen, Send!TaskStops, Send!TaskFails,
                Send!TaskEmpties, Send!TaskClears, Send!laneVars
  <2>2. Behind(down', down, Downward, g) /\ At(down', "chunk", g) = At(down, "chunk", g)
    <3>1. CASE down' = down
      BY <1>0, <1>k, <3>1, BehindQueue
    <3>2. CASE down' = Append(down, Send!Message("abort", g))
      <4>1. "abort" \in Send!Kinds /\ "chunk" \in Send!Kinds
        BY <1>k
      <4>2. Behind(Append(down, Send!Message("abort", g)), down, Downward, g)
        BY <1>0, <1>k, <4>1, BehindQueue
      <4>3. At(Append(down, Send!Message("abort", g)), "chunk", g) = At(down, "chunk", g)
        BY <1>0, <4>1, AtOther
      <4>4. QED
        BY <3>2, <4>2, <4>3
    <3>3. QED
      BY <2>1, <3>1, <3>2
  <2>4. Slackens(g)
    BY <1>0, <1>8 DEF Send!TaskStep, Send!TaskOpen, Send!TaskStops, Send!TaskFails,
       Send!TaskEmpties, Send!TaskClears, Send!TaskTo, Send!Task, Slackens, TaskState
  <2>5. Keeps(g)
    BY <1>0, <1>1, <1>u, <2>2, <2>4, WaitsStays DEF Keeps, Slackens, Send!Receiving
  <2>6. QED
    BY <1>5, <2>5, KeepsStepwise
<1>9. QED
  BY <1>4, <1>6, <1>7, <1>8 DEF StepInv

\* The viewer takes a message that is no news of the send, or its user declines.
LEMMA ViewerKeeps ==
    ASSUME Send!NoneAssumption, SendInv, Send!Viewer, NEW f \in Sends,
           down' = down \/ (down # <<>> /\ down' = Tail(down)),
           Behind(up', up, {"accept"}, f),
           deciding' = f => deciding = f,
           Send!Receiving(f)' =>
              /\ Send!Receiving(f)
              /\ active'.received + Cardinality(At(down', "chunk", f))
                    = active.received + Cardinality(At(down, "chunk", f))
    PROVE  Keeps(f)
<1>1. down \in Seq(Send!Messages) /\ Downward \in SUBSET Send!Kinds
  BY DEF SendInv, Send!TypeOK, Downward, Send!Kinds
<1>2. Behind(down', down, Downward, f)
  <2>1. CASE down' = down
    BY <1>1, <2>1, BehindQueue
  <2>2. CASE down # <<>> /\ down' = Tail(down)
    BY <1>1, <2>2, BehindQueue
  <2>3. QED
    BY <2>1, <2>2
<1>3. task' = task
  BY DEF Send!Viewer, Send!GetOffer, Send!GetAbort, Send!GetChunk, Send!GetEnd, Send!Decide
<1>4. Waits(f)' => Waits(f)
  BY WaitsStays DEF Send!Next
<1>5. QED
  BY <1>2, <1>3, <1>4 DEF Keeps

\* A message is taken: how many chunks of a send are left.
LEMMA ChunksLeft ==
    ASSUME SendInv, NEW kind \in Send!Kinds, NEW g \in Sends, Send!Gets(kind, g),
           NEW f \in Sends
    PROVE  /\ down # <<>> /\ down' = Tail(down)
           /\ Cardinality(At(down, "chunk", f)) \in Nat
           /\ kind # "chunk" \/ g # f =>
                 Cardinality(At(down', "chunk", f)) = Cardinality(At(down, "chunk", f))
           /\ kind = "chunk" /\ g = f =>
                 Cardinality(At(down', "chunk", f)) = Cardinality(At(down, "chunk", f)) - 1
<1>1. /\ down \in Seq(Send!Messages) /\ down # <<>> /\ down' = Tail(down)
      /\ Head(down) = Send!Message(kind, g)
  BY DEF SendInv, Send!TypeOK, Send!Gets
<1>2. Head(down) = Send!Message("chunk", f) <=> kind = "chunk" /\ g = f
  BY <1>1, MessageEqual
<1>3. Cardinality(At(down, "chunk", f)) \in Nat
  BY <1>1, AtFinite
<1>4. QED
  BY <1>1, <1>2, <1>3, AtTail

\* What the viewer says, other than that it accepts, is no news.
LEMMA SaysNoAccept ==
    ASSUME SendInv, NEW g \in Sends, NEW f \in Sends,
           \/ up' = up
           \/ \E kind \in {"decline", "done", "abort"} : Send!Say(kind, g)
    PROVE  Behind(up', up, {"accept"}, f)
<1>1. /\ up \in Seq(Send!Messages) /\ {"accept"} \in SUBSET Send!Kinds
      /\ {"decline", "done", "abort"} \subseteq Send!Kinds
  BY DEF SendInv, Send!TypeOK, Send!Kinds
<1>2. CASE up' = up
  BY <1>1, <1>2, BehindQueue
<1>3. ASSUME NEW kind \in {"decline", "done", "abort"}, Send!Say(kind, g)
      PROVE  Behind(up', up, {"accept"}, f)
  <2>1. up' = Append(up, Send!Message(kind, g)) /\ kind \in Send!Kinds
        /\ kind \notin {"accept"}
    BY <1>1, <1>3 DEF Send!Say
  <2>2. Behind(Append(up, Send!Message(kind, g)), up, {"accept"}, f)
    BY <1>1, <2>1, BehindQueue
  <2>3. QED
    BY <2>1, <2>2
<1>4. QED
  BY <1>2, <1>3

\* An offer is put before the user: it was the send's only one.
LEMMA GetOfferStepwise ==
    ASSUME Send!NoneAssumption, SendInv, SendInv', BusyInv, StepInv,
           NEW g \in Sends, Send!GetOffer(g)
    PROVE  StepInv'
<1>0. /\ Send!Viewer /\ "offer" \in Send!Kinds /\ "offer" # "chunk"
      /\ down \in Seq(Send!Messages) /\ None \notin Sends
  BY DEF Send!Viewer, Send!Kinds, SendInv, Send!TypeOK, Send!NoneAssumption
<1>1. /\ Send!Gets("offer", g)
      /\ UNCHANGED <<task, active>>
      /\ up' = up \/ \E kind \in {"decline", "done", "abort"} : Send!Say(kind, g)
  BY DEF Send!GetOffer
<1>2. ASSUME NEW f \in Sends, deciding' = f => deciding = f PROVE Stepwise(f)'
  <2>1. /\ down # <<>> /\ down' = Tail(down)
        /\ Cardinality(At(down', "chunk", f)) = Cardinality(At(down, "chunk", f))
    BY <1>0, <1>1, ChunksLeft
  <2>2. Behind(up', up, {"accept"}, f)
    BY <1>1, SaysNoAccept
  <2>3. Keeps(f)
    BY <1>0, <1>1, <1>2, <2>1, <2>2, ViewerKeeps DEF Send!Receiving
  <2>4. QED
    BY <2>3, KeepsStepwise DEF StepInv
<1>3. CASE active # None \/ deciding # None
  <2>1. deciding' = deciding
    BY <1>3 DEF Send!GetOffer
  <2>2. QED
    BY <1>2, <2>1 DEF StepInv
<1>4. CASE active = None /\ deciding = None
  <2>1. deciding' = g /\ up' = up
    BY <1>4 DEF Send!GetOffer
  <2>2. /\ down # <<>> /\ down' = Tail(down) /\ Head(down) = Send!Message("offer", g)
    BY <1>1 DEF Send!Gets
  <2>3. /\ 1 \in At(down, "offer", g)
        /\ \A kind \in Downward : \A i \in At(down', kind, g) :
              i \in Nat \ {0} /\ i + 1 \in At(down, kind, g)
    BY <1>0, <2>2, AtTail DEF At
  <2>4. Stepwise(g)
    BY DEF StepInv
  <2>5. At(down', "offer", g) = {}
    <3>1. ASSUME NEW i \in At(down', "offer", g) PROVE FALSE
      <4>1. i + 1 = 1 /\ i \in Nat \ {0}
        BY <2>3, <2>4 DEF Stepwise, Once, Downward
      <4>2. QED
        BY <4>1
    <3>2. QED
      BY <3>1
  <2>6. /\ At(up, "accept", g) = {} /\ ~Send!Receiving(g) /\ task[g].at = "none"
        /\ task[g].sent = 0 /\ At(down, "chunk", g) = {} /\ At(down, "end", g) = {}
    BY <2>3, <2>4 DEF Stepwise, Once, NotBegun, Unbegun, NothingSent, EndLast
  <2>7. At(down', "chunk", g) = {} /\ At(down', "end", g) = {}
    BY <2>3, <2>6 DEF Downward
  <2>8. ~Send!Receiving(g)'
    BY <1>1, <2>6 DEF Send!Receiving
  <2>9. Stepwise(g)'
    BY <1>1, <2>1, <2>5, <2>6, <2>7, <2>8
       DEF Stepwise, Once, NotBegun, NothingSent, EndLast, Counted
  <2>10. QED
    BY <1>2, <2>1, <2>9 DEF StepInv
<1>5. QED
  BY <1>3, <1>4

\* The user accepts: nothing of the file was sent yet, and nothing is written.
LEMMA DecideStepwise ==
    ASSUME Send!NoneAssumption, SendInv, SendInv', BusyInv, StepInv,
           NEW accept \in BOOLEAN, Send!Decide(accept)
    PROVE  StepInv'
<1>0. /\ Send!Viewer /\ up \in Seq(Send!Messages) /\ None \notin Sends
      /\ deciding \in Sends \union {None}
      /\ {"accept"} \in SUBSET Send!Kinds /\ "accept" \in Send!Kinds
  BY DEF Send!Viewer, Send!Kinds, SendInv, Send!TypeOK, Send!NoneAssumption
<1>1. PICK g \in Sends : g = deciding
  BY <1>0 DEF Send!Decide
<1>2. UNCHANGED <<down, task>> /\ deciding' = None
  BY DEF Send!Decide
<1>3. CASE ~accept
  <2>1. active' = active /\ Send!Say("decline", g)
    BY <1>1, <1>3 DEF Send!Decide
  <2>2. ASSUME NEW f \in Sends PROVE Keeps(f)
    <3>1. Behind(up', up, {"accept"}, f)
      BY <2>1, SaysNoAccept
    <3>2. QED
      BY <1>0, <1>2, <2>1, <3>1, ViewerKeeps DEF Send!Receiving
  <2>3. QED
    BY <2>2, KeepsStepwise DEF StepInv
<1>4. CASE accept
  <2>1. active' = [id |-> g, received |-> 0] /\ up' = Append(up, Send!Message("accept", g))
    BY <1>1, <1>4 DEF Send!Decide, Send!Say
  <2>2. ASSUME NEW f \in Sends, f # g PROVE Stepwise(f)'
    <3>1. Behind(Append(up, Send!Message("accept", g)), up, {"accept"}, f)
      BY <1>0, <2>2, BehindQueue
    <3>2. ~Send!Receiving(f)'
      BY <2>1, <2>2 DEF Send!Receiving
    <3>3. Keeps(f)
      BY <1>0, <1>2, <2>1, <3>1, <3>2, ViewerKeeps
    <3>4. QED
      BY <3>3, KeepsStepwise DEF StepInv
  <2>3. Stepwise(g)'
    <3>1. Stepwise(g)
      BY DEF StepInv
    <3>2. /\ At(down, "offer", g) = {} /\ At(up, "accept", g) = {}
          /\ task[g].at = "none" /\ task[g].sent = 0
          /\ At(down, "chunk", g) = {} /\ At(down, "end", g) = {}
      BY <1>1, <3>1 DEF Stepwise, Once, NotBegun, Unbegun, NothingSent, EndLast
    <3>3. \A i, j \in At(up', "accept", g) : i = j
      BY <1>0, <2>1, <3>2, AtAppend
    <3>4. deciding' # g
      BY <1>0, <1>2
    <3>5. Once(g)' /\ NotBegun(g)' /\ NothingSent(g)' /\ EndLast(g)'
      BY <1>2, <3>2, <3>3, <3>4 DEF Once, NotBegun, NothingSent, EndLast
    <3>6. Cardinality(At(down', "chunk", g)) = 0 /\ active'.received = 0
      BY <1>2, <2>1, <3>2, FS_EmptySet
    <3>7. Counted(g)'
      BY <1>2, <3>2, <3>6 DEF Counted
    <3>8. QED
      BY <3>5, <3>7 DEF Stepwise
  <2>4. QED
    BY <2>2, <2>3 DEF StepInv
<1>5. QED
  BY <1>3, <1>4

\* The viewer writes a chunk, ends a file or gives it up.
LEMMA GetStepwise ==
    ASSUME Send!SizeAssumption, Send!NoneAssumption, SendInv, SendInv', BusyInv, StepInv,
           NEW g \in Sends, NEW ok \in BOOLEAN,
           Send!GetChunk(g, ok) \/ Send!GetEnd(g, ok) \/ Send!GetAbort(g)
    PROVE  StepInv'
<1>0. /\ Send!Viewer /\ {"chunk", "end", "abort"} \subseteq Send!Kinds
      /\ active \in Send!Receipts \union {None} /\ Size \in Nat
  BY DEF Send!Viewer, Send!Kinds, SendInv, Send!TypeOK, Send!SizeAssumption
<1>1. /\ deciding' = deciding
      /\ up' = up \/ \E kind \in {"decline", "done", "abort"} : Send!Say(kind, g)
  BY DEF Send!GetChunk, Send!GetEnd, Send!GetAbort
<1>2. ASSUME NEW f \in Sends,
             down # <<>> /\ down' = Tail(down),
             Send!Receiving(f)' =>
                /\ Send!Receiving(f)
                /\ active'.received + Cardinality(At(down', "chunk", f))
                      = active.received + Cardinality(At(down, "chunk", f))
      PROVE  Stepwise(f)'
  <2>1. Behind(up', up, {"accept"}, f)
    BY <1>1, SaysNoAccept
  <2>2. Keeps(f)
    BY <1>0, <1>1, <1>2, <2>1, ViewerKeeps
  <2>3. QED
    BY <2>2, KeepsStepwise DEF StepInv
<1>3. ASSUME Send!GetEnd(g, ok) \/ Send!GetAbort(g), NEW f \in Sends PROVE Stepwise(f)'
  <2>1. active' \in {active, None} /\ \E kind \in {"end", "abort"} : Send!Gets(kind, g)
    BY <1>3 DEF Send!GetEnd, Send!GetAbort
  <2>2. /\ down # <<>> /\ down' = Tail(down)
        /\ Cardinality(At(down', "chunk", f)) = Cardinality(At(down, "chunk", f))
    BY <1>0, <2>1, ChunksLeft
  <2>3. QED
    BY <1>2, <2>1, <2>2 DEF Send!Receiving
<1>4. ASSUME Send!GetChunk(g, ok), NEW f \in Sends PROVE Stepwise(f)'
  <2>1. /\ Send!Gets("chunk", g)
        /\ IF ~Send!Receiving(g) THEN active' = active
           ELSE \/ active' = None
                \/ active' = [active EXCEPT !.received = @ + 1]
    BY <1>4 DEF Send!GetChunk
  <2>2. /\ down # <<>> /\ down' = Tail(down)
        /\ Cardinality(At(down, "chunk", f)) \in Nat
        /\ g # f => Cardinality(At(down', "chunk", f)) = Cardinality(At(down, "chunk", f))
        /\ g = f => Cardinality(At(down', "chunk", f)) = Cardinality(At(down, "chunk", f)) - 1
    BY <1>0, <2>1, ChunksLeft
  <2>3. CASE ~Send!Receiving(g)
    BY <1>2, <2>1, <2>2, <2>3 DEF Send!Receiving
  <2>4. CASE Send!Receiving(g) /\ active' = None
    BY <1>2, <2>2, <2>4 DEF Send!Receiving
  <2>5. CASE Send!Receiving(g) /\ active' = [active EXCEPT !.received = @ + 1]
    <3>1. active \in Send!Receipts /\ active.id = g
      BY <1>0, <2>5 DEF Send!Receiving
    <3>2. /\ active'.id = g /\ active'.received = active.received + 1
          /\ active.received \in Nat
      BY <1>0, <2>5, <3>1 DEF Send!Receipts
    <3>3. CASE f # g
      BY <1>2, <2>2, <3>2, <3>3 DEF Send!Receiving
    <3>4. CASE f = g
      <4>1. active'.received + Cardinality(At(down', "chunk", f))
               = active.received + Cardinality(At(down, "chunk", f))
        BY <2>2, <3>2, <3>4
      <4>2. QED
        BY <1>2, <2>2, <2>5, <3>4, <4>1
    <3>5. QED
      BY <3>3, <3>4
  <2>6. QED
    BY <2>1, <2>3, <2>4, <2>5
<1>5. QED
  BY <1>3, <1>4 DEF StepInv

LEMMA StepSteps ==
    ASSUME Send!SizeAssumption, Send!NoneAssumption,
           SendInv, SendInv', BusyInv, StepInv, [Send!Next]_(Send!vars)
    PROVE  StepInv'
<1>1. CASE UNCHANGED Send!vars
  <2>1. UNCHANGED <<panel, cmds, fresh, task, down, up, deciding, active>>
    BY <1>1 DEF Send!vars, Send!panelVars, Send!laneVars, Send!viewerVars
  <2>2. up \in Seq(Send!Messages) /\ {"accept"} \in SUBSET Send!Kinds
    BY DEF SendInv, Send!TypeOK, Send!Kinds
  <2>3. ASSUME NEW f \in Sends PROVE Keeps(f)
    <3>1. Behind(up', up, {"accept"}, f) /\ Slackens(f)
      BY <2>1, <2>2, BehindQueue DEF Slackens
    <3>2. QED
      BY <2>1, <3>1, KeepsQuietly
  <2>4. QED
    BY <2>3, KeepsStepwise DEF StepInv
<1>2. CASE Send!Viewer
  BY <1>2, GetOfferStepwise, DecideStepwise, GetStepwise DEF Send!Viewer
<1>3. QED
  BY <1>1, <1>2, SendSteps, HostStepwise, PumpStepwise, TaskStepwise

LEMMA StepInit ==
    ASSUME Send!NoneAssumption, Send!Init
    PROVE  StepInv
<1>1. /\ down = <<>> /\ up = <<>> /\ active = None /\ None \notin Sends
      /\ deciding = None
      /\ \A f \in Sends : task[f].at = "none" /\ task[f].sent = 0
  BY DEF Send!Init, Send!NoneAssumption
<1>2. \A kind, f : At(down, kind, f) = {} /\ At(up, kind, f) = {}
  BY <1>1 DEF At
<1>3. QED
  BY <1>1, <1>2 DEF StepInv, Stepwise, Once, NotBegun, NothingSent, EndLast, Counted,
                    Send!Receiving

\* OutboundSend counts as this module does.
LEMMA SameCardinality ==
    ASSUME NEW S PROVE Send!Cardinality(S) = Cardinality(S)
  BY DEF Send!Cardinality, Cardinality

\* Nothing of the file the viewer receives is lost on the way: what its task has
\* sent is written or queued, for any sends and sizes and every capacity of the
\* queue, however the sends supersede each other and their tasks stop or fail;
\* and when the end is read the viewer has every chunk.
THEOREM ChunksStayInStep ==
    ASSUME Send!SizeAssumption, Send!LaneCapAssumption, Send!NoneAssumption
    PROVE  Send!Spec => []Send!ChunksInStep
<1>1. Send!Init => BusyInv /\ StepInv
  BY BusyInit, StepInit
<1>2. SendInv /\ SendInv' /\ BusyInv /\ StepInv /\ [Send!Next]_(Send!vars)
         => BusyInv' /\ StepInv'
  BY BusySteps, StepSteps
<1>3. StepInv => Send!ChunksInStep
  <2>1. SUFFICES ASSUME StepInv, NEW f \in Sends, Send!Receiving(f)
                 PROVE  /\ active.received + Cardinality(Send!Waiting("chunk", f))
                              = task[f].sent
                        /\ \A i \in Send!Waiting("end", f) :
                              /\ task[f].sent = Size
                              /\ \A j \in Send!Waiting("chunk", f) : j < i
    BY SameCardinality DEF Send!ChunksInStep
  <2>2. Counted(f) /\ EndLast(f)
    BY <2>1 DEF StepInv, Stepwise
  <2>3. \A kind : Send!Waiting(kind, f) = At(down, kind, f)
    BY DEF Send!Waiting, At
  <2>4. QED
    BY <2>1, <2>2, <2>3 DEF Counted, EndLast
<1>4. QED
  BY <1>1, <1>2, <1>3, SendInvariant, PTL DEF Send!Spec
=============================================================================
