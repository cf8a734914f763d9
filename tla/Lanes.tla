-------------------------------- MODULE Lanes --------------------------------
(***************************************************************************)
(* A session over QUIC, from the host's writer to the viewer's recv.       *)
(*                                                                         *)
(* Control messages share one stream, audio blocks another one, and each   *)
(* video frame has a stream of its own; the streams arrive independently.  *)
(* The viewer's demux task reads the control stream and accepts the other  *)
(* streams, whichever comes first; a task per accepted stream reads it     *)
(* out.  All of them feed one bounded queue of envelopes, from which recv  *)
(* takes, opens and checks them against the counter of their channel.      *)
(*                                                                         *)
(* demux drops the read of a control frame when a stream is accepted in    *)
(* the middle of it.  What that read had consumed is gone, and from there  *)
(* on the stream is read out of step.  An audio stream fails only when its *)
(* reader is gone, and is not reopened while its viewer listens.           *)
(***************************************************************************)
EXTENDS Naturals, Sequences, FiniteSets

CONSTANTS
    Capacity,   \* envelopes the viewer's queue holds
    MaxSent,    \* bound: envelopes sent on each channel
    Garbage     \* what a read out of step yields

ASSUME CapacityAssumption == Capacity \in Nat \ {0}
Channel == {"control", "audio", "video"}
Envelope == [chan : Channel, counter : Nat]

ASSUME MaxSentAssumption == MaxSent \in [Channel -> Nat]
ASSUME GarbageAssumption == Garbage \notin Envelope

VARIABLES
    counters,  \* Sealer: the next envelope of each channel
    control,   \* the control stream: what the viewer has yet to read
    half,      \* a part of its first frame is read
    garbled,   \*   and was dropped
    audio,     \* the audio stream: what the viewer has yet to read
    opened,    \* streams the host opened and demux has yet to accept
    reading,   \* streams a task reads
    demux,     \* the demux task: in its select, with an envelope to forward, or gone
    inbound,   \* the queue of envelopes
    expected,  \* Opener: the next envelope of each channel
    viewer,    \* recv goes on, or has ended with an error or a closed connection
    lost,      \* the connection is lost
    got        \* history: what recv returned on each channel

wire == <<control, half, garbled, audio, opened, reading, demux, inbound>>
app == <<expected, viewer, got>>
vars == <<counters, wire, app, lost>>

\* A stream is known by its first envelope; the audio stream by its channel.
AudioLane == [chan |-> "audio", counter |-> 0]

-----------------------------------------------------------------------------
\* The host's writer.

Seal(chan) ==
    /\ ~lost
    /\ counters[chan] < MaxSent[chan]
    /\ counters' = [counters EXCEPT ![chan] = @ + 1]

Sealed(chan) == [chan |-> chan, counter |-> counters[chan]]

\* Mutant: a control message has a stream of its own, like a frame.
FaultySendControl ==
    /\ Seal("control")
    /\ opened' = Append(opened, Sealed("control"))
    /\ UNCHANGED <<control, half, garbled, audio, reading, demux, inbound, app, lost>>

SendControl ==
    /\ Seal("control")
    /\ control' = Append(control, Sealed("control"))
    /\ UNCHANGED <<half, garbled, audio, opened, reading, demux, inbound, app, lost>>

\* The stream is opened with the first block.
SendAudio ==
    /\ Seal("audio")
    /\ audio' = Append(audio, Sealed("audio"))
    /\ opened' = IF counters["audio"] = 0 THEN Append(opened, AudioLane) ELSE opened
    /\ UNCHANGED <<control, half, garbled, reading, demux, inbound, app, lost>>

SendVideo ==
    /\ Seal("video")
    /\ opened' = Append(opened, Sealed("video"))
    /\ UNCHANGED <<control, half, garbled, audio, reading, demux, inbound, app, lost>>

-----------------------------------------------------------------------------
\* The viewer's tasks.

HasRoom == Len(inbound) < Capacity

Holding(envelopes) == [forwards |-> envelopes, alive |-> TRUE]
Selecting == Holding(<<>>)
Gone == [forwards |-> <<>>, alive |-> FALSE]
InSelect == demux = Selecting

\* A part of a control frame arrives and is read.
ReadPart ==
    /\ InSelect /\ ~half /\ ~garbled /\ control # <<>>
    /\ half' = TRUE
    /\ UNCHANGED <<counters, control, garbled, audio, opened, reading, demux,
                   inbound, app, lost>>

\* Mutant: a control frame is dropped when the queue is full.
FaultyReadControl ==
    /\ InSelect /\ ~garbled /\ control # <<>>
    /\ half' = FALSE
    /\ demux' = Holding(IF HasRoom THEN <<Head(control)>> ELSE <<>>)
    /\ control' = Tail(control)
    /\ UNCHANGED <<counters, garbled, audio, opened, reading, inbound, app, lost>>

\* The frame is complete: the select ends with it.
ReadControl ==
    /\ InSelect /\ ~garbled /\ control # <<>>
    /\ half' = FALSE
    /\ demux' = Holding(<<Head(control)>>)
    /\ control' = Tail(control)
    /\ UNCHANGED <<counters, garbled, audio, opened, reading, inbound, app, lost>>

\* Out of step, the bytes of a frame are taken for the header of another one:
\* a frame of an unknown type, one beyond the cap, or an envelope that is none;
\* or the task waits for more bytes than there are, which is no step.
ReadOutOfStep ==
    /\ InSelect /\ garbled
    /\ demux' \in {Gone, Holding(<<Garbage>>)}
    /\ UNCHANGED <<counters, control, half, garbled, audio, opened, reading,
                   inbound, app, lost>>

\* The arm of the select that has a control envelope waits for room.
ForwardControl ==
    /\ demux.forwards # <<>> /\ HasRoom
    /\ inbound' = inbound \o demux.forwards
    /\ demux' = Selecting
    /\ UNCHANGED <<counters, control, half, garbled, audio, opened, reading, app, lost>>

\* The other arm: a stream is accepted, in the order of their opening, and the
\* read of the control stream is dropped.
AcceptUni ==
    /\ InSelect /\ opened # <<>>
    /\ reading' = reading \union {Head(opened)}
    /\ opened' = Tail(opened)
    /\ garbled' = (garbled \/ half)
    /\ half' = FALSE
    /\ UNCHANGED <<counters, control, audio, demux, inbound, app, lost>>

\* A video stream is complete; they complete in any order.
ReadVideo(stream) ==
    /\ stream \in reading /\ stream.chan # "audio" /\ HasRoom
    /\ inbound' = Append(inbound, stream)
    /\ reading' = reading \ {stream}
    /\ UNCHANGED <<counters, control, half, garbled, audio, opened, demux, app, lost>>

\* Mutant: a block is dropped when the queue is full.
FaultyReadAudio ==
    /\ AudioLane \in reading /\ audio # <<>>
    /\ inbound' = IF HasRoom THEN Append(inbound, Head(audio)) ELSE inbound
    /\ audio' = Tail(audio)
    /\ UNCHANGED <<counters, control, half, garbled, opened, reading, demux, app, lost>>

\* The next block of the audio stream.
ReadAudio ==
    /\ AudioLane \in reading /\ audio # <<>> /\ HasRoom
    /\ inbound' = Append(inbound, Head(audio))
    /\ audio' = Tail(audio)
    /\ UNCHANGED <<counters, control, half, garbled, opened, reading, demux, app, lost>>

\* Opener: the counter of a channel never goes back.
Replay(e) == e.counter < expected[e.chan]

\* Mutant: an overtaken frame is an error like any other.
FaultyOvertaken(e) == FALSE

\* A video frame that a newer one overtook.
Overtaken(e) == e.chan = "video" /\ Replay(e)

\* recv: an envelope that cannot be opened or that comes late ends the session,
\* except for an overtaken video frame.
Recv ==
    /\ viewer = "on" /\ inbound # <<>>
    /\ inbound' = Tail(inbound)
    /\ LET e == Head(inbound)
       IN  \/ /\ e = Garbage
              /\ viewer' = "error"
              /\ UNCHANGED <<expected, got>>
           \/ /\ e # Garbage
              /\ Overtaken(e)
              /\ UNCHANGED app
           \/ /\ e # Garbage
              /\ ~Overtaken(e)
              /\ IF Replay(e)
                 THEN viewer' = "error" /\ UNCHANGED <<expected, got>>
                 ELSE /\ expected' = [expected EXCEPT ![e.chan] = e.counter + 1]
                      /\ got' = [got EXCEPT ![e.chan] = Append(@, e.counter)]
                      /\ UNCHANGED viewer
    /\ UNCHANGED <<counters, control, half, garbled, audio, opened, reading, demux, lost>>

\* The queue is closed when no task is left to fill it.
RecvClosed ==
    /\ viewer = "on" /\ inbound = <<>> /\ demux = Gone /\ reading = {}
    /\ viewer' = "closed"
    /\ UNCHANGED <<counters, wire, expected, got, lost>>

\* The connection is lost: all streams fail, and the tasks that read them end.
Lose ==
    /\ ~lost
    /\ lost' = TRUE
    /\ control' = <<>> /\ audio' = <<>> /\ opened' = <<>> /\ reading' = {}
    /\ half' = FALSE
    /\ demux' = Gone
    /\ UNCHANGED <<counters, garbled, inbound, app>>

-----------------------------------------------------------------------------
Init ==
    /\ counters = [c \in Channel |-> 0]
    /\ control = <<>> /\ half = FALSE /\ garbled = FALSE
    /\ audio = <<>>
    /\ opened = <<>> /\ reading = {}
    /\ demux = Selecting
    /\ inbound = <<>>
    /\ expected = [c \in Channel |-> 0]
    /\ viewer = "on"
    /\ lost = FALSE
    /\ got = [c \in Channel |-> <<>>]

Next ==
    \/ SendControl \/ SendAudio \/ SendVideo
    \/ ReadPart \/ ReadControl \/ ReadOutOfStep \/ ForwardControl \/ AcceptUni
    \/ \E stream \in reading : ReadVideo(stream)
    \/ ReadAudio \/ Recv \/ RecvClosed \/ Lose

\* recv is called again and again, the queue serves waiting tasks in turn, and
\* the select picks at random among what is ready.
Fairness ==
    /\ WF_vars(Recv) /\ WF_vars(RecvClosed)
    /\ SF_vars(ReadControl) /\ SF_vars(AcceptUni)
    /\ SF_vars(ForwardControl) /\ SF_vars(ReadAudio)
    /\ SF_vars(\E stream \in reading : ReadVideo(stream))

Spec == Init /\ [][Next]_vars /\ Fairness

-----------------------------------------------------------------------------
TypeOK ==
    /\ counters \in [Channel -> Nat]
    /\ control \in Seq(Envelope) /\ audio \in Seq(Envelope)
    /\ half \in BOOLEAN /\ garbled \in BOOLEAN
    /\ opened \in Seq(Envelope)
    /\ reading \subseteq Envelope
    /\ demux \in [forwards : Seq(Envelope \union {Garbage}), alive : BOOLEAN]
    /\ inbound \in Seq(Envelope \union {Garbage})
    /\ Len(inbound) <= Capacity
    /\ expected \in [Channel -> Nat]
    /\ viewer \in {"on", "error", "closed"}
    /\ lost \in BOOLEAN
    /\ got \in [Channel -> Seq(Nat)]

\* However the streams interleave, what the viewer gets on the control and the
\* audio channel is what the host sent, in its order and without a gap.
OrderedLanes ==
    \A c \in {"control", "audio"} :
        \A i \in DOMAIN got[c] : got[c][i] = i - 1

\* Reordering never ends a session: a viewer gives up only when the connection
\* is lost, or when the read of a control frame was dropped half-way.
EndsExplained ==
    /\ viewer = "error" => garbled
    /\ viewer = "closed" => lost \/ garbled

\* The envelope is in a stream, in the hand of demux, or in the queue.
Holds(queue, e) == \E i \in 1..Len(queue) : queue[i] = e
OnItsWay(e) ==
    \/ Holds(control, e) \/ Holds(audio, e)
    \/ Holds(demux.forwards, e) \/ Holds(inbound, e)

\* No task drops a control message or an audio block between the streams and
\* recv: what was sent is received or still held by one of them, unless the
\* connection is lost or the control stream is read out of step.
NothingDropped ==
    \A c \in {"control", "audio"} :
        lost \/ (c = "control" /\ garbled) \/
        \A n \in 0..(counters[c] - 1) :
            n < Len(got[c]) \/ OnItsWay([chan |-> c, counter |-> n])

\* Every control message the host sends is received, however many frames crowd
\* the queue, unless the connection is lost or its stream read out of step.
ControlArrives ==
    \A n \in 1..MaxSent["control"] :
        counters["control"] >= n ~> (Len(got["control"]) >= n \/ lost \/ garbled)
=============================================================================
