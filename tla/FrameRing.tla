------------------------------- MODULE FrameRing -------------------------------
(***************************************************************************)
(* The ring of frame slots the display driver and the capture thread share *)
(* in memory, and the event between them: one virtual monitor of the       *)
(* driver, with its swap chain and committed mode, and one reader.         *)
(*                                                                         *)
(* Neither side locks.  A slot's sequence number is odd while the driver   *)
(* writes it; the reader compares the number before and after it copied.   *)
(* The reads and writes of the shared memory are steps of their own, in    *)
(* program order (as x64 performs them), but that a payload is copied in   *)
(* two halves, and that pitch and number, which nothing comes between that *)
(* matters, are one step.                                                  *)
(***************************************************************************)
EXTENDS Naturals

CONSTANTS
    Slots,      \* NDSP_RING_SLOTS
    Sizes,      \* the modes, told apart by their width
    MaxFrames,  \* bound: frames published in a behaviour
    None        \* no slot, no swap chain, nothing shown

ASSUME SlotsAssumption == Slots \in Nat /\ Slots >= 2
ASSUME SizesAssumption == Sizes \subseteq Nat \ {0} /\ Sizes # {}
ASSUME MaxFramesAssumption == MaxFrames \in Nat

\* A frame, as its rows show it; what the reader copies of one; what it hands on.
Frames == [id : Nat, width : Nat, number : Nat]
Copies == [width : Nat, pitch : Nat, number : Nat, top : Frames, bottom : Frames]
Handed == [copy : Copies, tag : Sizes]

ASSUME NoneAssumption == None \notin Nat \union Handed

Slot == 0 .. Slots - 1
Tries == 3

VARIABLES
    ring,     \* the slots: SlotHeader and payload
    latest,   \* RingHeader.latest_slot
    event,    \* the frame event, auto-reset
    mode,     \* RingHeader's current mode
    chain,    \* size of the assigned swap chain's surfaces
    count,    \* FrameRing::m_frameNumber
    writer,   \* the driver: [at, slot, frame]
    reader,   \* the capture thread: [at, slot, seq, tries]
    got,      \* what the reader copied so far
    last,     \* last_frame_number
    shown,    \* the frame the reader handed on last
    \* History, read by the properties only:
    made,     \* frames published so far: the next one's identity
    presented \* the chain gave a frame of the committed mode

memory == <<ring, latest, event, mode>>
driverVars == <<chain, count, writer, made, presented>>
readerVars == <<reader, got, last, shown>>
vars == <<memory, driverVars, readerVars>>

\* Memory before any frame, and the reader at rest.
Zero == [id |-> 0, width |-> 0, number |-> 0]
Nothing == [width |-> 0, pitch |-> 0, number |-> 0, top |-> Zero, bottom |-> Zero]
Resting == [at |-> "wait", slot |-> 0, seq |-> 0, tries |-> 0]

(***************************************************************************)
(* The driver.                                                             *)
(***************************************************************************)
\* The OS commits a mode for the monitor.
Commit(size) ==
    /\ size # mode
    /\ mode' = size
    /\ presented' = FALSE
    /\ UNCHANGED <<ring, latest, event, chain, count, writer, made, readerVars>>

\* A swap chain is assigned; the one before it is stopped first, which waits
\* for its thread.
Assign ==
    /\ writer.at = "idle"
    /\ chain' = mode
    /\ presented' = FALSE
    /\ UNCHANGED <<memory, count, writer, made, readerVars>>

Unassign ==
    /\ writer.at = "idle"
    /\ chain # None
    /\ chain' = None
    /\ UNCHANGED <<memory, count, writer, made, presented, readerVars>>

Moves(at) == writer' = [writer EXCEPT !.at = at]

\* A frame is acquired and staged, and the next slot marked: its number is odd.
Begin ==
    /\ writer.at = "idle"
    /\ chain # None
    /\ made < MaxFrames
    /\ LET s == IF latest = None THEN 0 ELSE (latest + 1) % Slots IN
       /\ ring' = [ring EXCEPT ![s].seq = @ + 1]
       /\ writer' = [at |-> "top", slot |-> s,
                     frame |-> [id |-> made + 1, width |-> chain, number |-> count + 1]]
    /\ made' = made + 1
    /\ presented' = (chain = mode)
    /\ UNCHANGED <<latest, event, mode, chain, count, readerVars>>

\* The rows are copied.
WriteTop ==
    /\ writer.at = "top"
    /\ Moves("bottom")
    /\ ring' = [ring EXCEPT ![writer.slot].top = writer.frame]
    /\ UNCHANGED <<latest, event, mode, chain, count, made, presented, readerVars>>

WriteBottom ==
    /\ writer.at = "bottom"
    /\ Moves("width")
    /\ ring' = [ring EXCEPT ![writer.slot].bottom = writer.frame]
    /\ UNCHANGED <<latest, event, mode, chain, count, made, presented, readerVars>>

\* Then the slot's header is written, field by field.
WriteWidth ==
    /\ writer.at = "width"
    /\ Moves("pitch")
    /\ ring' = [ring EXCEPT ![writer.slot].width = writer.frame.width]
    /\ UNCHANGED <<latest, event, mode, chain, count, made, presented, readerVars>>

WritePitch ==
    /\ writer.at = "pitch"
    /\ Moves("close")
    /\ ring' = [ring EXCEPT ![writer.slot].pitch = writer.frame.width,
                            ![writer.slot].number = writer.frame.number]
    /\ count' = writer.frame.number
    /\ UNCHANGED <<latest, event, mode, chain, made, presented, readerVars>>

\* The number is even again.
Close ==
    /\ writer.at = "close"
    /\ Moves("point")
    /\ ring' = [ring EXCEPT ![writer.slot].seq = @ + 1]
    /\ UNCHANGED <<latest, event, mode, chain, count, made, presented, readerVars>>

\* Faulty variants, here and below, are named "Faulty..." and are no part of
\* the specification: each shows that a property would notice such a bug.
\* The event is set and the slot never named.
FaultyPoint ==
    /\ writer.at = "point"
    /\ Moves("signal")
    /\ UNCHANGED <<memory, chain, count, made, presented, readerVars>>

Point ==
    /\ writer.at = "point"
    /\ Moves("signal")
    /\ latest' = writer.slot
    /\ UNCHANGED <<ring, event, mode, chain, count, made, presented, readerVars>>

Signal ==
    /\ writer.at = "signal"
    /\ Moves("idle")
    /\ event' = TRUE
    /\ UNCHANGED <<ring, latest, mode, chain, count, made, presented, readerVars>>

\* The device is restarted and plugs its monitor in again.  The capture thread
\* holds the mapping, so that the memory is the old one: Initialize begins the
\* numbering anew and leaves the slots as they are.
Restart ==
    /\ writer.at = "idle"
    /\ chain' = None
    /\ count' = 0
    /\ latest' = None
    /\ presented' = FALSE
    /\ UNCHANGED <<ring, event, mode, writer, made, readerVars>>

(***************************************************************************)
(* The capture thread: WindowsIddSource::next_frame.                       *)
(***************************************************************************)
Reads(at) == reader' = [reader EXCEPT !.at = at]

Rests == reader' = Resting /\ got' = Nothing

Wake ==
    /\ reader.at = "wait"
    /\ event
    /\ event' = FALSE
    /\ Reads("latest")
    /\ UNCHANGED <<ring, latest, mode, driverVars, got, last, shown>>

ReadLatest ==
    /\ reader.at = "latest"
    /\ reader' = IF latest = None THEN Resting
                 ELSE [at |-> "seq", slot |-> latest, seq |-> 0, tries |-> 0]
    /\ UNCHANGED <<memory, driverVars, got, last, shown>>

\* A try too many.
FaultyRetry ==
    /\ reader' = IF reader.tries < Tries
                 THEN [reader EXCEPT !.at = "seq", !.seq = 0, !.tries = @ + 1]
                 ELSE Resting
    /\ got' = Nothing

\* A torn or unfinished slot is tried again, three times in all.
Retry ==
    /\ reader' = IF reader.tries + 1 < Tries
                 THEN [reader EXCEPT !.at = "seq", !.seq = 0, !.tries = @ + 1]
                 ELSE Resting
    /\ got' = Nothing

\* An odd number is not noticed.
FaultyReadSeq ==
    /\ reader.at = "seq"
    /\ reader' = [reader EXCEPT !.at = "width", !.seq = ring[reader.slot].seq]
    /\ UNCHANGED <<memory, driverVars, got, last, shown>>

ReadSeq ==
    /\ reader.at = "seq"
    /\ IF ring[reader.slot].seq % 2 = 1 THEN Retry
       ELSE /\ reader' = [reader EXCEPT !.at = "width", !.seq = ring[reader.slot].seq]
            /\ UNCHANGED got
    /\ UNCHANGED <<memory, driverVars, last, shown>>

ReadWidth ==
    /\ reader.at = "width"
    /\ Reads("pitch")
    /\ got' = [got EXCEPT !.width = ring[reader.slot].width]
    /\ UNCHANGED <<memory, driverVars, last, shown>>

\* A number seen before is a duplicate wakeup; a pitch below the width is
\* refused as implausible.
ReadPitch ==
    /\ reader.at = "pitch"
    /\ IF ring[reader.slot].number = last THEN Rests
       ELSE IF ring[reader.slot].pitch < got.width THEN Reads("error") /\ got' = Nothing
       ELSE /\ Reads("top")
            /\ got' = [got EXCEPT !.pitch = ring[reader.slot].pitch,
                                  !.number = ring[reader.slot].number]
    /\ UNCHANGED <<memory, driverVars, last, shown>>

ReadTop ==
    /\ reader.at = "top"
    /\ Reads("bottom")
    /\ got' = [got EXCEPT !.top = ring[reader.slot].top]
    /\ UNCHANGED <<memory, driverVars, last, shown>>

ReadBottom ==
    /\ reader.at = "bottom"
    /\ Reads("check")
    /\ got' = [got EXCEPT !.bottom = ring[reader.slot].bottom]
    /\ UNCHANGED <<memory, driverVars, last, shown>>

\* The number taken is not remembered.
FaultyCheck ==
    /\ reader.at = "check"
    /\ IF ring[reader.slot].seq = reader.seq THEN Reads("tag") /\ UNCHANGED got ELSE Retry
    /\ UNCHANGED <<memory, driverVars, last, shown>>

\* The frame is taken unless the number moved.
Check ==
    /\ reader.at = "check"
    /\ IF ring[reader.slot].seq = reader.seq THEN Reads("tag") /\ last' = got.number /\ UNCHANGED got
       ELSE Retry /\ UNCHANGED last
    /\ UNCHANGED <<memory, driverVars, shown>>

\* The capture loop hands the frame on with the mode of the moment.
HandOn ==
    /\ reader.at = "tag"
    /\ Rests
    /\ shown' = [copy |-> got, tag |-> mode]
    /\ UNCHANGED <<memory, driverVars, last>>

\* After an error the capture loop sleeps and goes on.
Recover ==
    /\ reader.at = "error"
    /\ Rests
    /\ UNCHANGED <<memory, driverVars, last, shown>>

-----------------------------------------------------------------------------
Init ==
    /\ mode \in Sizes
    /\ ring = [s \in Slot |-> [seq |-> 0, width |-> 0, pitch |-> 0, number |-> 0,
                               top |-> Zero, bottom |-> Zero]]
    /\ latest = None
    /\ event = FALSE
    /\ chain = None
    /\ count = 0
    /\ writer = [at |-> "idle", slot |-> 0, frame |-> Zero]
    /\ reader = Resting
    /\ got = Nothing
    /\ last = 0
    /\ shown = None
    /\ made = 0
    /\ presented = FALSE

Publish ==
    WriteTop \/ WriteBottom \/ WriteWidth \/ WritePitch \/ Close \/ Point \/ Signal

Driver ==
    Begin \/ Publish \/ Assign \/ Unassign \/ Restart \/ \E size \in Sizes : Commit(size)

Reader ==
    \/ Wake \/ ReadLatest \/ ReadSeq \/ ReadWidth \/ ReadPitch \/ ReadTop \/ ReadBottom
    \/ Check \/ HandOn \/ Recover

Next == Driver \/ Reader

\* Threads are scheduled; a frame begun is published.
Spec == Init /\ [][Next]_vars /\ WF_vars(Publish) /\ WF_vars(Reader)

-----------------------------------------------------------------------------
SlotStates == [seq : Nat, width : Nat, pitch : Nat, number : Nat,
               top : Frames, bottom : Frames]
Places == {"idle", "top", "bottom", "width", "pitch", "close", "point", "signal"}
ReaderPlaces == {"wait", "latest", "seq", "width", "pitch", "top", "bottom", "check",
                 "tag", "error"}

TypeOK ==
    /\ ring \in [Slot -> SlotStates]
    /\ latest \in Slot \union {None}
    /\ event \in BOOLEAN
    /\ mode \in Sizes
    /\ chain \in Sizes \union {None}
    /\ count \in Nat
    /\ writer \in [at : Places, slot : Slot, frame : Frames]
    /\ reader \in [at : ReaderPlaces, slot : Slot, seq : Nat, tries : 0 .. Tries - 1]
    /\ got \in Copies
    /\ last \in Nat
    /\ shown \in Handed \union {None}
    /\ made \in Nat
    /\ presented \in BOOLEAN

\* All parts of one frame.
Whole(c) ==
    /\ c.top = c.bottom
    /\ c.width = c.top.width /\ c.pitch = c.top.width
    /\ c.number = c.top.number

\* "A torn read is detected by the odd/even sequence counter": what the reader
\* takes is one frame, rows and header, however the driver wrote meanwhile.
WholeFrames == shown # None => Whole(shown.copy)

\* The geometry is refused only when the driver was writing it: an error never
\* means that the driver sent one.
ErrorsAreTorn == reader.at = "error" => ring[reader.slot].seq # reader.seq

\* "The service can always read the newest complete frame": what is handed on is
\* newer than what was before.  This does not hold: see the next property.
InOrder == [][shown' # shown /\ shown # None => shown'.copy.top.id > shown.copy.top.id]_vars

\* The driver closes a slot before it names it.  A reader that the driver laps may
\* find the next frame in the slot it was sent to, and be sent to the one before
\* that frame after it: it goes back by one frame, never by more, and hands no
\* frame on twice running, also across a restart.
NearlyInOrder ==
    [][shown' # shown /\ shown # None =>
          /\ shown'.copy.top.id >= shown.copy.top.id - 1
          /\ shown'.copy.top.id # shown.copy.top.id]_vars

\* The reader is about to look which slot was named last, or at that slot.
OnItsWay ==
    \/ reader.at = "latest"
    \/ reader.slot = latest /\ reader.at \notin {"wait", "error"}

\* No frame is slept over: while the driver writes none and the event is not set,
\* the reader is on its way to the newest frame, or has handed it on, or, before a
\* restart, another one of its number.  Neither the end of the three tries nor a
\* duplicate, nor a refused geometry, leaves it waiting before a newer frame.
NewestAwaited ==
    writer.at = "idle" /\ latest # None /\ ~event =>
        OnItsWay \/ (shown # None /\ shown.copy.number = ring[latest].number)

\* The driver rests after a frame of the committed mode.
Still == writer.at = "idle" /\ presented /\ chain = mode

\* Restarted, the driver came to the number of the frame handed on before.
SameNumber ==
    reader = Resting /\ last = count /\ shown # None /\ shown.copy.top.id # made

Seen == shown # None /\ shown.copy.top.id = made /\ shown.tag = mode

\* Once the screen is still its last frame is handed on, and with the mode its
\* rows have (the encoders refuse any other), unless its number is that of the
\* frame handed on before a restart.
LastSeen == (Still /\ ~Seen) ~> (Seen \/ ~Still \/ SameNumber)
=============================================================================
