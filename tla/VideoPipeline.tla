---------------------------- MODULE VideoPipeline ----------------------------
(***************************************************************************)
(* One session's way from the captured screen to the socket: the capture   *)
(* loop's watch channel, the video task that encodes, the latest-only slot *)
(* (a watch channel again) and the writer; with the keyframe requests the  *)
(* viewer sends at any time (Shared.force_keyframe).                       *)
(*                                                                         *)
(* Sequence numbers only grow, and the code only compares them, so the     *)
(* outcome of each comparison is kept: "newer" is f.seq >                  *)
(* last_captured_seq, "caughtUp" is consumed_seq = out_seq.                *)
(*                                                                         *)
(* A Media Foundation encoder may keep a picture until the next one comes, *)
(* so what a call gives back need not show the frame it was called with.   *)
(***************************************************************************)
EXTENDS Naturals, Sequences

CONSTANTS
    Modes,      \* the sizes the screen may take
    FixedSize,  \* the encoder cannot change size (Media Foundation)
    Depth,      \* how many pictures it may keep from one call to the next
    None        \* no frame, no size

ASSUME FixedSizeAssumption == FixedSize \in BOOLEAN
ASSUME DepthAssumption == Depth \in Nat /\ (~FixedSize => Depth = 0)

VARIABLES
    screen,    \* the newest captured frame, which is its size
    fresh,     \* the video task has not seen the newest capture announced
    newer,     \* it has not taken the newest capture
    at,        \* where the video task stands
    timer,     \* its select also waits on the 250 ms timer
    frame,     \* the frame it works on
    fk,        \* the keyframe request it took
    noted,     \* it counted the frame it is about to overwrite as skipped
    tracked,   \* encoder_size: the size it believes the encoder has
    builtFor,  \* the size the encoder was created for
    held,      \* the pictures inside it, the oldest first: is each the newest
    forceKey,  \* Shared.force_keyframe
    slot,      \* the newest encoded frame
    unread,    \* the writer has not taken it
    caughtUp,  \* consumed_seq has caught up with out_seq
    writer,    \* where the writer stands
    out,       \* the frame it is sending
    \* History, read by the properties only:
    asked,     \* the viewer awaits a keyframe it asked for
    swallowed, \* an encoder call took the request and gave no frame
    handled    \* the newest picture: still on its way, sent, or given up

captureVars == <<screen, fresh, newer>>
encoder == <<builtFor, held>>
taskVars == <<at, timer, frame, fk, noted, tracked, encoder>>
slotVars == <<slot, unread, caughtUp>>
writerVars == <<writer, out>>
history == <<asked, swallowed, handled>>

vars == <<captureVars, taskVars, forceKey, slotVars, writerVars, history>>

\* A frame on its way: its size, whether it shows the newest picture, whether
\* it is a keyframe, and whether it was encoded after the viewer last asked.
Frames == [mode : Modes, latest : BOOLEAN, key : BOOLEAN, answers : BOOLEAN]

ASSUME NoneAssumption == None \notin Modes \union Frames

Aged(f) == IF f = None THEN None ELSE [f EXCEPT !.latest = FALSE]
Outdated(f) == IF f = None THEN None ELSE [f EXCEPT !.answers = FALSE]

(***************************************************************************)
(* The capture loop and the viewer.                                        *)
(***************************************************************************)
\* A changed screen is published; an unchanged one is not.
Capture(m) ==
    /\ screen' = m
    /\ fresh' = TRUE
    /\ newer' = TRUE
    /\ frame' = Aged(frame)
    /\ held' = [i \in DOMAIN held |-> FALSE]
    /\ slot' = Aged(slot)
    /\ out' = Aged(out)
    /\ handled' = "pending"
    /\ UNCHANGED <<at, timer, fk, noted, tracked, builtFor, forceKey, unread,
                   caughtUp, writer, asked, swallowed>>

\* The pump stores the request, and wakes nobody.
RequestKeyframe ==
    /\ forceKey' = TRUE
    /\ asked' = TRUE
    /\ swallowed' = FALSE
    /\ frame' = Outdated(frame)
    /\ slot' = Outdated(slot)
    /\ out' = Outdated(out)
    /\ UNCHANGED <<captureVars, at, timer, fk, noted, tracked, encoder, unread,
                   caughtUp, writer, handled>>

(***************************************************************************)
(* The video task.                                                         *)
(***************************************************************************)
TaskTo(place) == at' = place

\* Whether the select gets its timer is decided before it starts to wait.
LoopTop ==
    /\ at = "top"
    /\ TaskTo("select")
    /\ timer' = forceKey
    /\ UNCHANGED <<captureVars, frame, fk, noted, tracked, encoder, forceKey,
                   slotVars, writerVars, history>>

\* Faulty variants, here and below, are named "Faulty..." and are no part of
\* the specification: each shows that a property would notice such a bug.
\* The timer is armed and never looked at.
FaultyWake ==
    /\ at = "select"
    /\ fresh /\ fresh' = FALSE
    /\ TaskTo("pace")
    /\ UNCHANGED <<screen, newer, timer, frame, fk, noted, tracked, encoder,
                   forceKey, slotVars, writerVars, history>>

Wake ==
    /\ at = "select"
    /\ \/ fresh /\ fresh' = FALSE
       \/ timer /\ UNCHANGED fresh
    /\ TaskTo("pace")
    /\ UNCHANGED <<screen, newer, timer, frame, fk, noted, tracked, encoder,
                   forceKey, slotVars, writerVars, history>>

\* The task marks the capture seen and takes it only for a keyframe request.
FaultyPick ==
    /\ at = "pace"
    /\ fresh' = FALSE
    /\ IF screen # None /\ forceKey
       THEN /\ frame' = [mode |-> screen, latest |-> TRUE, key |-> FALSE,
                         answers |-> FALSE]
            /\ newer' = FALSE
            /\ TaskTo("fit")
       ELSE TaskTo("top") /\ UNCHANGED <<frame, newer>>
    /\ UNCHANGED <<screen, timer, fk, noted, tracked, encoder, forceKey,
                   slotVars, writerVars, history>>

\* After the pacing sleep: the newest capture, or the current one again for a
\* keyframe request, or none.
Pick ==
    /\ at = "pace"
    /\ fresh' = FALSE
    /\ IF screen # None /\ (newer \/ forceKey)
       THEN /\ frame' = [mode |-> screen, latest |-> TRUE, key |-> FALSE,
                         answers |-> FALSE]
            /\ newer' = FALSE
            /\ TaskTo("fit")
       ELSE TaskTo("top") /\ UNCHANGED <<frame, newer>>
    /\ UNCHANGED <<screen, timer, fk, noted, tracked, encoder, forceKey,
                   slotVars, writerVars, history>>

Shows(f) == f # None /\ f.latest

\* The encoder keeps the newest picture.
HeldBack == \E i \in DOMAIN held : held[i]

\* The newest picture is given up if the video task or its encoder had it and
\* neither has it any more.
Account ==
    handled' = IF /\ handled = "pending"
                  /\ Shows(frame) \/ HeldBack
                  /\ ~Shows(frame') /\ ~HeldBack'
               THEN "skipped" ELSE handled

\* Back to the top, with no frame to send.
GiveUp ==
    /\ TaskTo("top")
    /\ frame' = None
    /\ Account

\* The first frame sets the tracked size; a change of it recreates the encoder,
\* and what the old one held is flushed.
Fit ==
    /\ at = "fit"
    /\ tracked \in {None, frame.mode}
    /\ tracked' = frame.mode
    /\ TaskTo("swap")
    /\ UNCHANGED <<captureVars, timer, frame, fk, noted, encoder, forceKey,
                   slotVars, writerVars, history>>

Recreate ==
    /\ at = "fit"
    /\ tracked \notin {None, frame.mode}
    /\ tracked' = frame.mode
    /\ builtFor' = frame.mode
    /\ held' = <<>>
    /\ forceKey' = TRUE
    /\ TaskTo("swap")
    /\ UNCHANGED <<captureVars, timer, frame, fk, noted, slotVars, writerVars,
                   history>>

RecreateFails ==
    /\ at = "fit"
    /\ tracked \notin {None, frame.mode}
    /\ UNCHANGED <<captureVars, timer, fk, noted, tracked, encoder, forceKey,
                   slotVars, writerVars, asked, swallowed>>
    /\ GiveUp

\* The request is read early and cleared by an assignment of its own.
FaultyTakeRequest ==
    /\ at = "swap"
    /\ TaskTo("encode")
    /\ fk' = timer
    /\ forceKey' = FALSE
    /\ frame' = [frame EXCEPT !.answers = TRUE]
    /\ UNCHANGED <<captureVars, timer, noted, tracked, encoder, slotVars,
                   writerVars, history>>

TakeRequest ==
    /\ at = "swap"
    /\ TaskTo("encode")
    /\ fk' = forceKey
    /\ forceKey' = FALSE
    /\ frame' = [frame EXCEPT !.answers = TRUE]
    /\ UNCHANGED <<captureVars, timer, noted, tracked, encoder, slotVars,
                   writerVars, history>>

\* The encoder takes frames of its own size only, if it is of a fixed one.
Accepts == FixedSize => builtFor = frame.mode

\* The pictures inside the encoder once the call has come to its output: with
\* the frame in hand, or, if an output was left from before, without it.
Offered == {held, Append(held, frame.latest)}

\* The call fails, skips the frame for its rate or finds it unchanged, keeps it
\* until the next one comes, or loses an output: nothing is sent, and the
\* request is gone.
EncodeNothing ==
    /\ at = "encode"
    /\ \/ UNCHANGED held
       \/ /\ Accepts
          /\ \E pictures \in Offered :
                held' \in {pictures} \union {Tail(p) : p \in {pictures} \ {<<>>}}
          /\ Len(held') <= Depth
    /\ GiveUp
    /\ swallowed' = (swallowed \/ (asked /\ fk))
    /\ UNCHANGED <<captureVars, timer, fk, noted, tracked, builtFor, forceKey,
                   slotVars, writerVars, asked>>

\* The oldest picture inside the encoder comes out, and is a keyframe or not as
\* the encoder decides; if one was asked for and did not come the request is
\* made again.  It is sent as the frame in hand, whose picture may still be
\* inside, or was never put there.
Encode(key) ==
    /\ at = "encode"
    /\ Accepts
    /\ \E pictures \in Offered \ {<<>>} :
          /\ held' = Tail(pictures)
          /\ Len(held') <= Depth
          /\ frame' = [frame EXCEPT !.key = key, !.latest = Head(pictures)]
    /\ Account
    /\ TaskTo("check")
    /\ forceKey' = (forceKey \/ (fk /\ ~key))
    /\ UNCHANGED <<captureVars, timer, fk, noted, tracked, builtFor, slotVars,
                   writerVars, asked, swallowed>>

\* Has the writer taken the last frame?  If not it is counted as skipped, and
\* a keyframe about to be overwritten by a delta is asked for again.
Check ==
    /\ at = "check"
    /\ TaskTo("publish")
    /\ noted' = (slot # None /\ ~caughtUp)
    /\ forceKey' = (forceKey \/ (noted' /\ slot.key /\ ~frame.key))
    /\ UNCHANGED <<captureVars, timer, frame, fk, tracked, encoder, slotVars,
                   writerVars, history>>

Publish ==
    /\ at = "publish"
    /\ TaskTo("top")
    /\ slot' = frame
    /\ unread' = TRUE
    /\ caughtUp' = FALSE
    /\ frame' = None
    /\ UNCHANGED <<captureVars, timer, fk, noted, tracked, encoder, forceKey,
                   writerVars, history>>

(***************************************************************************)
(* The writer.                                                             *)
(***************************************************************************)
WriterTake ==
    /\ writer = "idle"
    /\ unread
    /\ writer' = "taken"
    /\ out' = slot
    /\ unread' = FALSE
    /\ UNCHANGED <<captureVars, taskVars, forceKey, slot, caughtUp, history>>

\* The writer reports whatever is published by then as consumed.
FaultyWriterStore ==
    /\ writer = "taken"
    /\ writer' = "sending"
    /\ caughtUp' = TRUE
    /\ UNCHANGED <<captureVars, taskVars, forceKey, slot, unread, out, history>>

\* consumed_seq is stored after the frame was taken: a frame published in
\* between leaves it behind.
WriterStore ==
    /\ writer = "taken"
    /\ writer' = "sending"
    /\ caughtUp' = ~unread
    /\ UNCHANGED <<captureVars, taskVars, forceKey, slot, unread, out, history>>

WriterSent ==
    /\ writer = "sending"
    /\ writer' = "idle"
    /\ out' = None
    /\ asked' = (asked /\ ~(out.key /\ out.answers))
    /\ handled' = IF out.latest THEN "sent" ELSE handled
    /\ UNCHANGED <<captureVars, taskVars, forceKey, slotVars, swallowed>>

-----------------------------------------------------------------------------
\* A session starts on whatever the screen shows; its encoder is created for
\* AppState.mode, the size the capture loop started with.  The first keyframe
\* is asked for in advance.
Init ==
    /\ screen \in Modes \union {None}
    /\ fresh = FALSE
    /\ newer = (screen # None)
    /\ at = "top"
    /\ timer = FALSE
    /\ frame = None
    /\ fk = FALSE
    /\ noted = FALSE
    /\ tracked = None
    /\ builtFor \in Modes
    /\ held = <<>>
    /\ forceKey = TRUE
    /\ slot = None
    /\ unread = FALSE
    /\ caughtUp = TRUE
    /\ writer = "idle"
    /\ out = None
    /\ asked = TRUE
    /\ swallowed = FALSE
    /\ handled = IF screen = None THEN "sent" ELSE "pending"

VideoTask ==
    \/ LoopTop \/ Wake \/ Pick \/ Fit \/ Recreate \/ RecreateFails
    \/ TakeRequest \/ EncodeNothing \/ (\E key \in BOOLEAN : Encode(key))
    \/ Check \/ Publish

Writer == WriterTake \/ WriterStore \/ WriterSent

CaptureLoop == \E m \in Modes : Capture(m)

Next == VideoTask \/ Writer \/ CaptureLoop \/ RequestKeyframe

\* Both tasks are scheduled and the viewer goes on reading; nothing is assumed
\* of the screen, of the encoder or of the viewer's requests.
Fairness == WF_vars(VideoTask) /\ WF_vars(Writer)

Spec == Init /\ [][Next]_vars /\ Fairness

\* Of the encoder: asked again and again for a keyframe it gives one, and one
\* that is recreated again and again is created at last.
EncoderSpec == Spec /\ SF_vars(fk /\ Encode(TRUE)) /\ SF_vars(Recreate)

-----------------------------------------------------------------------------
\* Only a frame can be unread.
UnreadIsFrame == unread => slot # None

TypeOK ==
    /\ screen \in Modes \union {None}
    /\ fresh \in BOOLEAN /\ newer \in BOOLEAN
    /\ at \in {"top", "select", "pace", "fit", "swap", "encode", "check", "publish"}
    /\ timer \in BOOLEAN /\ fk \in BOOLEAN /\ noted \in BOOLEAN
    /\ frame \in Frames \union {None}
    /\ tracked \in Modes \union {None}
    /\ builtFor \in Modes
    /\ held \in Seq(BOOLEAN) /\ Len(held) <= Depth
    /\ forceKey \in BOOLEAN
    /\ slot \in Frames \union {None}
    /\ unread \in BOOLEAN /\ caughtUp \in BOOLEAN
    /\ writer \in {"idle", "taken", "sending"}
    /\ out \in Frames \union {None}
    /\ asked \in BOOLEAN /\ swallowed \in BOOLEAN
    /\ handled \in {"pending", "sent", "skipped"}
    \* A frame is in hand exactly where the code holds one.
    /\ frame = None <=> at \in {"top", "select", "pace"}
    /\ out = None <=> writer = "idle"
    /\ UnreadIsFrame

\* A frame that answers the request, between the encoder and the socket.
AnswerOnItsWay ==
    \/ at \in {"check", "publish"} /\ frame.key /\ frame.answers
    \/ unread /\ slot.key /\ slot.answers
    \/ writer # "idle" /\ out.key /\ out.answers

\* A keyframe request is never lost between the tasks: it stands, or the
\* encoder is working on it, or its keyframe is on its way, whatever was
\* overwritten meanwhile; only an encoder call that gives no frame loses it.
RequestKept ==
    asked => forceKey \/ (at = "encode" /\ fk) \/ AnswerOnItsWay \/ swallowed

\* "Keyframes must survive": a frame that is overwritten before the writer
\* took it was counted as skipped, and if a delta overwrites a keyframe the
\* next frame is to be one, however writer and video task interleave between
\* the check and the overwriting.
OverwriteNoticed ==
    [][unread /\ slot # slot' /\ at = "publish" /\ at' = "top"
        => noted /\ (slot.key /\ ~slot'.key => forceKey')]_vars

\* The newest capture is one the video task has yet to take, and will: it is
\* announced, or the task is on its way to look for it anyway.
YetToTake ==
    /\ newer
    /\ \/ fresh
       \/ at = "top" /\ forceKey
       \/ at = "select" /\ timer
       \/ at = "pace"

\* A frame that shows it, between the video task's hands and the socket.
PictureOnItsWay ==
    \/ Shows(frame)
    \/ HeldBack
    \/ unread /\ slot.latest
    \/ writer # "idle" /\ out.latest

\* No capture is slept over or overwritten by an older one: until the newest
\* picture was sent or given up (the encoder failed, elided or lost it, or gave
\* back an older picture and never took it), the video task will look for it, the
\* encoder holds it, or a frame that shows it is on its way, wherever the capture
\* fell between the select, the pacing sleep, the pick, the encoder's outputs,
\* which lag behind, and the slot check.
PictureKept == handled = "pending" => YetToTake \/ PictureOnItsWay

\* Latest-frame semantics: once the screen is still, its last picture has been
\* sent, unless it was given up, or stays inside an encoder that waits for the
\* next one before it gives this one back.
NewestSent ==
    <>[][~CaptureLoop]_vars => <>[](handled = "pending" => HeldBack)

\* Its select waits for the screen to change, with a request standing.
Parked == at = "select" /\ ~timer /\ ~fresh

Still == <>[][~CaptureLoop /\ ~RequestKeyframe]_vars

\* A request that nothing but the encoder or an empty screen holds up.
Unanswered == asked /\ ~swallowed /\ screen # None

\* Once screen and viewer are still every request has been answered, unless the
\* encoder swallowed it or it came while the select waited without its timer.
StillAnswered == Still => <>[](Unanswered => Parked)

\* "A keyframe owed to a resyncing decoder is still served" on a screen that
\* does not change, without waiting for on-screen activity.
RequestAnswered == Still => <>[](~Unanswered)
=============================================================================
