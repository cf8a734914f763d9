------------------------- MODULE VideoPipelineProofs -------------------------
(***************************************************************************)
(* For every set of screen sizes, and for encoders that can change size as *)
(* for those that cannot and keep up to Depth pictures: the types, the     *)
(* keeping of keyframe requests and of the newest picture, and the notice  *)
(* taken of every frame that is overwritten unsent.                        *)
(*                                                                         *)
(* The quality controller of the pipeline's encoder has its part here too: *)
(* Rate is the module Adapt, over any sequence of its calls.               *)
(***************************************************************************)
EXTENDS VideoPipeline, Integers, TLAPS

USE NoneAssumption, FixedSizeAssumption, DepthAssumption

(***************************************************************************)
(* Types.                                                                  *)
(***************************************************************************)
LEMMA AgedType ==
    ASSUME NEW f \in Frames \union {None}
    PROVE  /\ Aged(f) \in Frames \union {None}
           /\ Aged(f) = None <=> f = None
           /\ f # None => Aged(f).key = f.key /\ Aged(f).answers = f.answers
  BY DEF Aged, Frames

\* A frame that is outdated is still the frame it was.
LEMMA OutdatedType ==
    ASSUME NEW f \in Frames \union {None}
    PROVE  /\ Outdated(f) \in Frames \union {None}
           /\ Outdated(f) = None <=> f = None
           /\ f # None => Outdated(f).key = f.key /\ ~Outdated(f).answers
  BY DEF Outdated, Frames

(***************************************************************************)
(* The pictures inside the encoder.                                        *)
(***************************************************************************)
\* Some, or all, are the newest picture; none is older than one before it.
AnyNewest(pictures) == \E i \in DOMAIN pictures : pictures[i]
AllNewest(pictures) == \A i \in DOMAIN pictures : pictures[i]
Ordered(pictures) ==
    \A i, j \in DOMAIN pictures : i <= j /\ pictures[i] => pictures[j]

\* A picture is put into the encoder.
LEMMA PictureIn ==
    ASSUME NEW p \in Seq(BOOLEAN), NEW new \in BOOLEAN
    PROVE  LET q == Append(p, new)
           IN  /\ q \in Seq(BOOLEAN) /\ q # <<>>
               /\ AnyNewest(q) => AnyNewest(p) \/ new
               /\ AllNewest(p) /\ new => AllNewest(q)
               /\ Ordered(p) /\ (AnyNewest(p) => new) => Ordered(q)
<1> DEFINE q == Append(p, new)
<1>1. /\ q \in Seq(BOOLEAN) /\ q # <<>>
      /\ Len(p) \in Nat
      /\ DOMAIN p = 1..Len(p) /\ DOMAIN q = 1..(Len(p) + 1)
      /\ \A i \in 1..Len(p) : q[i] = p[i]
      /\ q[Len(p) + 1] = new
  OBVIOUS
<1> HIDE DEF q
<1>2. \A i \in DOMAIN q : (i \in DOMAIN p /\ q[i] = p[i]) \/ (i = Len(p) + 1 /\ q[i] = new)
  BY <1>1
<1>3. /\ AnyNewest(q) => AnyNewest(p) \/ new
      /\ AllNewest(p) /\ new => AllNewest(q)
  BY <1>2 DEF AnyNewest, AllNewest
<1>4. ASSUME Ordered(p), AnyNewest(p) => new PROVE Ordered(q)
  <2>1. ASSUME NEW i \in DOMAIN q, NEW j \in DOMAIN q, i <= j, q[i] PROVE q[j]
    <3>1. CASE j = Len(p) + 1
      BY <1>1, <1>2, <1>4, <2>1, <3>1 DEF AnyNewest
    <3>2. CASE j \in DOMAIN p
      <4>1. i \in DOMAIN p
        BY <1>1, <2>1, <3>2
      <4>2. QED
        BY <1>1, <1>4, <2>1, <3>2, <4>1 DEF Ordered
    <3>3. QED
      BY <1>2, <2>1, <3>1, <3>2
  <2>2. QED
    BY <2>1 DEF Ordered
<1>5. QED
  BY <1>1, <1>3, <1>4 DEF q

\* The oldest picture comes out of it.
LEMMA PictureOut ==
    ASSUME NEW p \in Seq(BOOLEAN), p # <<>>
    PROVE  /\ Tail(p) \in Seq(BOOLEAN) /\ Head(p) \in BOOLEAN
           /\ AnyNewest(Tail(p)) => AnyNewest(p)
           /\ AllNewest(p) => Head(p) /\ AllNewest(Tail(p))
           /\ Ordered(p) => Ordered(Tail(p))
           /\ Ordered(p) /\ Head(p) => AllNewest(Tail(p))
<1> DEFINE q == Tail(p)
<1>1. /\ q \in Seq(BOOLEAN) /\ Head(p) \in BOOLEAN /\ Head(p) = p[1]
      /\ Len(p) \in Nat /\ Len(p) >= 1
      /\ DOMAIN p = 1..Len(p) /\ DOMAIN q = 1..(Len(p) - 1)
      /\ \A i \in 1..(Len(p) - 1) : q[i] = p[i + 1]
  OBVIOUS
<1> HIDE DEF q
<1>2. 1 \in DOMAIN p
  BY <1>1
<1>3. \A i \in DOMAIN q : i \in Nat /\ i + 1 \in DOMAIN p /\ 1 <= i + 1 /\ q[i] = p[i + 1]
  BY <1>1
<1>4. /\ AnyNewest(q) => AnyNewest(p)
      /\ AllNewest(p) => Head(p) /\ AllNewest(q)
  BY <1>1, <1>2, <1>3 DEF AnyNewest, AllNewest
<1>5. ASSUME Ordered(p) PROVE Ordered(q)
  <2>1. \A i, j \in DOMAIN q : i <= j => i + 1 <= j + 1
    BY <1>3
  <2>2. QED
    BY <1>3, <1>5, <2>1 DEF Ordered
<1>6. ASSUME Ordered(p), Head(p) PROVE AllNewest(q)
  BY <1>1, <1>2, <1>3, <1>6 DEF Ordered, AllNewest
<1>7. QED
  BY <1>1, <1>4, <1>5, <1>6 DEF q

\* What is inside when the call comes to its output.
LEMMA OfferedParts ==
    ASSUME held \in Seq(BOOLEAN), frame \in Frames, NEW p \in Offered
    PROVE  /\ p \in Seq(BOOLEAN)
           /\ AnyNewest(p) => AnyNewest(held) \/ frame.latest
           /\ AllNewest(held) /\ frame.latest => AllNewest(p)
           /\ Ordered(held) /\ (AnyNewest(held) => frame.latest) => Ordered(p)
<1>1. frame.latest \in BOOLEAN
  BY DEF Frames
<1>2. CASE p = held
  BY <1>2
<1>3. CASE p = Append(held, frame.latest)
  BY <1>1, <1>3, PictureIn
<1>4. QED
  BY <1>2, <1>3 DEF Offered

\* What a step does to the slot.
LEMMA SlotSteps ==
    ASSUME [Next]_vars
    PROVE  \/ unread' = unread /\ slot' \in {slot, Aged(slot), Outdated(slot)}
           \/ unread' = FALSE /\ WriterTake
           \/ slot' = frame /\ at = "publish"
<1> USE DEF captureVars, encoder, taskVars, slotVars, writerVars, history
<1>1. CASE VideoTask
  BY <1>1 DEF VideoTask, LoopTop, Wake, Pick, Fit, Recreate, RecreateFails,
     TakeRequest, EncodeNothing, Encode, Check, Publish
<1>2. CASE Writer
  BY <1>2 DEF Writer, WriterTake, WriterStore, WriterSent
<1>3. CASE CaptureLoop
  BY <1>3 DEF CaptureLoop, Capture
<1>4. CASE RequestKeyframe
  BY <1>4 DEF RequestKeyframe
<1>5. CASE UNCHANGED vars
  BY <1>5 DEF vars
<1>6. QED
  BY <1>1, <1>2, <1>3, <1>4, <1>5 DEF Next

\* The variables that are only ever true or false.
Flags ==
    /\ fresh \in BOOLEAN /\ newer \in BOOLEAN
    /\ timer \in BOOLEAN /\ fk \in BOOLEAN /\ noted \in BOOLEAN
    /\ forceKey \in BOOLEAN
    /\ unread \in BOOLEAN /\ caughtUp \in BOOLEAN
    /\ asked \in BOOLEAN /\ swallowed \in BOOLEAN

\* Every step keeps the types of the flags.
LEMMA FlagSteps ==
    ASSUME Flags, [Next]_vars
    PROVE  Flags'
<1> USE DEF Flags, captureVars, encoder, taskVars, slotVars, writerVars, history
<1>1. ASSUME NEW m \in Modes, Capture(m) PROVE Flags'
  BY <1>1 DEF Capture
<1>2. CASE RequestKeyframe
  BY <1>2 DEF RequestKeyframe
<1>3. CASE LoopTop
  BY <1>3 DEF LoopTop
<1>4. CASE Wake
  BY <1>4 DEF Wake
<1>5. CASE Pick
  BY <1>5 DEF Pick
<1>6. CASE Fit \/ Recreate \/ RecreateFails
  <2>1. CASE Fit
    BY <2>1 DEF Fit
  <2>2. CASE Recreate
    BY <2>2 DEF Recreate
  <2>3. CASE RecreateFails
    BY <2>3 DEF RecreateFails, GiveUp
  <2>4. QED
    BY <1>6, <2>1, <2>2, <2>3
<1>7. CASE TakeRequest
  BY <1>7 DEF TakeRequest
<1>8. CASE EncodeNothing
  BY <1>8 DEF EncodeNothing, GiveUp
<1>9. ASSUME NEW key \in BOOLEAN, Encode(key) PROVE Flags'
  BY <1>9 DEF Encode
<1>10. CASE Check
  BY <1>10 DEF Check
<1>11. CASE Publish
  BY <1>11 DEF Publish
<1>12. CASE Writer
  <2>1. CASE WriterTake
    BY <2>1 DEF WriterTake
  <2>2. CASE WriterStore
    BY <2>2 DEF WriterStore
  <2>3. CASE WriterSent
    BY <2>3 DEF WriterSent
  <2>4. QED
    BY <1>12, <2>1, <2>2, <2>3 DEF Writer
<1>13. CASE UNCHANGED vars
  BY <1>13 DEF vars
<1>14. QED
  BY <1>1, <1>2, <1>3, <1>4, <1>5, <1>6, <1>7, <1>8, <1>9, <1>10, <1>11, <1>12,
     <1>13
  DEF Next, VideoTask, CaptureLoop

\* The other variables.
Places ==
    /\ screen \in Modes \union {None}
    /\ at \in {"top", "select", "pace", "fit", "swap", "encode", "check", "publish"}
    /\ frame \in Frames \union {None}
    /\ tracked \in Modes \union {None}
    /\ builtFor \in Modes
    /\ held \in Seq(BOOLEAN) /\ Len(held) <= Depth
    /\ slot \in Frames \union {None}
    /\ writer \in {"idle", "taken", "sending"}
    /\ out \in Frames \union {None}
    /\ handled \in {"pending", "sent", "skipped"}
    /\ frame = None <=> at \in {"top", "select", "pace"}
    /\ out = None <=> writer = "idle"

\* The type invariant in parts.
LEMMA TypeParts == TypeOK <=> Flags /\ Places /\ UnreadIsFrame
  BY DEF TypeOK, Flags, Places

\* Every step keeps the types of what stands in the pipeline's places.
LEMMA PlaceSteps ==
    ASSUME Places, UnreadIsFrame, [Next]_vars
    PROVE  Places'
<1> USE DEF Places, TaskTo, captureVars, encoder, taskVars, slotVars, writerVars, history
<1>1. ASSUME NEW m \in Modes, Capture(m) PROVE Places'
  <2>1. held' = [i \in 1..Len(held) |-> FALSE] /\ Len(held) \in Nat
    BY <1>1 DEF Capture
  <2>2. held' \in Seq(BOOLEAN) /\ Len(held') = Len(held)
    BY <2>1
  <2>3. QED
    BY <1>1, <2>2, AgedType DEF Capture
<1>2. CASE RequestKeyframe
  BY <1>2, OutdatedType DEF RequestKeyframe
<1>3. CASE LoopTop
  BY <1>3 DEF LoopTop
<1>4. CASE Wake
  BY <1>4 DEF Wake
<1>5. CASE Pick
  <2>1. CASE screen # None /\ (newer \/ forceKey)
    <3>1. frame' \in Frames
      <4>1. frame' = [mode |-> screen, latest |-> TRUE, key |-> FALSE,
                      answers |-> FALSE]
        BY <1>5, <2>1 DEF Pick
      <4>2. screen \in Modes
        BY <2>1
      <4>3. QED
        BY <4>1, <4>2 DEF Frames
    <3>2. QED
      BY <1>5, <2>1, <3>1 DEF Pick
  <2>2. CASE ~(screen # None /\ (newer \/ forceKey))
    BY <1>5, <2>2 DEF Pick
  <2>3. QED
    BY <2>1, <2>2
<1>6. CASE Fit
  BY <1>6 DEF Fit, Frames
<1>7. CASE Recreate
  <2>1. <<>> \in Seq(BOOLEAN) /\ Len(<<>>) <= Depth
    OBVIOUS
  <2>2. QED
    BY <1>7, <2>1 DEF Recreate, Frames
<1>8. CASE RecreateFails
  BY <1>8 DEF RecreateFails, GiveUp, Account
<1>9. CASE TakeRequest
  <2>1. frame' \in Frames
    BY <1>9 DEF TakeRequest, Frames
  <2>2. QED
    BY <1>9, <2>1 DEF TakeRequest
<1>10. CASE EncodeNothing
  <2>1. at = "encode" /\ frame \in Frames
    BY <1>10 DEF EncodeNothing
  <2>2. held' \in Seq(BOOLEAN) /\ Len(held') <= Depth
    <3>1. CASE held' = held
      BY <3>1
    <3>2. ASSUME NEW p \in Offered, Len(held') <= Depth,
                 held' = p \/ (p # <<>> /\ held' = Tail(p))
          PROVE  held' \in Seq(BOOLEAN) /\ Len(held') <= Depth
      <4>1. p \in Seq(BOOLEAN)
        BY <2>1, <3>2, OfferedParts
      <4>2. p # <<>> => Tail(p) \in Seq(BOOLEAN)
        BY <4>1, PictureOut
      <4>3. QED
        BY <3>2, <4>1, <4>2
    <3>3. QED
      BY <1>10, <3>1, <3>2 DEF EncodeNothing
  <2>3. QED
    BY <1>10, <2>2 DEF EncodeNothing, GiveUp, Account
<1>11. ASSUME NEW key \in BOOLEAN, Encode(key) PROVE Places'
  <2>1. PICK p \in Offered \ {<<>>} :
            /\ held' = Tail(p)
            /\ Len(held') <= Depth
            /\ frame' = [frame EXCEPT !.key = key, !.latest = Head(p)]
    BY <1>11 DEF Encode
  <2>2. at = "encode" /\ frame \in Frames
    BY <1>11 DEF Encode
  <2>3. held' \in Seq(BOOLEAN) /\ Head(p) \in BOOLEAN
    BY <2>1, <2>2, OfferedParts, PictureOut
  <2>4. frame' \in Frames
    BY <2>1, <2>2, <2>3 DEF Frames
  <2>5. QED
    BY <1>11, <2>1, <2>3, <2>4 DEF Encode, Account
<1>12. CASE Check
  BY <1>12 DEF Check
<1>13. CASE Publish
  BY <1>13 DEF Publish
<1>14. CASE WriterTake
  BY <1>14 DEF WriterTake, UnreadIsFrame
<1>15. CASE WriterStore
  BY <1>15 DEF WriterStore
<1>16. CASE WriterSent
  BY <1>16 DEF WriterSent, Frames
<1>17. CASE UNCHANGED vars
  BY <1>17 DEF vars
<1>18. QED
  <2> HIDE DEF Places
  <2>1. QED
    BY <1>1, <1>2, <1>3, <1>4, <1>5, <1>6, <1>7, <1>8, <1>9, <1>10, <1>11,
       <1>12, <1>13, <1>14, <1>15, <1>16, <1>17
    DEF Next, VideoTask, Writer, CaptureLoop

\* Every step keeps what is unread a frame.
LEMMA UnreadSteps ==
    ASSUME Places, UnreadIsFrame, [Next]_vars
    PROVE  UnreadIsFrame'
<1>1. CASE unread' = unread /\ slot' \in {slot, Aged(slot), Outdated(slot)}
  BY <1>1, AgedType, OutdatedType DEF Places, UnreadIsFrame
<1>2. CASE unread' = FALSE
  BY <1>2 DEF UnreadIsFrame
<1>3. CASE slot' = frame /\ at = "publish"
  BY <1>3 DEF Places, UnreadIsFrame
<1>4. QED
  BY <1>1, <1>2, <1>3, SlotSteps

\* A session starts well typed.
LEMMA TypeInit == Init => TypeOK
<1>1. <<>> \in Seq(BOOLEAN) /\ Len(<<>>) <= Depth
  OBVIOUS
<1>2. QED
  BY <1>1 DEF Init, TypeOK, UnreadIsFrame

\* Every variable keeps its type, the encoder holds no more than its depth, the
\* video task and the writer hold a frame exactly where the code does, and what
\* is unread is a frame.
THEOREM TypeCorrect == Spec => []TypeOK
<1>1. Init => TypeOK
  BY TypeInit
<1>2. TypeOK /\ [Next]_vars => TypeOK'
  <2>1. TypeOK' <=> Flags' /\ Places' /\ UnreadIsFrame'
    BY DEF TypeOK, Flags, Places
  <2>2. QED
    BY <2>1, FlagSteps, PlaceSteps, UnreadSteps, TypeParts
<1>3. QED
  BY <1>1, <1>2, PTL DEF Spec

(***************************************************************************)
(* Keyframe requests and overwritten frames.                               *)
(***************************************************************************)
\* A frame is taken by the writer before it reports having caught up, and a
\* frame about to be overwritten was noticed when that was checked.
Noticed ==
    /\ unread => ~caughtUp
    /\ at = "publish" /\ unread => noted /\ (slot.key /\ ~frame.key => forceKey)

\* A frame whose encoding began before the viewer's last request: the request
\* stands, and no older frame answers it either.
Behind ==
    at \in {"encode", "check", "publish"} /\ ~frame.answers
        => forceKey /\ (slot # None => ~slot.answers)

\* Why RequestKept is inductive: a keyframe that answers the request can only
\* be lost by being overwritten, and then it was noticed, or the frame that
\* overwrites it answers as well.
KeptInv == TypeOK /\ Noticed /\ Behind /\ RequestKept

\* The invariant holds at every moment.
LEMMA KeptInvariant == Spec => []KeptInv
<1>1. Init => KeptInv
  <2>1. Init => TypeOK
    BY TypeInit
  <2>2. Init => Noticed /\ Behind /\ RequestKept
    BY DEF Init, Noticed, Behind, RequestKept
  <2>3. QED
    BY <2>1, <2>2 DEF KeptInv
<1>2. TypeOK /\ TypeOK' /\ KeptInv /\ [Next]_vars => KeptInv'
  <2> SUFFICES ASSUME TypeOK, TypeOK', KeptInv, [Next]_vars PROVE KeptInv'
    OBVIOUS
  <2> USE DEF KeptInv, Noticed, Behind, RequestKept, AnswerOnItsWay, TaskTo,
              captureVars, encoder, taskVars, slotVars, writerVars, history
  <2>0. /\ frame \in Frames \union {None} /\ slot \in Frames \union {None}
        /\ out \in Frames \union {None}
        /\ unread => slot # None
        /\ frame = None <=> at \in {"top", "select", "pace"}
        /\ out = None <=> writer = "idle"
        /\ writer \in {"idle", "taken", "sending"}
    BY DEF TypeOK, UnreadIsFrame
  <2>1. ASSUME NEW m \in Modes, Capture(m) PROVE KeptInv'
    <3>1. /\ frame # None => frame'.key = frame.key /\ frame'.answers = frame.answers
          /\ slot # None => slot'.key = slot.key /\ slot'.answers = slot.answers
          /\ out # None => out'.key = out.key /\ out'.answers = out.answers
          /\ slot' = None <=> slot = None
      <4>1. frame' = Aged(frame) /\ slot' = Aged(slot) /\ out' = Aged(out)
        BY <2>1 DEF Capture
      <4>2. /\ frame # None => Aged(frame).key = frame.key
                              /\ Aged(frame).answers = frame.answers
            /\ slot # None => Aged(slot).key = slot.key
                             /\ Aged(slot).answers = slot.answers
            /\ out # None => Aged(out).key = out.key
              /\ Aged(out).answers = out.answers
            /\ Aged(slot) = None <=> slot = None
        BY <2>0, AgedType
      <4>3. QED
        BY ONLY <4>1, <4>2
    <3>2. Noticed' /\ Behind'
      BY <2>0, <2>1, <3>1 DEF Capture
    <3>3. RequestKept'
      BY <2>0, <2>1, <3>1 DEF Capture
    <3>4. QED
      BY <3>2, <3>3
  <2>2. CASE RequestKeyframe
    <3>1. /\ slot # None => slot'.key = slot.key /\ ~slot'.answers
          /\ slot' = None <=> slot = None
          /\ frame # None => frame'.key = frame.key
      BY <2>0, <2>2, OutdatedType DEF RequestKeyframe
    <3>2. QED
      BY <2>0, <2>2, <3>1 DEF RequestKeyframe
  <2>3. CASE LoopTop
    BY <2>0, <2>3 DEF LoopTop
  <2>4. CASE Wake
    BY <2>0, <2>4 DEF Wake
  <2>5. CASE Pick
    BY <2>0, <2>5 DEF Pick
  <2>6. CASE Fit
    BY <2>0, <2>6 DEF Fit
  <2>7. CASE Recreate
    BY <2>0, <2>7 DEF Recreate
  <2>8. CASE RecreateFails
    BY <2>0, <2>8 DEF RecreateFails, GiveUp
  <2>9. CASE TakeRequest
    BY <2>0, <2>9 DEF TakeRequest, Frames
  <2>10. CASE EncodeNothing
    BY <2>0, <2>10 DEF EncodeNothing, GiveUp
  <2>11. ASSUME NEW key \in BOOLEAN, Encode(key) PROVE KeptInv'
    <3>1. frame'.key = key /\ frame'.answers = frame.answers
      <4>1. frame \in Frames
        BY <2>0, <2>11 DEF Encode
      <4>2. QED
        BY <2>11, <4>1 DEF Encode, Frames
    <3>2. QED
      BY <2>0, <2>11, <3>1 DEF Encode
  <2>12. CASE Check
    <3>1. /\ at = "check" /\ at' = "publish"
          /\ UNCHANGED <<frame, slot, unread, caughtUp, out, writer, asked, swallowed>>
          /\ noted' <=> slot # None /\ ~caughtUp
          /\ forceKey' <=> forceKey \/ (noted' /\ slot.key /\ ~frame.key)
      BY <2>12 DEF Check
    <3>2. Noticed'
      <4>1. (unread => slot # None) /\ (unread => ~caughtUp)
        BY <2>0
      <4>2. QED
        BY <3>1, <4>1
    <3>3. Behind'
      BY <3>1
    <3>4. RequestKept'
      BY <2>0, <3>1
    <3>5. QED
      BY <2>0, <3>2, <3>3, <3>4
  <2>13. CASE Publish
    BY <2>0, <2>13 DEF Publish
  <2>14. CASE WriterTake
    BY <2>0, <2>14 DEF WriterTake
  <2>15. CASE WriterStore
    BY <2>0, <2>15 DEF WriterStore
  <2>16. CASE WriterSent
    BY <2>0, <2>16 DEF WriterSent
  <2>17. CASE UNCHANGED vars
    BY <2>17 DEF vars
  <2>18. QED
    <3> HIDE DEF KeptInv
    <3>1. QED
      BY <2>1, <2>2, <2>3, <2>4, <2>5, <2>6, <2>7, <2>8, <2>9, <2>10, <2>11,
         <2>12, <2>13, <2>14, <2>15, <2>16, <2>17
      DEF Next, VideoTask, Writer, CaptureLoop
<1>3. QED
  BY <1>1, <1>2, TypeCorrect, PTL DEF Spec

\* A keyframe request the viewer made is pending, at the encoder, or on its
\* way as a keyframe, whatever video task, writer and screen do meanwhile;
\* only an encoder call that yields no frame loses it.
THEOREM RequestsAreKept == Spec => []RequestKept
<1>1. KeptInv => RequestKept
  BY DEF KeptInv
<1>2. QED
  BY <1>1, KeptInvariant, PTL

\* Every frame that is overwritten before the writer took it was counted, and
\* a keyframe overwritten by a delta is asked for again.
THEOREM OverwritesAreNoticed == Spec => OverwriteNoticed
<1>1. KeptInv /\ [Next]_vars =>
        [unread /\ slot # slot' /\ at = "publish" /\ at' = "top"
            => noted /\ (slot.key /\ ~slot'.key => forceKey')]_vars
  <2> SUFFICES ASSUME KeptInv, Next, unread, slot # slot', at = "publish",
                      at' = "top"
               PROVE  noted /\ (slot.key /\ ~slot'.key => forceKey')
    OBVIOUS
  <2>1. Publish
    BY DEF Next, VideoTask, Writer, CaptureLoop, Capture, RequestKeyframe,
           LoopTop, Wake, Pick, Fit, Recreate, RecreateFails, TakeRequest,
           EncodeNothing, Encode, Check, WriterTake, WriterStore, WriterSent,
           encoder, taskVars, slotVars
  <2>2. QED
    BY <2>1 DEF Publish, KeptInv, Noticed
<1>2. QED
  BY <1>1, KeptInvariant, PTL DEF Spec, OverwriteNoticed

(***************************************************************************)
(* The newest picture.                                                     *)
(***************************************************************************)
\* A frame keeps showing the newest picture until the screen changes.
LEMMA OutdatedShows ==
    ASSUME NEW f \in Frames
    PROVE  Outdated(f) # None /\ (Outdated(f).latest <=> f.latest)
  BY DEF Outdated, Frames

LEMMA AgedShows ==
    ASSUME NEW f \in Frames
    PROVE  Aged(f) # None /\ ~Aged(f).latest
  BY DEF Aged, Frames

\* What was captured can be taken.
Captured == newer => screen # None

\* The pictures stand in their order from the encoder's frame in hand through
\* the encoder and what came out of it to the slot: if one place has the newest,
\* so has every place behind it.
InOrder ==
    /\ Ordered(held)
    /\ at \in {"fit", "swap", "encode"} /\ AnyNewest(held) => frame.latest
    /\ at \in {"check", "publish"} /\ frame.latest => AllNewest(held)
    /\ slot # None /\ slot.latest => AllNewest(held) /\ (frame # None => frame.latest)

\* What the places hold.
PlacesHold ==
    /\ frame \in Frames \union {None} /\ slot \in Frames \union {None}
    /\ out \in Frames \union {None}
    /\ screen \in Modes \union {None} /\ None \notin Modes /\ None \notin Frames
    /\ unread => slot # None
    /\ at \in {"top", "select", "pace", "fit", "swap", "encode", "check", "publish"}
    /\ frame = None <=> at \in {"top", "select", "pace"}
    /\ out = None <=> writer = "idle"
    /\ writer \in {"idle", "taken", "sending"}
    /\ held \in Seq(BOOLEAN)

LEMMA TypesHold == TypeOK => PlacesHold
  BY NoneAssumption DEF TypeOK, UnreadIsFrame, PlacesHold

\* Nothing is inside a new encoder.
LEMMA NothingInside == Ordered(<<>>) /\ AllNewest(<<>>) /\ ~AnyNewest(<<>>)
<1>1. \A i : i \notin DOMAIN <<>>
  OBVIOUS
<1>2. QED
  BY <1>1 DEF Ordered, AllNewest, AnyNewest

\* What an encoder call makes of the pictures inside.
LEMMA CallSteps ==
    ASSUME PlacesHold, InOrder, at = "encode", NEW p \in Offered
    PROVE  /\ Ordered(p) /\ (slot # None /\ slot.latest => AllNewest(p))
           /\ p # <<>> => /\ Tail(p) \in Seq(BOOLEAN) /\ Head(p) \in BOOLEAN
                          /\ Ordered(Tail(p))
                          /\ Head(p) => AllNewest(Tail(p))
                          /\ slot # None /\ slot.latest => Head(p) /\ AllNewest(Tail(p))
<1>1. frame \in Frames /\ held \in Seq(BOOLEAN)
  BY DEF PlacesHold
<1>2. p \in Seq(BOOLEAN)
  BY <1>1, OfferedParts
<1>3. Ordered(p)
  <2>1. Ordered(held) /\ (AnyNewest(held) => frame.latest)
    BY DEF InOrder
  <2>2. QED
    BY <1>1, <2>1, OfferedParts
<1>4. slot # None /\ slot.latest => AllNewest(p)
  <2>1. slot # None /\ slot.latest => AllNewest(held) /\ frame.latest
    BY <1>1 DEF InOrder, PlacesHold
  <2>2. QED
    BY <1>1, <2>1, OfferedParts
<1>5. ASSUME p # <<>>
      PROVE  /\ Tail(p) \in Seq(BOOLEAN) /\ Head(p) \in BOOLEAN
             /\ Ordered(Tail(p))
             /\ Head(p) => AllNewest(Tail(p))
             /\ AllNewest(p) => Head(p) /\ AllNewest(Tail(p))
  BY <1>2, <1>3, <1>5, PictureOut
<1>6. QED
  BY <1>3, <1>4, <1>5

\* The pictures stay in their order, whatever the encoder gives back.
LEMMA OrderSteps ==
    ASSUME TypeOK, InOrder, [Next]_vars
    PROVE  InOrder'
<1> USE DEF InOrder, TaskTo, captureVars, encoder, taskVars, slotVars, writerVars, history
<1>0. PlacesHold
  BY TypesHold
<1>1. ASSUME NEW m \in Modes, Capture(m) PROVE InOrder'
  <2>1. Ordered(held') /\ ~AnyNewest(held')
    <3>1. held' = [i \in DOMAIN held |-> FALSE]
      BY <1>1 DEF Capture
    <3>2. \A i \in DOMAIN held' : ~held'[i]
      BY <3>1
    <3>3. QED
      BY <3>2 DEF Ordered, AnyNewest
  <2>2. /\ slot' # None => ~slot'.latest
        /\ frame # None => frame' # None /\ ~frame'.latest
    BY <1>0, <1>1, AgedShows DEF Capture, Aged, PlacesHold
  <2>3. at' = at
    BY <1>1 DEF Capture
  <2>4. QED
    BY <1>0, <2>1, <2>2, <2>3 DEF PlacesHold
<1>2. CASE RequestKeyframe
  <2>1. /\ frame' = None <=> frame = None
        /\ slot' = None <=> slot = None
        /\ frame # None => (frame'.latest <=> frame.latest)
        /\ slot # None => (slot'.latest <=> slot.latest)
    BY <1>0, <1>2, OutdatedShows DEF RequestKeyframe, Outdated, PlacesHold
  <2>2. at' = at /\ held' = held
    BY <1>2 DEF RequestKeyframe
  <2>3. QED
    BY <1>0, <2>1, <2>2 DEF PlacesHold
<1>3. CASE LoopTop
  BY <1>3 DEF LoopTop
<1>4. CASE Wake
  BY <1>4 DEF Wake
<1>5. CASE Pick
  <2>1. CASE screen # None /\ (newer \/ forceKey)
    <3>1. /\ frame' = [mode |-> screen, latest |-> TRUE, key |-> FALSE, answers |-> FALSE]
          /\ held' = held /\ slot' = slot /\ at' = "fit"
      BY <1>5, <2>1 DEF Pick
    <3>2. QED
      BY <3>1
  <2>2. CASE ~(screen # None /\ (newer \/ forceKey))
    BY <1>5, <2>2 DEF Pick
  <2>3. QED
    BY <2>1, <2>2
<1>6. CASE Fit
  BY <1>6 DEF Fit
<1>7. CASE Recreate
  BY <1>7, NothingInside DEF Recreate
<1>8. CASE RecreateFails
  BY <1>8 DEF RecreateFails, GiveUp
<1>9. CASE TakeRequest
  <2>1. frame' # None /\ (frame'.latest <=> frame.latest)
    BY <1>0, <1>9 DEF TakeRequest, Frames, PlacesHold
  <2>2. QED
    BY <1>0, <1>9, <2>1 DEF TakeRequest, PlacesHold
<1>10. CASE EncodeNothing
  <2>1. at = "encode" /\ at' = "top" /\ frame' = None /\ slot' = slot
    BY <1>10 DEF EncodeNothing, GiveUp
  <2>2. Ordered(held') /\ (slot # None /\ slot.latest => AllNewest(held'))
    <3>1. CASE held' = held
      BY <3>1
    <3>2. ASSUME NEW p \in Offered, held' = p \/ (p # <<>> /\ held' = Tail(p))
          PROVE  Ordered(held') /\ (slot # None /\ slot.latest => AllNewest(held'))
      BY <1>0, <2>1, <3>2, CallSteps
    <3>3. QED
      BY <1>10, <3>1, <3>2 DEF EncodeNothing
  <2>3. QED
    BY <2>1, <2>2
<1>11. ASSUME NEW key \in BOOLEAN, Encode(key) PROVE InOrder'
  <2>1. PICK p \in Offered \ {<<>>} :
            /\ held' = Tail(p)
            /\ frame' = [frame EXCEPT !.key = key, !.latest = Head(p)]
    BY <1>11 DEF Encode
  <2>2. at = "encode" /\ at' = "check" /\ slot' = slot
    BY <1>11 DEF Encode
  <2>3. frame'.latest = Head(p)
    <3>1. frame \in Frames
      BY <1>0, <2>2 DEF PlacesHold
    <3>2. QED
      BY <2>1, <3>1 DEF Frames
  <2>4. /\ Ordered(held') /\ (Head(p) => AllNewest(held'))
        /\ slot # None /\ slot.latest => Head(p) /\ AllNewest(held')
    BY <1>0, <2>1, <2>2, CallSteps
  <2>5. QED
    BY <2>2, <2>3, <2>4
<1>12. CASE Check
  <2>1. at = "check" /\ at' = "publish" /\ UNCHANGED <<held, frame, slot>>
    BY <1>12 DEF Check
  <2>2. QED
    BY <2>1
<1>13. CASE Publish
  BY <1>13 DEF Publish
<1>14. CASE Writer
  <2>1. UNCHANGED <<at, held, frame, slot>>
    BY <1>14 DEF Writer, WriterTake, WriterStore, WriterSent
  <2>2. QED
    BY <2>1
<1>15. CASE UNCHANGED vars
  BY <1>15 DEF vars
<1>16. QED
  <2> HIDE DEF InOrder
  <2>1. QED
    BY <1>1, <1>2, <1>3, <1>4, <1>5, <1>6, <1>7, <1>8, <1>9, <1>10, <1>11,
       <1>12, <1>13, <1>14, <1>15
    DEF Next, VideoTask, CaptureLoop

\* Why PictureKept is inductive: the picture in the slot is overwritten only by
\* itself, since the pictures stand in their order, and a pick that finds a
\* capture newer has one to take.
PictureInv == Captured /\ InOrder /\ PictureKept

LEMMA PictureInit == Init => PictureInv
<1> SUFFICES ASSUME Init PROVE PictureInv
  OBVIOUS
<1>1. Captured /\ PictureKept
  BY DEF Init, Captured, PictureKept, YetToTake, PictureOnItsWay
<1>2. InOrder
  BY NothingInside DEF Init, InOrder
<1>3. QED
  BY <1>1, <1>2 DEF PictureInv

\* A picture that the video task or its encoder had, they have afterwards, or it
\* is given up.
LEMMA AccountSteps ==
    ASSUME Account, handled' = "pending"
    PROVE  /\ handled = "pending"
           /\ Shows(frame) \/ HeldBack => Shows(frame') \/ HeldBack'
  BY DEF Account

LEMMA PictureSteps ==
    ASSUME TypeOK, TypeOK', PictureInv, [Next]_vars
    PROVE  Captured' /\ PictureKept'
<1> USE DEF PictureInv, Captured, PictureKept, YetToTake, PictureOnItsWay,
            TaskTo, captureVars, encoder, taskVars, slotVars, writerVars, history
<1>0. PlacesHold
  BY TypesHold
<1>1. ASSUME NEW m \in Modes, Capture(m) PROVE Captured' /\ PictureKept'
  BY <1>0, <1>1 DEF Capture, PlacesHold
<1>2. CASE RequestKeyframe
  <2>1. /\ Shows(frame) => Shows(frame')
        /\ HeldBack => HeldBack'
        /\ slot # None => (slot'.latest <=> slot.latest)
        /\ out # None => (out'.latest <=> out.latest)
    BY <1>0, <1>2, OutdatedShows DEF RequestKeyframe, Outdated, PlacesHold, Shows, HeldBack
  <2>2. QED
    BY <1>0, <1>2, <2>1 DEF RequestKeyframe, PlacesHold
<1>3. ASSUME UNCHANGED <<held, frame>>
      PROVE  (HeldBack <=> HeldBack') /\ (Shows(frame) <=> Shows(frame'))
  BY <1>3 DEF HeldBack, Shows
<1>4. CASE LoopTop
  BY <1>3, <1>4 DEF LoopTop
<1>5. CASE Wake
  BY <1>3, <1>5 DEF Wake
<1>6. CASE Pick
  <2>1. CASE screen # None /\ (newer \/ forceKey)
    <3>1. /\ frame' = [mode |-> screen, latest |-> TRUE, key |-> FALSE, answers |-> FALSE]
          /\ newer' = FALSE
      BY <1>6, <2>1 DEF Pick
    <3>2. frame' \in Frames
      BY <1>0, <2>1, <3>1 DEF Frames, PlacesHold
    <3>3. Shows(frame')
      BY <1>0, <3>1, <3>2 DEF Shows, PlacesHold
    <3>4. QED
      BY <3>1, <3>3
  <2>2. CASE ~(screen # None /\ (newer \/ forceKey))
    BY <1>0, <1>3, <1>6, <2>2 DEF Pick, PlacesHold
  <2>3. QED
    BY <2>1, <2>2
<1>7. CASE Fit
  BY <1>0, <1>3, <1>7 DEF Fit, PlacesHold
<1>8. CASE Recreate
  <2>1. HeldBack => Shows(frame)
    BY <1>0, <1>8 DEF Recreate, InOrder, AnyNewest, HeldBack, Shows, PlacesHold
  <2>2. Shows(frame) <=> Shows(frame')
    BY <1>8 DEF Recreate, Shows
  <2>3. QED
    BY <1>0, <1>8, <2>1, <2>2 DEF Recreate, PlacesHold
<1>9. CASE RecreateFails
  BY <1>0, <1>9, AccountSteps DEF RecreateFails, GiveUp, PlacesHold
<1>10. CASE TakeRequest
  <2>1. (Shows(frame) <=> Shows(frame')) /\ (HeldBack <=> HeldBack')
    BY <1>0, <1>10 DEF TakeRequest, Frames, PlacesHold, Shows, HeldBack
  <2>2. QED
    BY <1>0, <1>10, <2>1 DEF TakeRequest, PlacesHold
<1>11. CASE EncodeNothing
  BY <1>0, <1>11, AccountSteps DEF EncodeNothing, GiveUp, PlacesHold
<1>12. ASSUME NEW key \in BOOLEAN, Encode(key) PROVE Captured' /\ PictureKept'
  BY <1>0, <1>12, AccountSteps DEF Encode, PlacesHold
<1>13. CASE Check
  <2>1. /\ at = "check" /\ at' = "publish"
        /\ UNCHANGED <<screen, fresh, newer, timer, held, frame, slot, unread, out,
                       writer, handled>>
    BY <1>13 DEF Check
  <2>2. QED
    BY <1>0, <1>3, <2>1 DEF PlacesHold
<1>14. CASE Publish
  <2>1. HeldBack <=> HeldBack'
    BY <1>14 DEF Publish, HeldBack
  <2>2. slot # None /\ slot.latest => frame.latest
    BY <1>0, <1>14 DEF Publish, InOrder, PlacesHold
  <2>3. QED
    BY <1>0, <1>14, <2>1, <2>2 DEF Publish, PlacesHold, Shows
<1>15. CASE WriterTake
  BY <1>0, <1>3, <1>15 DEF WriterTake, PlacesHold
<1>16. CASE WriterStore
  BY <1>0, <1>3, <1>16 DEF WriterStore, PlacesHold
<1>17. CASE WriterSent
  BY <1>0, <1>3, <1>17 DEF WriterSent, PlacesHold
<1>18. CASE UNCHANGED vars
  BY <1>3, <1>18 DEF vars
<1>19. QED
  <2> HIDE DEF Captured, PictureKept
  <2>1. QED
    BY <1>1, <1>2, <1>4, <1>5, <1>6, <1>7, <1>8, <1>9, <1>10, <1>11,
       <1>12, <1>13, <1>14, <1>15, <1>16, <1>17, <1>18
    DEF Next, VideoTask, Writer, CaptureLoop

\* No capture is slept over: in every interleaving of the capture loop with the
\* video task's select, pacing sleep and pick, and of its overwriting with the
\* writer, and however far the encoder's outputs lag behind, the newest picture
\* is yet to be taken, inside the encoder, on its way, sent, or given up.
THEOREM PicturesAreKept == Spec => []PictureKept
<1>1. TypeOK /\ TypeOK' /\ PictureInv /\ [Next]_vars => PictureInv'
  BY OrderSteps, PictureSteps DEF PictureInv
<1>2. PictureInv => PictureKept
  BY DEF PictureInv
<1>3. QED
  BY <1>1, <1>2, PictureInit, TypeCorrect, PTL DEF Spec

-----------------------------------------------------------------------------
(***************************************************************************)
(* The quality controller.                                                 *)
(***************************************************************************)
CONSTANT Codec

VARIABLES profile, bitrate, fps, rttHighStreak, queueHighStreak, backlogRecent,
          floorPressure, sinceDecrease, sinceIncrease, clean, floored

Rate == INSTANCE Adapt

\* What the envelopes have in common.
LEMMA Envelopes ==
  ASSUME NEW p \in Rate!Profile
  PROVE  LET e == Rate!EnvelopeOf(p)
         IN  /\ e.min \in Nat /\ e.max \in Nat /\ e.start \in Nat
             /\ e.minFps \in Nat /\ e.maxFps \in Nat
             /\ 0 < e.min /\ e.min <= e.start /\ e.start <= e.max
             /\ 0 < e.minFps /\ e.minFps <= e.maxFps
<1>1. CASE p = "office"
  BY <1>1 DEF Rate!EnvelopeOf, Rate!BaseEnvelope, Rate!Envelope
<1>2. CASE p = "video"
  BY <1>2 DEF Rate!EnvelopeOf, Rate!BaseEnvelope, Rate!Envelope
<1>3. CASE p = "drawing"
  BY <1>3 DEF Rate!EnvelopeOf, Rate!BaseEnvelope, Rate!Envelope
<1>4. CASE p = "gaming"
  BY <1>4 DEF Rate!EnvelopeOf, Rate!BaseEnvelope, Rate!Envelope
<1>5. QED
  BY <1>1, <1>2, <1>3, <1>4 DEF Rate!Profile

\* A cut lowers a bitrate, but not below the floor.
LEMMA CutBitrate ==
  ASSUME NEW b \in Nat, NEW m \in Nat, m < b
  PROVE  LET c == Rate!Larger((7 * b) \div 10, m) IN c \in Nat /\ m <= c /\ c < b
<1>1. (7 * b) \div 10 \in Nat /\ (7 * b) \div 10 < b
  OBVIOUS
<1>2. QED
  BY <1>1 DEF Rate!Larger

\* Halving a frame rate does not go below the floor.
LEMMA HalfRate ==
  ASSUME NEW f \in Nat, NEW m \in Nat, m <= f
  PROVE  LET h == Rate!Larger(f \div 2, m) IN h \in Nat /\ m <= h /\ h <= f
<1>1. f \div 2 \in Nat /\ f \div 2 <= f
  OBVIOUS
<1>2. QED
  BY <1>1 DEF Rate!Larger

\* A rise raises a bitrate, but not beyond the ceiling.
LEMMA RaiseBitrate ==
  ASSUME NEW b \in Nat, NEW m \in Nat, b < m
  PROVE  LET c == Rate!Smaller(b + Rate!Larger(b \div 12, 100), m) IN c \in Nat /\ b < c /\ c <= m
<1>1. b \div 12 \in Nat
  OBVIOUS
<1>2. Rate!Larger(b \div 12, 100) \in Nat /\ 100 <= Rate!Larger(b \div 12, 100)
  BY <1>1 DEF Rate!Larger
<1>3. QED
  BY <1>2 DEF Rate!Smaller

\* The quality of the picture, as the induction needs it.
Quality ==
    /\ profile \in Rate!Profile
    /\ bitrate \in Nat /\ fps \in Nat
    /\ floorPressure \in 0..(Rate!FloorPressureForFpsDrop - 1)
    /\ Rate!InEnvelope
    /\ Rate!PressedAtFloor

\* The envelope in force has what all of them have.
LEMMA EnvTyped ==
  ASSUME profile \in Rate!Profile
  PROVE  /\ Rate!env.min \in Nat /\ Rate!env.max \in Nat /\ Rate!env.start \in Nat
         /\ Rate!env.minFps \in Nat /\ Rate!env.maxFps \in Nat
         /\ 0 < Rate!env.min /\ Rate!env.min <= Rate!env.start /\ Rate!env.start <= Rate!env.max
         /\ 0 < Rate!env.minFps /\ Rate!env.minFps <= Rate!env.maxFps
  BY Envelopes DEF Rate!env

\* A decrease keeps the quality in its envelope.
LEMMA CutKeeps ==
  ASSUME Quality, Rate!TryDecrease
  PROVE  Quality'
<1>1. profile' = profile /\ Rate!env' = Rate!env
  BY DEF Rate!TryDecrease, Rate!env
<1>2. CASE sinceDecrease < Rate!DecreaseCooldown
  BY <1>1, <1>2 DEF Quality, Rate!TryDecrease, Rate!InEnvelope, Rate!PressedAtFloor
<1>3. CASE ~(sinceDecrease < Rate!DecreaseCooldown) /\ bitrate > Rate!env.min
  <2>1. /\ bitrate' = Rate!Larger((7 * bitrate) \div 10, Rate!env.min)
        /\ floorPressure' = 0 /\ fps' = fps
    BY <1>3 DEF Rate!TryDecrease, Rate!Cut
  <2>2. bitrate' \in Nat /\ Rate!env.min <= bitrate' /\ bitrate' < bitrate
    BY <2>1, <1>3, EnvTyped, CutBitrate DEF Quality
  <2>3. QED
    BY <1>1, <2>1, <2>2, EnvTyped
       DEF Quality, Rate!InEnvelope, Rate!PressedAtFloor, Rate!FloorPressureForFpsDrop
<1>4. CASE ~(sinceDecrease < Rate!DecreaseCooldown) /\ ~(bitrate > Rate!env.min)
  <2>1. bitrate' = bitrate /\ floored' = TRUE
    BY <1>4 DEF Rate!TryDecrease, Rate!Cut
  <2>2. CASE floorPressure + 1 >= Rate!FloorPressureForFpsDrop
    <3>1. floorPressure' = 0 /\ fps' = Rate!Larger(fps \div 2, Rate!env.minFps)
      BY <1>4, <2>2 DEF Rate!TryDecrease, Rate!Cut
    <3>2. fps' \in Nat /\ Rate!env.minFps <= fps' /\ fps' <= fps
      BY <3>1, EnvTyped, HalfRate DEF Quality, Rate!InEnvelope
    <3>3. QED
      BY <1>1, <2>1, <3>1, <3>2, EnvTyped
         DEF Quality, Rate!InEnvelope, Rate!PressedAtFloor, Rate!FloorPressureForFpsDrop
  <2>3. CASE ~(floorPressure + 1 >= Rate!FloorPressureForFpsDrop)
    <3>1. floorPressure' = floorPressure + 1 /\ fps' = fps
      BY <1>4, <2>3 DEF Rate!TryDecrease, Rate!Cut
    <3>2. floorPressure' \in 0..(Rate!FloorPressureForFpsDrop - 1)
      BY <2>3, <3>1 DEF Quality, Rate!FloorPressureForFpsDrop
    <3>3. Rate!PressedAtFloor'
      BY Zenon, <2>1 DEF Rate!PressedAtFloor
    <3>4. QED
      BY <1>1, <2>1, <3>1, <3>2, <3>3 DEF Quality, Rate!InEnvelope
  <2>4. QED
    BY <2>2, <2>3
<1>5. QED
  BY <1>2, <1>3, <1>4

\* So does a tick, which may raise it.
LEMMA TickKeeps ==
  ASSUME Quality, Rate!OnTick
  PROVE  Quality'
<1>1. profile' = profile /\ Rate!env' = Rate!env
  BY DEF Rate!OnTick, Rate!env
<1>2. CASE bitrate < Rate!env.max
  <2>1. /\ bitrate' = Rate!Smaller(bitrate + Rate!Larger(bitrate \div 12, 100), Rate!env.max)
        /\ fps' = fps /\ floorPressure' = floorPressure
    BY <1>2 DEF Rate!OnTick
  <2>2. bitrate' \in Nat /\ bitrate < bitrate' /\ bitrate' <= Rate!env.max
    BY <2>1, <1>2, EnvTyped, RaiseBitrate DEF Quality
  <2>3. Rate!env.min < bitrate'
    BY <2>2, EnvTyped DEF Quality, Rate!InEnvelope
  <2>4. QED
    BY <1>1, <2>1, <2>2, <2>3, EnvTyped DEF Quality, Rate!InEnvelope, Rate!PressedAtFloor
<1>3. CASE ~(bitrate < Rate!env.max)
  <2>1. bitrate' = bitrate /\ floored' = floored
    BY <1>3 DEF Rate!OnTick
  <2>2. \/ fps' = Rate!env.maxFps /\ floorPressure' = 0
        \/ fps' = fps /\ floorPressure' = floorPressure
    BY <1>3 DEF Rate!OnTick
  <2>3. Rate!PressedAtFloor'
    BY <1>1, <2>1, <2>2 DEF Quality, Rate!PressedAtFloor
  <2>4. QED
    BY <1>1, <2>1, <2>2, <2>3, EnvTyped
       DEF Quality, Rate!InEnvelope, Rate!FloorPressureForFpsDrop
<1>4. QED
  BY <1>2, <1>3

\* So does another profile, which clamps it to its own.
LEMMA ProfileKeeps ==
  ASSUME Quality, NEW p \in Rate!Profile, Rate!SetProfile(p)
  PROVE  Quality'
<1> DEFINE e == Rate!EnvelopeOf(p)
<1>1. profile' = p /\ Rate!env' = e
  BY DEF Rate!SetProfile, Rate!env
<1>2. PICK w \in Nat : /\ e.start <= w
                       /\ bitrate' = Rate!Smaller(Rate!Larger(w, e.min), e.max)
  BY Envelopes DEF Rate!SetProfile, Quality, Rate!Larger
<1>3. /\ e.min \in Nat /\ e.max \in Nat /\ e.maxFps \in Nat /\ e.minFps \in Nat
      /\ e.min <= e.max /\ e.minFps <= e.maxFps
  BY Envelopes
<1>4. bitrate' \in Nat /\ e.min <= bitrate' /\ bitrate' <= e.max
  BY <1>2, <1>3 DEF Rate!Smaller, Rate!Larger
<1>5. fps' = e.maxFps /\ floorPressure' = 0
  BY DEF Rate!SetProfile
<1>6. QED
  BY <1>1, <1>3, <1>4, <1>5
     DEF Quality, Rate!InEnvelope, Rate!PressedAtFloor, Rate!FloorPressureForFpsDrop

\* The steps of a call: a request to decrease, a tick, a profile, or none.
LEMMA Calls ==
  ASSUME [Rate!Next]_(Rate!vars)
  PROVE  \/ Rate!TryDecrease
         \/ Rate!OnTick
         \/ \E p \in Rate!Profile : Rate!SetProfile(p)
         \/ UNCHANGED Rate!quality
<1>1. ASSUME Rate!OnSendBacklog PROVE Rate!TryDecrease \/ UNCHANGED Rate!quality
  BY <1>1 DEF Rate!OnSendBacklog
<1>2. ASSUME NEW b \in BOOLEAN, Rate!OnRttSample(b) PROVE Rate!TryDecrease \/ UNCHANGED Rate!quality
  BY <1>2 DEF Rate!OnRttSample
<1>3. ASSUME NEW d \in BOOLEAN, Rate!OnViewerStats(d) PROVE Rate!TryDecrease \/ UNCHANGED Rate!quality
  BY <1>3 DEF Rate!OnViewerStats
<1>4. ASSUME NEW d \in Nat \ {0}, Rate!Elapse(d) PROVE UNCHANGED Rate!quality
  BY <1>4 DEF Rate!Elapse
<1>5. CASE UNCHANGED Rate!vars
  BY <1>5 DEF Rate!vars
<1>6. QED
  BY <1>1, <1>2, <1>3, <1>4, <1>5 DEF Rate!Next

\* The controller starts inside its envelope.
LEMMA QualityInit == Rate!Init => Quality
<1> SUFFICES ASSUME Rate!Init PROVE Quality
  OBVIOUS
<1>1. profile \in Rate!Profile
  BY DEF Rate!Init, Rate!Profile
<1>2. QED
  BY <1>1, EnvTyped
     DEF Rate!Init, Quality, Rate!InEnvelope, Rate!PressedAtFloor,
     Rate!FloorPressureForFpsDrop

\* Every step keeps the quality in its envelope.
LEMMA QualityNext == Quality /\ [Rate!Next]_(Rate!vars) => Quality'
<1> SUFFICES ASSUME Quality, [Rate!Next]_(Rate!vars) PROVE Quality'
  OBVIOUS
<1>1. CASE Rate!TryDecrease
  BY <1>1, CutKeeps
<1>2. CASE Rate!OnTick
  BY <1>2, TickKeeps
<1>3. CASE \E p \in Rate!Profile : Rate!SetProfile(p)
  BY <1>3, ProfileKeeps
<1>4. CASE UNCHANGED Rate!quality
  <2>1. /\ profile' = profile /\ bitrate' = bitrate /\ fps' = fps
        /\ floorPressure' = floorPressure /\ floored' = floored
    BY <1>4 DEF Rate!quality
  <2>2. Rate!env' = Rate!env
    BY <2>1 DEF Rate!env
  <2>3. QED
    BY <2>1, <2>2 DEF Quality, Rate!InEnvelope, Rate!PressedAtFloor
<1>5. QED
  BY <1>1, <1>2, <1>3, <1>4, Calls

\* Every variable keeps its type, and every streak its length.
THEOREM RateTypeCorrect == Rate!Spec => []Rate!TypeOK
<1>1. Rate!Init => Rate!TypeOK
  <2> SUFFICES ASSUME Rate!Init PROVE Rate!TypeOK
    OBVIOUS
  <2>1. floored \in BOOLEAN
    BY Zenon DEF Rate!Init
  <2>2. QED
    BY <2>1, QualityInit
       DEF Rate!Init, Rate!TypeOK, Quality, Rate!RttStreakForDecrease,
       Rate!QueueStreakForDecrease, Rate!BacklogForDecrease,
           Rate!DecreaseCooldown, Rate!Horizon, Rate!CleanBeforeFpsRestore
<1>2. Rate!TypeOK /\ Quality /\ [Rate!Next]_(Rate!vars) => Rate!TypeOK'
  <2> SUFFICES ASSUME Rate!TypeOK, Quality, [Rate!Next]_(Rate!vars) PROVE Rate!TypeOK'
    OBVIOUS
  <2>0. Rate!Horizon \in Nat /\ 0 \in 0..Rate!Horizon
    BY DEF Rate!Horizon, Rate!CleanBeforeFpsRestore
  <2>1. /\ profile' \in Rate!Profile /\ bitrate' \in Nat /\ fps' \in Nat
        /\ floorPressure' \in 0..(Rate!FloorPressureForFpsDrop - 1)
    BY QualityNext DEF Quality
  <2> DEFINE Streaks == /\ rttHighStreak \in 0..(Rate!RttStreakForDecrease - 1)
                        /\ queueHighStreak \in 0..(Rate!QueueStreakForDecrease - 1)
                        /\ backlogRecent \in 0..(Rate!BacklogForDecrease - 1)
             Ages == /\ sinceDecrease \in 0..Rate!Horizon
                     /\ sinceIncrease \in 0..Rate!Horizon
                     /\ clean \in 0..Rate!Horizon
             Flag == floored \in BOOLEAN
  <2>2. ASSUME Rate!TryDecrease PROVE Ages' /\ Flag'
    <3>1. floored' = TRUE \/ floored' = FALSE \/ floored' = floored
      BY <2>2 DEF Rate!TryDecrease, Rate!Cut
    <3>2. Flag'
      BY Zenon, <3>1 DEF Rate!TypeOK
    <3>3. Ages'
      <4>1. /\ sinceDecrease' = 0 \/ sinceDecrease' = sinceDecrease
            /\ sinceIncrease' = sinceIncrease
            /\ clean' = 0
        BY <2>2 DEF Rate!TryDecrease
      <4>2. QED
        BY <2>0, <4>1 DEF Rate!TypeOK
    <3>4. QED
      BY <3>2, <3>3
  <2>3. ASSUME UNCHANGED <<Rate!quality, Rate!ages>> PROVE Ages' /\ Flag'
    BY <2>3 DEF Rate!TypeOK, Rate!quality, Rate!ages
  <2>4. CASE Rate!OnSendBacklog
    <3>1. Streaks'
      BY <2>4
         DEF Rate!OnSendBacklog, Rate!TypeOK, Rate!RttStreakForDecrease,
         Rate!QueueStreakForDecrease, Rate!BacklogForDecrease
    <3>2. QED
      BY <2>1, <2>2, <2>3, <2>4, <3>1 DEF Rate!OnSendBacklog, Rate!TypeOK
  <2>5. ASSUME NEW b \in BOOLEAN, Rate!OnRttSample(b) PROVE Rate!TypeOK'
    <3>1. Streaks'
      BY <2>5
         DEF Rate!OnRttSample, Rate!TypeOK, Rate!RttStreakForDecrease,
         Rate!QueueStreakForDecrease, Rate!BacklogForDecrease
    <3>2. QED
      BY <2>1, <2>2, <2>3, <2>5, <3>1 DEF Rate!OnRttSample, Rate!TypeOK
  <2>6. ASSUME NEW d \in BOOLEAN, Rate!OnViewerStats(d) PROVE Rate!TypeOK'
    <3>1. Streaks'
      BY <2>6
         DEF Rate!OnViewerStats, Rate!TypeOK, Rate!RttStreakForDecrease,
         Rate!QueueStreakForDecrease, Rate!BacklogForDecrease
    <3>2. QED
      BY <2>1, <2>2, <2>3, <2>6, <3>1 DEF Rate!OnViewerStats, Rate!TypeOK
  <2>7. CASE Rate!OnTick
    <3>1. Streaks' /\ Ages'
      BY <2>0, <2>7 DEF Rate!OnTick, Rate!TypeOK, Rate!BacklogForDecrease
    <3>2. floored' = FALSE \/ floored' = floored
      BY <2>7 DEF Rate!OnTick
    <3>3. Flag'
      BY Zenon, <3>2 DEF Rate!TypeOK
    <3>4. QED
      BY <2>1, <3>1, <3>3 DEF Rate!TypeOK
  <2>8. ASSUME NEW p \in Rate!Profile, Rate!SetProfile(p) PROVE Rate!TypeOK'
    <3>1. Streaks' /\ Ages'
      BY <2>0, <2>8 DEF Rate!SetProfile, Rate!streaks, Rate!TypeOK
    <3>2. Flag'
      BY Zenon, <2>8 DEF Rate!SetProfile
    <3>3. QED
      BY <2>1, <3>1, <3>2 DEF Rate!TypeOK
  <2>9. ASSUME NEW d \in Nat \ {0}, Rate!Elapse(d) PROVE Rate!TypeOK'
    <3>1. Streaks' /\ Flag'
      BY <2>9 DEF Rate!Elapse, Rate!streaks, Rate!quality, Rate!TypeOK
    <3>2. ASSUME NEW age \in 0..Rate!Horizon PROVE Rate!Older(age, d) \in 0..Rate!Horizon
      BY <2>0 DEF Rate!Older, Rate!Smaller
    <3>3. Ages'
      BY <2>9, <3>2 DEF Rate!Elapse, Rate!TypeOK
    <3>4. QED
      BY <2>1, <3>1, <3>3 DEF Rate!TypeOK
  <2>10. CASE UNCHANGED Rate!vars
    BY <2>10 DEF Rate!vars, Rate!streaks, Rate!quality, Rate!ages, Rate!TypeOK
  <2>11. QED
    BY <2>4, <2>5, <2>6, <2>7, <2>8, <2>9, <2>10 DEF Rate!Next
<1>3. QED
  BY <1>1, <1>2, QualityInit, QualityNext, PTL DEF Rate!Spec

\* Bitrate and frame rate never leave the envelope of the profile in force.
THEOREM EnvelopeKept == Rate!Spec => []Rate!InEnvelope
<1>1. Quality => Rate!InEnvelope
  BY DEF Quality
<1>2. QED
  BY <1>1, QualityInit, QualityNext, PTL DEF Rate!Spec

\* The frame rate drops only at a floor that two decreases in a row found.
THEOREM FrameRateIsSticky == Rate!Spec => Rate!FpsIsSticky
<1> DEFINE Sticky == fps' < fps /\ profile' = profile =>
                       /\ floored
                       /\ bitrate = Rate!env.min
                       /\ bitrate' = bitrate
                       /\ sinceDecrease >= Rate!DecreaseCooldown
<1>1. Rate!TypeOK /\ Quality /\ [Rate!Next]_(Rate!vars) => [Sticky]_(Rate!vars)
  <2> SUFFICES ASSUME Rate!TypeOK, Quality, [Rate!Next]_(Rate!vars), fps' < fps, profile' = profile
               PROVE  /\ floored
                      /\ bitrate = Rate!env.min
                      /\ bitrate' = bitrate
                      /\ sinceDecrease >= Rate!DecreaseCooldown
    BY Zenon
  <2>0. fps \in Nat /\ fps <= Rate!env.maxFps
    BY DEF Quality, Rate!InEnvelope
  <2>1. CASE Rate!TryDecrease
    <3>1. ~(sinceDecrease < Rate!DecreaseCooldown) /\ Rate!Cut
      BY <2>0, <2>1 DEF Rate!TryDecrease
    <3>2. bitrate = Rate!env.min
      BY <2>0, <3>1, EnvTyped DEF Rate!Cut, Quality, Rate!InEnvelope
    <3>3. bitrate' = bitrate /\ floorPressure + 1 >= Rate!FloorPressureForFpsDrop
      BY <2>0, <3>1, <3>2, EnvTyped DEF Rate!Cut
    <3>4. floorPressure > 0
      BY <3>3 DEF Quality, Rate!FloorPressureForFpsDrop
    <3>5. ~(bitrate > Rate!env.min)
      BY <3>2, EnvTyped DEF Quality
    <3>6. floored
      BY Zenon, <3>4, <3>5 DEF Quality, Rate!PressedAtFloor
    <3>7. sinceDecrease >= Rate!DecreaseCooldown
      BY <3>1 DEF Rate!TypeOK, Rate!DecreaseCooldown
    <3>8. QED
      BY Zenon, <3>2, <3>3, <3>6, <3>7
  <2>2. CASE Rate!OnTick
    BY <2>0, <2>2, EnvTyped DEF Rate!OnTick, Quality
  <2>3. ASSUME NEW p \in Rate!Profile, Rate!SetProfile(p) PROVE FALSE
    <3>1. p = profile /\ fps' = Rate!EnvelopeOf(p).maxFps
      BY <2>3 DEF Rate!SetProfile
    <3>2. QED
      BY <2>0, <3>1, EnvTyped DEF Rate!env, Quality
  <2>4. CASE UNCHANGED Rate!quality
    BY <2>0, <2>4 DEF Rate!quality
  <2>5. QED
    BY <2>1, <2>2, <2>3, <2>4, Calls
<1>2. QED
  BY <1>1, RateTypeCorrect, QualityInit, QualityNext, PTL DEF Rate!Spec, Rate!FpsIsSticky
=============================================================================
