----------------------------- MODULE Duplication -----------------------------
(***************************************************************************)
(* Mirror mode: the frame source that duplicates the desktop through DXGI, *)
(* and the picture that capture last made of it.  The capture thread alone *)
(* owns the source; ClientRegistry composes it with the capture loop.      *)
(*                                                                         *)
(* The desktop's image comes without the mouse pointer.  Each acquisition  *)
(* reports a new image, a change of the pointer, or both; the image is     *)
(* copied to a staging texture, from which it can be read again to draw    *)
(* the pointer at another place.  What images show, and sizes, which only  *)
(* change when the duplication is lost, are data; the pointer is taken to  *)
(* be visible and its shape known.                                         *)
(***************************************************************************)
EXTENDS Naturals

VARIABLES
    duplication,  \* there is one
    staging,      \* the staging texture holds an image
    moved,        \* PointerState: a change nobody has asked for yet
    picture       \* the newest frame of capture: none, plain or with the pointer

source == <<duplication, staging, moved, picture>>

SourceTypeOK ==
    /\ duplication \in BOOLEAN
    /\ staging \in BOOLEAN
    /\ moved \in BOOLEAN
    /\ picture \in {"none", "plain", "pointer"}

\* The constructor fails without a duplication; another source is used then.
SourceInit ==
    /\ duplication = TRUE
    /\ staging = FALSE
    /\ moved = FALSE
    /\ picture = "none"

-----------------------------------------------------------------------------
\* recreate_duplication, when there is none or access to it was lost: the old
\* one goes first, with its texture; another program, or the secure desktop, may
\* be in the way of the new one.
RecreateDuplication ==
    /\ duplication' \in BOOLEAN
    /\ staging' = FALSE
    /\ UNCHANGED <<moved, picture>>

\* Nothing new within the wait, or an error of the call itself.
NothingAcquired ==
    /\ duplication
    /\ UNCHANGED source

\* Something is there to be read: a new image, or the old one, which is read
\* again only to draw the pointer.
Readable(image, composite) == image \/ (composite /\ staging)

\* The image is read, and becomes a frame.
ReadOut(composite) ==
    /\ staging' = TRUE
    /\ picture' = IF composite THEN "pointer" ELSE "plain"

\* The texture cannot be made, copied to or mapped: there is no frame, and the
\* acquired image is released all the same.
ReadFails ==
    /\ staging' \in {staging, TRUE}
    /\ UNCHANGED picture

\* An acquisition.
Acquired(image, pointer, composite) ==
    /\ duplication
    /\ moved' = (moved \/ pointer)
    /\ \/ Readable(image, composite) /\ (ReadOut(composite) \/ ReadFails)
       \/ ~Readable(image, composite) /\ UNCHANGED <<staging, picture>>
    /\ UNCHANGED duplication

\* next_frame, with the pointer to be drawn or not; what it returned is sent.
NextFrame(composite) ==
    \/ RecreateDuplication
    \/ NothingAcquired
    \/ \E image, pointer \in BOOLEAN : Acquired(image, pointer, composite)

\* cursor: a change is reported once.
Cursor ==
    /\ moved
    /\ moved' = FALSE
    /\ UNCHANGED <<duplication, staging, picture>>

=============================================================================
