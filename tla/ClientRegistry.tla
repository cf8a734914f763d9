--------------------------- MODULE ClientRegistry ---------------------------
(***************************************************************************)
(* The registry of connected clients (AppState.clients), the counter shown *)
(* to panel and viewers (host_stats.clients), and the cursor policy: the   *)
(* cursor travels on its own channel only while every connected viewer can *)
(* draw it.  The policy is published by two writers, a session that joins  *)
(* or leaves and the capture loop, and followed by each session that can   *)
(* draw the cursor.  The capture loop runs the source of Duplication,      *)
(* which it tells whether to draw the cursor into the picture.             *)
(***************************************************************************)
EXTENDS Duplication, FiniteSets

CONSTANTS
    Sessions,  \* the sessions that may ever run; an id is never reused
    Capable    \* those whose viewer announced the "cursor" feature

ASSUME SessionsAssumption == IsFiniteSet(Sessions)
ASSUME CapableAssumption == Capable \subseteq Sessions

VARIABLES
    life,         \* where each session's supervisor stands
    clients,      \* the keys of AppState.clients
    hostClients,  \* host_stats.clients
    policy,       \* what a session computed and has not published yet
    composited,   \* CursorState.composited, as last published
    unseen,       \* sessions with a cursor state they have not looked at
    hidden,       \* sessions whose viewer was told to hide its overlay
    capture       \* the capture loop: its place and the policy it read

registry == <<life, clients, hostClients, policy>>
cursorVars == <<composited, unseen, hidden>>
captureVars == <<capture, source>>
vars == <<registry, cursorVars, captureVars>>

Lives == {"new", "inserted", "registered", "joining", "live", "removed",
          "unregistered", "parting", "ended"}

Move(s, from, to) ==
    /\ life[s] = from
    /\ life' = [life EXCEPT ![s] = to]

\* cursor_channel_active, negated: some viewer cannot draw the cursor.
LegacyPresent == ~(clients \subseteq Capable)

\* A send on the watch channel marks the state changed for every subscriber,
\* the sessions whose supervisor runs.
Following == {s \in Capable : life[s] = "live"}

(***************************************************************************)
(* register_client, in the critical sections it consists of.               *)
(***************************************************************************)
Insert(s) ==
    /\ Move(s, "new", "inserted")
    /\ clients' = clients \union {s}
    /\ UNCHANGED <<hostClients, policy, cursorVars, captureVars>>

CountUp(s) ==
    /\ Move(s, "inserted", "registered")
    /\ hostClients' = hostClients + 1
    /\ UNCHANGED <<clients, policy, cursorVars, captureVars>>

\* refresh_cursor_policy reads the registry under its lock...
ComputePolicy(s) ==
    /\ \/ Move(s, "registered", "joining")
       \/ Move(s, "unregistered", "parting")
    /\ policy' = [policy EXCEPT ![s] = LegacyPresent]
    /\ UNCHANGED <<clients, hostClients, cursorVars, captureVars>>

\* Faulty variants, here and below, are named "Faulty..." and are no part of
\* the specification: each shows that a property would notice such a bug.
\* This one stores a policy that is news, and tells only the session that joins.
FaultyPublishPolicy(s) ==
    /\ \/ Move(s, "joining", "live")
       \/ Move(s, "parting", "ended")
    /\ composited' = policy[s]
    /\ unseen' = unseen \union (IF life[s] = "joining" THEN {s} \intersect Capable ELSE {})
    /\ policy' = [policy EXCEPT ![s] = FALSE]
    /\ UNCHANGED <<clients, hostClients, hidden, captureVars>>

\* ... and publishes the answer under the channel's, if it is news.  A session
\* that has joined starts following with the current state marked changed.
PublishPolicy(s) ==
    /\ \/ Move(s, "joining", "live")
       \/ Move(s, "parting", "ended")
    /\ composited' = policy[s]
    /\ LET told == IF policy[s] # composited THEN Following ELSE {}
           joined == IF life[s] = "joining" THEN {s} \intersect Capable ELSE {}
       IN  unseen' = unseen \union told \union joined
    /\ policy' = [policy EXCEPT ![s] = FALSE]
    /\ UNCHANGED <<clients, hostClients, hidden, captureVars>>

(***************************************************************************)
(* unregister_client, once the session has left its loop.                  *)
(***************************************************************************)
Remove(s) ==
    /\ Move(s, "live", "removed")
    /\ clients' = clients \ {s}
    /\ unseen' = unseen \ {s}
    /\ hidden' = hidden \ {s}
    /\ UNCHANGED <<hostClients, policy, composited, captureVars>>

\* A session that leaves is not counted down.
FaultyCountDown(s) ==
    /\ Move(s, "removed", "unregistered")
    /\ UNCHANGED <<clients, hostClients, policy, cursorVars, captureVars>>

CountDown(s) ==
    /\ Move(s, "removed", "unregistered")
    /\ hostClients' = IF hostClients > 0 THEN hostClients - 1 ELSE 0
    /\ UNCHANGED <<clients, policy, cursorVars, captureVars>>

(***************************************************************************)
(* The two readers and writers of the cursor state.                        *)
(***************************************************************************)
\* A session forwards the cursor state: hide the overlay, or place it.
Follow(s) ==
    /\ life[s] = "live"
    /\ s \in unseen
    /\ unseen' = unseen \ {s}
    /\ hidden' = IF composited THEN hidden \union {s} ELSE hidden \ {s}
    /\ UNCHANGED <<life, clients, hostClients, policy, composited, captureVars>>

\* Between two rounds the loop has no policy in hand.
Idle == [at |-> "begin", baked |-> FALSE]

\* With nobody connected the capture loop sleeps.
CaptureWake ==
    /\ capture.at = "begin"
    /\ clients # {}
    /\ capture' = [capture EXCEPT !.at = "awake"]
    /\ UNCHANGED <<registry, cursorVars, source>>

\* It tells its source whether to draw the cursor into the frame, ...
CaptureBegin ==
    /\ capture.at = "awake"
    /\ capture' = [at |-> "frame", baked |-> LegacyPresent]
    /\ UNCHANGED <<registry, cursorVars, source>>

\* ... waits for a frame, publishes it, ...
CaptureFrame ==
    /\ capture.at = "frame"
    /\ NextFrame(capture.baked)
    /\ capture' = [capture EXCEPT !.at = "cursor"]
    /\ UNCHANGED <<registry, cursorVars>>

\* The new position is published without the policy.
FaultyCaptureCursor ==
    /\ capture.at = "cursor"
    /\ Cursor
    /\ capture' = Idle
    /\ unseen' = unseen \union Following
    /\ UNCHANGED <<registry, composited, hidden>>

\* ... and publishes the policy it read before, with the cursor's new position.
CaptureCursor ==
    /\ capture.at = "cursor"
    /\ Cursor
    /\ capture' = Idle
    /\ composited' = capture.baked
    /\ unseen' = unseen \union Following
    /\ UNCHANGED <<registry, hidden>>

\* The cursor did not move: nothing is published.
CaptureStill ==
    /\ capture.at = "cursor" /\ ~moved
    /\ capture' = Idle
    /\ UNCHANGED <<registry, cursorVars, source>>

-----------------------------------------------------------------------------
Init ==
    /\ life = [s \in Sessions |-> "new"]
    /\ clients = {}
    /\ hostClients = 0
    /\ policy = [s \in Sessions |-> FALSE]
    /\ composited = FALSE
    /\ unseen = {}
    /\ hidden = {}
    /\ capture = Idle
    /\ SourceInit

SupervisorStep(s) ==
    CountUp(s) \/ ComputePolicy(s) \/ PublishPolicy(s) \/ CountDown(s) \/ Follow(s)

CaptureStep ==
    CaptureWake \/ CaptureBegin \/ CaptureFrame \/ CaptureCursor \/ CaptureStill

Next ==
    \/ \E s \in Sessions : SupervisorStep(s) \/ Insert(s) \/ Remove(s)
    \/ CaptureStep

\* Supervisors and the capture thread are scheduled; viewers come and go as
\* they like.
Fairness ==
    /\ \A s \in Sessions : WF_vars(SupervisorStep(s))
    /\ WF_vars(CaptureStep)

Spec == Init /\ [][Next]_vars /\ Fairness

\* The screen changes and the mouse moves again and again; a duplication can be
\* had in the end, and read.  A supervisor's select gives each of its branches
\* its turn.
MovingSpec ==
    /\ Spec
    /\ SF_vars(CaptureFrame /\ duplication')
    /\ SF_vars(CaptureFrame /\ Acquired(TRUE, TRUE, capture.baked) /\ ReadOut(capture.baked))
    /\ SF_vars(CaptureCursor)
    /\ \A s \in Sessions : SF_vars(Follow(s))

-----------------------------------------------------------------------------
TypeOK ==
    /\ life \in [Sessions -> Lives]
    /\ clients \in SUBSET Sessions
    /\ hostClients \in Nat
    /\ policy \in [Sessions -> BOOLEAN]
    /\ composited \in BOOLEAN
    /\ unseen \in SUBSET Capable
    /\ hidden \in SUBSET Capable
    /\ capture \in [at : {"begin", "awake", "frame", "cursor"}, baked : BOOLEAN]
    /\ SourceTypeOK

\* Sessions between the registry's map and its counter.
Entering == {s \in Sessions : life[s] = "inserted"}
Leaving == {s \in Sessions : life[s] = "removed"}

\* The counter panel and viewers see is the registry's size, but for the
\* sessions half way through register_client and unregister_client: the
\* saturating decrement never hides a miscount.
ClientsExact ==
    hostClients + Cardinality(Entering) = Cardinality(clients) + Cardinality(Leaving)

\* Whoever publishes the cursor state, a session that joins, one that leaves or
\* the capture loop, no viewer misses it: one that has nothing left to look at
\* hides its overlay exactly when the newest state says so.
OverlaysFollow ==
    \A s \in Capable :
        life[s] = "live" /\ s \notin unseen => (s \in hidden <=> composited)

\* Once the client mix stops changing everybody agrees on who draws the cursor:
\* the newest picture carries it exactly when some viewer cannot draw it, and
\* every viewer that can hides its overlay exactly then.
CursorAgrees ==
    /\ <>[](clients # {} /\ picture # "none" => (picture = "pointer" <=> LegacyPresent))
    /\ \A s \in Capable : <>[](life[s] = "live" => (s \in hidden <=> LegacyPresent))
=============================================================================
