----------------------------- MODULE AudioSwitch -----------------------------
(***************************************************************************)
(* Who is listening: each session's audio switchboard (AudioCtl), the      *)
(* listener count all sessions share (AppState.audio_listeners) and the    *)
(* audio loop that opens and releases the capture device by that count.    *)
(*                                                                         *)
(* A session is a supervisor task (its place is life[s]) and an incoming   *)
(* pump task (pump[s]).  The two run in parallel until the supervisor, at  *)
(* the end of its teardown, aborts the pump.  A step is one critical       *)
(* section: what the code does under one hold of the audio lock.           *)
(***************************************************************************)
EXTENDS Integers, FiniteSets

CONSTANTS
    Sessions,     \* the sessions that may ever run; each runs once
    AudioEnabled  \* the host's audio_enabled setting

ASSUME SessionsAssumption == IsFiniteSet(Sessions)
ASSUME SettingAssumption == AudioEnabled \in BOOLEAN

VARIABLES
    life,       \* where each session's supervisor stands
    pump,       \* where each session's incoming pump stands
    enabled,    \* AudioCtl.enabled: the viewer opted in
    allowed,    \* AudioCtl.allowed: the panel permits
    counted,    \* AudioCtl.counted: the session holds a listener slot
    listeners,  \* AppState.audio_listeners
    loop        \* the audio loop: its place, its source, its encoder

vars == <<life, pump, enabled, allowed, counted, listeners, loop>>

Lives == {"new", "live", "granting", "releasing", "aborting", "ended"}
Pumps == {"off", "idle", "busy", "sync"}

Move(s, from, to) ==
    /\ life[s] = from
    /\ life' = [life EXCEPT ![s] = to]

PumpTo(s, place) == pump' = [pump EXCEPT ![s] = place]

(***************************************************************************)
(* The session's two tasks.                                                *)
(***************************************************************************)
\* Faulty variants, here and below, are named "Faulty..." and are no part of
\* the specification: each shows that a property would notice such a bug.

\* The session starts with the permission its handshake found in the store.
Start(s) ==
    /\ Move(s, "new", "live")
    /\ PumpTo(s, "idle")
    /\ UNCHANGED <<enabled, allowed, counted, listeners, loop>>

\* sync_audio, under the audio lock.
SyncAudio(s) ==
    LET active == enabled[s] /\ allowed[s] IN
    /\ counted' = [counted EXCEPT ![s] = active]
    /\ listeners' = IF active = counted[s] THEN listeners
                    ELSE IF active THEN listeners + 1 ELSE listeners - 1

\* A SetAudioGrant command: the permission is stored, the lock released, and
\* sync_audio takes it again.
StoreAudioGrant(s, grant) ==
    /\ Move(s, "live", "granting")
    /\ allowed' = [allowed EXCEPT ![s] = grant]
    /\ UNCHANGED <<pump, enabled, counted, listeners, loop>>

\* The new permission is stored but the slot is not brought in line with it.
FaultySyncAudioGrant(s) ==
    /\ Move(s, "granting", "live")
    /\ UNCHANGED <<pump, enabled, allowed, counted, listeners, loop>>

SyncAudioGrant(s) ==
    /\ Move(s, "granting", "live")
    /\ SyncAudio(s)
    /\ UNCHANGED <<pump, enabled, allowed, loop>>

\* An abort stops a pump parked on its socket; one that is running finishes
\* its handler, and takes what is already buffered, before it parks.
PumpTakes(s) == pump[s] = "busy" \/ (pump[s] = "idle" /\ life[s] # "ended")

PumpSetAudio(s, on) ==
    /\ PumpTakes(s)
    /\ enabled' = [enabled EXCEPT ![s] = on /\ AudioEnabled]
    /\ PumpTo(s, "sync")
    /\ UNCHANGED <<life, allowed, counted, listeners, loop>>

PumpSyncAudio(s) ==
    /\ pump[s] = "sync"
    /\ SyncAudio(s)
    /\ PumpTo(s, "busy")
    /\ UNCHANGED <<life, enabled, allowed, loop>>

PumpPark(s) ==
    /\ pump[s] = "busy"
    /\ PumpTo(s, IF life[s] = "ended" THEN "off" ELSE "idle")
    /\ UNCHANGED <<life, enabled, allowed, counted, listeners, loop>>

\* The socket closed, the viewer said bye or broke the protocol.
PumpExit(s) ==
    /\ PumpTakes(s)
    /\ PumpTo(s, "off")
    /\ UNCHANGED <<life, enabled, allowed, counted, listeners, loop>>

\* The supervisor leaves its loop: the pump ended, a kick, the receive
\* timeout or a closed control queue.
Leave(s) ==
    /\ Move(s, "live", "releasing")
    /\ UNCHANGED <<pump, enabled, allowed, counted, listeners, loop>>

\* Teardown gives back a slot without looking whether it is held.
FaultyReleaseAudio(s) ==
    /\ Move(s, "releasing", "aborting")
    /\ enabled' = [enabled EXCEPT ![s] = FALSE]
    /\ counted' = [counted EXCEPT ![s] = FALSE]
    /\ listeners' = listeners - 1
    /\ UNCHANGED <<pump, allowed, loop>>

\* Teardown opts the viewer out and gives its listener slot back...
ReleaseAudio(s) ==
    /\ Move(s, "releasing", "aborting")
    /\ enabled' = [enabled EXCEPT ![s] = FALSE]
    /\ counted' = [counted EXCEPT ![s] = FALSE]
    /\ listeners' = IF counted[s] THEN listeners - 1 ELSE listeners
    /\ UNCHANGED <<pump, allowed, loop>>

\* ... and only then aborts the pump.
AbortPump(s) ==
    /\ Move(s, "aborting", "ended")
    /\ PumpTo(s, IF pump[s] = "idle" THEN "off" ELSE pump[s])
    /\ UNCHANGED <<enabled, allowed, counted, listeners, loop>>

(***************************************************************************)
(* The audio loop.                                                         *)
(***************************************************************************)
\* At zero listeners the loop stops capturing but keeps the device open.
FaultyLoopCheck ==
    /\ loop.at = "check"
    /\ loop' = IF listeners > 0 THEN [loop EXCEPT !.at = "capture"] ELSE loop
    /\ UNCHANGED <<life, pump, enabled, allowed, counted, listeners>>

\* It reads the count; at zero it drops an open source and its encoder.
LoopCheck ==
    /\ loop.at = "check"
    /\ loop' = IF listeners > 0 THEN [loop EXCEPT !.at = "capture"]
               ELSE IF loop.source
                    THEN [loop EXCEPT !.source = FALSE, !.encoder = FALSE]
                    ELSE loop
    /\ UNCHANGED <<life, pump, enabled, allowed, counted, listeners>>

\* A turn with listeners: open what is missing, then capture one block.
LoopCapture ==
    /\ loop.at = "capture"
    /\ \/ loop' = [at |-> "check", source |-> TRUE, encoder |-> TRUE]
       \/ /\ ~loop.source      \* no device: try again later
          /\ loop' = [loop EXCEPT !.at = "check"]
       \/ /\ ~loop.encoder     \* no encoder: audio is off for good
          /\ loop' = [at |-> "stopped", source |-> FALSE, encoder |-> FALSE]
       \/ \* the device failed: it will be reopened, the encoder stays
          loop' = [at |-> "check", source |-> FALSE, encoder |-> TRUE]
    /\ UNCHANGED <<life, pump, enabled, allowed, counted, listeners>>

-----------------------------------------------------------------------------
Init ==
    /\ life = [s \in Sessions |-> "new"]
    /\ pump = [s \in Sessions |-> "off"]
    /\ enabled = [s \in Sessions |-> FALSE]
    /\ allowed \in [Sessions -> BOOLEAN]
    /\ counted = [s \in Sessions |-> FALSE]
    /\ listeners = 0
    /\ loop = [at |-> "check", source |-> FALSE, encoder |-> FALSE]

\* Steps a running task completes without outside help.
SupervisorStep(s) == SyncAudioGrant(s) \/ ReleaseAudio(s) \/ AbortPump(s)

PumpStep(s) == PumpSyncAudio(s) \/ PumpPark(s)

\* Steps that wait on a viewer, on the panel or on the network.
Environment(s) ==
    \/ Start(s) \/ Leave(s) \/ PumpExit(s)
    \/ \E b \in BOOLEAN : StoreAudioGrant(s, b) \/ PumpSetAudio(s, b)

LoopStep == LoopCheck \/ LoopCapture

Next ==
    \/ \E s \in Sessions : SupervisorStep(s) \/ PumpStep(s) \/ Environment(s)
    \/ LoopStep

\* Tasks and threads are scheduled; nothing is assumed of viewers or panel.
Fairness ==
    /\ \A s \in Sessions : WF_vars(SupervisorStep(s)) /\ WF_vars(PumpStep(s))
    /\ WF_vars(LoopStep)

Spec == Init /\ [][Next]_vars /\ Fairness

-----------------------------------------------------------------------------
TypeOK ==
    /\ life \in [Sessions -> Lives]
    /\ pump \in [Sessions -> Pumps]
    /\ enabled \in [Sessions -> BOOLEAN]
    /\ allowed \in [Sessions -> BOOLEAN]
    /\ counted \in [Sessions -> BOOLEAN]
    /\ listeners \in Int
    /\ loop \in [at : {"check", "capture", "stopped"},
                 source : BOOLEAN, encoder : BOOLEAN]
    \* The pump is spawned by the session it belongs to.
    /\ \A s \in Sessions : life[s] = "new" => pump[s] = "off"

Listening == {s \in Sessions : counted[s]}

\* The count the audio loop obeys is the number of sessions that hold a slot,
\* whichever of the two tasks took it or gave it back: the count never
\* underflows, and no session is counted twice or given back twice.
ListenersExact == listeners = Cardinality(Listening)

\* "The global capture loop's listener count tracks that conjunction exactly":
\* with no sync in flight a slot is held exactly while the viewer opted in and
\* the panel permits, however the two tasks interleaved before; this includes
\* teardown, which opts the viewer out before it gives the slot back.
SwitchTracksConjunction ==
    \A s \in Sessions :
        life[s] # "granting" /\ pump[s] # "sync"
            => (counted[s] <=> enabled[s] /\ allowed[s])

\* When nobody listens any more the audio loop gives the device back, and
\* does not take it again.
DeviceReleased == <>[](listeners = 0) => <>[](~loop.source)

\* With every session over, nobody is listening.
NoListenerLeft ==
    (\A s \in Sessions : life[s] = "ended" /\ pump[s] = "off")
        => listeners = 0
=============================================================================
