----------------------------- MODULE OutboundSend -----------------------------
(***************************************************************************)
(* Files the panel sends to one session's viewer: the panel's requests     *)
(* with their spool files, the session's outbound slot, the task that      *)
(* streams the chunks, the two directions of the control lane, and the     *)
(* viewer's receiver.                                                      *)
(*                                                                         *)
(* The slot is shared by four: the supervisor fills it, the pump empties   *)
(* it or attaches the chunk task to it, and a chunk task that fails        *)
(* empties it.  Aborting a task takes effect where the task waits.         *)
(***************************************************************************)
EXTENDS Naturals, Sequences, FiniteSets

CONSTANTS
    Sends,    \* the panel's requests; each spools and sends one file
    Size,     \* the chunks of a file
    LaneCap,  \* capacity of the session's control queue
    None      \* no send

ASSUME SizeAssumption == Size \in Nat \ {0}
ASSUME LaneCapAssumption == LaneCap \in Nat \ {0}

Slots == [id : Sends, task : Sends \union {None}]
Receipts == [id : Sends, received : 0..Size]

ASSUME NoneAssumption == None \notin Sends \union Slots \union Receipts

VARIABLES
    panel,    \* where each request stands
    spools,   \* the spool files on disk
    cmds,     \* SendFile commands on their way to the session
    sup,      \* where the supervisor stands
    slot,     \* Shared.outbound: the send, and the task attached to it
    flag,     \* Shared.sending_file
    fresh,    \* the send the supervisor is about to offer
    pump,     \* the task the pump is about to attach, if any
    task,     \* each send's chunk task
    down,     \* control messages to the viewer
    up,       \* the viewer's messages to the host
    deciding, \* the offer the viewer's user looks at
    active,   \* the file the viewer receives
    \* History, read by the properties only:
    kept,     \* the files the viewer has verified and kept
    replaced, \* sends that another one superseded
    stray     \* sends whose slot or flag another one's failing task cleared

panelVars == <<panel, spools, cmds>>
slotVars == <<slot, flag>>
laneVars == <<down, up>>
viewerVars == <<deciding, active, kept>>
history == <<replaced, stray>>

vars == <<panelVars, sup, slotVars, fresh, pump, task, laneVars, viewerVars, history>>

Kinds == {"offer", "chunk", "end", "abort", "accept", "decline", "done"}
Message(kind, f) == [kind |-> kind, id |-> f]
Messages == [kind : Kinds, id : Sends]

Live == sup # "ended"

Room == Len(down) < LaneCap

(***************************************************************************)
(* The panel: send_file.                                                   *)
(***************************************************************************)
\* The session is free; the upload begins.
Request(f) ==
    /\ panel[f] = "new"
    /\ Live /\ ~flag
    /\ panel' = [panel EXCEPT ![f] = "spooling"]
    /\ spools' = spools \union {f}
    /\ UNCHANGED <<cmds, sup, slotVars, fresh, pump, task, laneVars, viewerVars, history>>

\* The upload breaks off, is too large or empty.
UploadFails(f) ==
    /\ panel[f] = "spooling"
    /\ panel' = [panel EXCEPT ![f] = "over"]
    /\ spools' = spools \ {f}
    /\ UNCHANGED <<cmds, sup, slotVars, fresh, pump, task, laneVars, viewerVars, history>>

\* The spooled file is handed to the session, if there still is one.
HandOver(f) ==
    /\ panel[f] = "spooling"
    /\ panel' = [panel EXCEPT ![f] = "over"]
    /\ IF Live THEN cmds' = Append(cmds, f) /\ UNCHANGED spools
       ELSE spools' = spools \ {f} /\ UNCHANGED cmds
    /\ UNCHANGED <<sup, slotVars, fresh, pump, task, laneVars, viewerVars, history>>

(***************************************************************************)
(* The slot.                                                               *)
(***************************************************************************)
\* Faulty variants, here and below, are named "Faulty..." and are no part of
\* the specification: each shows that a property would notice such a bug.
\* The task is stopped and the file left.
FaultyDiscard ==
    /\ spools' = spools
    /\ task' = IF slot.task # None /\ task[slot.task].at \in {"open", "stream"}
               THEN [task EXCEPT ![slot.task].at = "gone"] ELSE task

\* OutboundTransfer::discard: the attached task is stopped where it waits, and
\* the spool file removed.
Discard ==
    /\ spools' = spools \ {slot.id}
    /\ task' = IF slot.task # None /\ task[slot.task].at \in {"open", "stream"}
               THEN [task EXCEPT ![slot.task].at = "gone"] ELSE task

InSlot(f) == slot # None /\ slot.id = f

\* The supervisor takes a send; one in progress is replaced.
TakeSend ==
    /\ sup = "idle"
    /\ cmds # <<>>
    /\ cmds' = Tail(cmds)
    /\ sup' = "filled"
    /\ fresh' = Head(cmds)
    /\ slot' = [id |-> Head(cmds), task |-> None]
    /\ IF slot = None THEN UNCHANGED <<spools, task, replaced>>
       ELSE Discard /\ replaced' = replaced \union {slot.id}
    /\ UNCHANGED <<panel, flag, pump, laneVars, viewerVars, stray>>

RaiseFlag ==
    /\ sup = "filled"
    /\ sup' = "offering"
    /\ flag' = TRUE
    /\ UNCHANGED <<panelVars, slot, fresh, pump, task, laneVars, viewerVars, history>>

Offer ==
    /\ sup = "offering"
    /\ Room
    /\ sup' = "idle"
    /\ fresh' = None
    /\ down' = Append(down, Message("offer", fresh))
    /\ UNCHANGED <<panelVars, slotVars, pump, task, up, viewerVars, history>>

\* The session ends: the slot is discarded, the pump aborted, the commands
\* that wait are dropped.
Leave ==
    /\ sup \in {"idle", "offering"}
    /\ sup' = "ended"
    /\ fresh' = None
    /\ pump' = None
    /\ slot' = None
    /\ IF slot = None THEN UNCHANGED <<spools, task>> ELSE Discard
    /\ cmds' = <<>>
    /\ up' = <<>>
    /\ UNCHANGED <<panel, flag, down, viewerVars, history>>

(***************************************************************************)
(* The pump: what the viewer says.                                         *)
(***************************************************************************)
Hears(kind, f) ==
    /\ Live /\ pump = None
    /\ up # <<>>
    /\ Head(up) = Message(kind, f)
    /\ up' = Tail(up)

\* Accepted: the task is started, and attached in a second hold of the lock.
HearAccept(f) ==
    /\ Hears("accept", f)
    /\ IF InSlot(f) THEN /\ task' = [task EXCEPT ![f].at = "open"]
                         /\ pump' = f
       ELSE UNCHANGED <<task, pump>>
    /\ UNCHANGED <<panelVars, sup, slotVars, fresh, down, viewerVars, history>>

\* Whatever send is in the slot by now gets the task.
Attach ==
    /\ pump # None
    /\ pump' = None
    /\ slot' = IF slot = None THEN None ELSE [slot EXCEPT !.task = pump]
    /\ UNCHANGED <<panelVars, sup, flag, fresh, task, laneVars, viewerVars, history>>

\* The slot is emptied and the flag stays.
FaultyHearEnd(f) ==
    /\ \E kind \in {"decline", "done", "abort"} : Hears(kind, f)
    /\ IF InSlot(f) THEN Discard /\ slot' = None ELSE UNCHANGED <<spools, task, slot>>
    /\ UNCHANGED <<panel, cmds, sup, flag, fresh, pump, down, viewerVars, history>>

\* Declined, done or given up: the slot is emptied if the send is there.
HearEnd(f) ==
    /\ \E kind \in {"decline", "done", "abort"} : Hears(kind, f)
    /\ IF InSlot(f) THEN Discard /\ slot' = None /\ flag' = FALSE
       ELSE UNCHANGED <<spools, task, slotVars>>
    /\ UNCHANGED <<panel, cmds, sup, fresh, pump, down, viewerVars, history>>

(***************************************************************************)
(* A chunk task: send_file_chunks.                                         *)
(***************************************************************************)
Task(f, at) == task[f].at = at

TaskTo(f, at) == task' = [task EXCEPT ![f].at = at]

TaskOpen(f) ==
    /\ Task(f, "open")
    /\ f \in spools
    /\ TaskTo(f, "stream")
    /\ UNCHANGED <<panelVars, sup, slotVars, fresh, pump, laneVars, viewerVars, history>>

\* The chunk is dropped when the queue is full.
FaultyTaskChunk(f) ==
    /\ Task(f, "stream")
    /\ task[f].sent < Size
    /\ Live
    /\ task' = [task EXCEPT ![f].sent = @ + 1]
    /\ down' = IF Room THEN Append(down, Message("chunk", f)) ELSE down
    /\ UNCHANGED <<panelVars, sup, slotVars, fresh, pump, up, viewerVars, history>>

TaskChunk(f) ==
    /\ Task(f, "stream")
    /\ task[f].sent < Size
    /\ Live /\ Room
    /\ task' = [task EXCEPT ![f].sent = @ + 1]
    /\ down' = Append(down, Message("chunk", f))
    /\ UNCHANGED <<panelVars, sup, slotVars, fresh, pump, up, viewerVars, history>>

TaskEnd(f) ==
    /\ Task(f, "stream")
    /\ task[f].sent = Size
    /\ Live /\ Room
    /\ TaskTo(f, "gone")
    /\ down' = Append(down, Message("end", f))
    /\ UNCHANGED <<panelVars, sup, slotVars, fresh, pump, up, viewerVars, history>>

\* The task gives up and leaves its slot.
FaultyTaskStops(f) ==
    /\ task[f].at \in {"open", "stream"}
    /\ TaskTo(f, "gone")
    /\ UNCHANGED <<panelVars, sup, slotVars, fresh, pump, laneVars, viewerVars, history>>

\* With the session gone nothing can be sent.
TaskStops(f) ==
    /\ task[f].at \in {"open", "stream"}
    /\ ~Live
    /\ TaskTo(f, "gone")
    /\ UNCHANGED <<panelVars, sup, slotVars, fresh, pump, laneVars, viewerVars, history>>

\* The spool cannot be opened, or read: the viewer is told.
TaskFails(f) ==
    /\ task[f].at \in {"open", "stream"}
    /\ Live /\ Room
    /\ TaskTo(f, "failing")
    /\ down' = Append(down, Message("abort", f))
    /\ UNCHANGED <<panelVars, sup, slotVars, fresh, pump, up, viewerVars, history>>

\* Then the slot is emptied, whichever send is in it, with its spool.
TaskEmpties(f) ==
    /\ Task(f, "failing")
    /\ TaskTo(f, "failed")
    /\ slot' = None
    /\ spools' = IF slot = None THEN spools ELSE spools \ {slot.id}
    /\ stray' = IF slot # None /\ slot.id # f THEN stray \union {slot.id} ELSE stray
    /\ UNCHANGED <<panel, cmds, sup, flag, fresh, pump, laneVars, viewerVars, replaced>>

TaskClears(f) ==
    /\ Task(f, "failed")
    /\ TaskTo(f, "gone")
    /\ flag' = FALSE
    /\ stray' = IF slot = None THEN stray ELSE stray \union {slot.id}
    /\ UNCHANGED <<panelVars, sup, slot, fresh, pump, laneVars, viewerVars, replaced>>

(***************************************************************************)
(* The viewer's receiver.                                                  *)
(***************************************************************************)
Gets(kind, f) ==
    /\ Live
    /\ down # <<>>
    /\ Head(down) = Message(kind, f)
    /\ down' = Tail(down)

Receiving(f) == active # None /\ active.id = f

Say(kind, f) == up' = Append(up, Message(kind, f))

\* An offer that meets another one, or a file, is declined.
GetOffer(f) ==
    /\ Gets("offer", f)
    /\ IF active # None \/ deciding # None
       THEN Say("decline", f) /\ UNCHANGED deciding
       ELSE deciding' = f /\ UNCHANGED up
    /\ UNCHANGED <<panelVars, sup, slotVars, fresh, pump, task, active, kept, history>>

Decide(accept) ==
    /\ Live /\ deciding # None
    /\ deciding' = None
    /\ Say(IF accept THEN "accept" ELSE "decline", deciding)
    /\ active' = IF accept THEN [id |-> deciding, received |-> 0] ELSE active
    /\ UNCHANGED <<panelVars, sup, slotVars, fresh, pump, task, down, kept, history>>

\* A chunk is written, or cannot be.
GetChunk(f, ok) ==
    /\ Gets("chunk", f)
    /\ IF ~Receiving(f) THEN UNCHANGED <<active, up>>
       ELSE IF ok /\ active.received < Size
       THEN active' = [active EXCEPT !.received = @ + 1] /\ UNCHANGED up
       ELSE active' = None /\ Say("abort", f)
    /\ UNCHANGED <<panelVars, sup, slotVars, fresh, pump, task, deciding, kept, history>>

\* The end: size and hash are checked and the file is kept, or it is not.
GetEnd(f, ok) ==
    /\ Gets("end", f)
    /\ IF ~Receiving(f) THEN UNCHANGED <<active, kept, up>>
       ELSE /\ active' = None
            /\ IF ok /\ active.received = Size
               THEN kept' = kept \union {f} /\ Say("done", f)
               ELSE UNCHANGED kept /\ Say("abort", f)
    /\ UNCHANGED <<panelVars, sup, slotVars, fresh, pump, task, deciding, history>>

GetAbort(f) ==
    /\ Gets("abort", f)
    /\ active' = IF Receiving(f) THEN None ELSE active
    /\ UNCHANGED <<panelVars, sup, slotVars, fresh, pump, task, up, deciding, kept,
                   history>>

-----------------------------------------------------------------------------
Init ==
    /\ panel = [f \in Sends |-> "new"]
    /\ spools = {}
    /\ cmds = <<>>
    /\ sup = "idle"
    /\ slot = None
    /\ flag = FALSE
    /\ fresh = None
    /\ pump = None
    /\ task = [f \in Sends |-> [at |-> "none", sent |-> 0]]
    /\ down = <<>>
    /\ up = <<>>
    /\ deciding = None
    /\ active = None
    /\ kept = {}
    /\ replaced = {}
    /\ stray = {}

Supervisor == TakeSend \/ RaiseFlag \/ Offer

Pump == Attach \/ \E f \in Sends : HearAccept(f) \/ HearEnd(f)

TaskStep(f) ==
    \/ TaskOpen(f) \/ TaskChunk(f) \/ TaskEnd(f) \/ TaskStops(f) \/ TaskFails(f)
    \/ TaskEmpties(f) \/ TaskClears(f)

Viewer ==
    \/ \E f \in Sends : GetOffer(f) \/ GetAbort(f)
    \/ \E f \in Sends, ok \in BOOLEAN : GetChunk(f, ok) \/ GetEnd(f, ok)
    \/ \E accept \in BOOLEAN : Decide(accept)

Panel(f) == Request(f) \/ UploadFails(f) \/ HandOver(f)

Next ==
    \/ Supervisor \/ Pump \/ Viewer \/ Leave
    \/ \E f \in Sends : Panel(f) \/ TaskStep(f)

\* Tasks run, the queue serves its senders in turn, and the viewer reads and
\* its user answers.
Fairness ==
    /\ WF_vars(Supervisor) /\ SF_vars(Offer)
    /\ WF_vars(Pump)
    /\ WF_vars(Viewer) /\ WF_vars(\E accept \in BOOLEAN : Decide(accept))
    /\ \A f \in Sends : SF_vars(TaskStep(f))

Spec == Init /\ [][Next]_vars /\ Fairness

-----------------------------------------------------------------------------
TypeOK ==
    /\ panel \in [Sends -> {"new", "spooling", "over"}]
    /\ spools \subseteq Sends
    /\ cmds \in Seq(Sends)
    /\ sup \in {"idle", "filled", "offering", "ended"}
    /\ slot \in Slots \union {None}
    /\ flag \in BOOLEAN
    /\ fresh \in Sends \union {None}
    /\ fresh # None <=> sup \in {"filled", "offering"}
    /\ pump \in Sends \union {None}
    /\ task \in [Sends -> [at : {"none", "open", "stream", "failing", "failed", "gone"},
                           sent : 0..Size]]
    /\ down \in Seq(Messages) /\ Len(down) <= LaneCap
    /\ up \in Seq(Messages)
    /\ deciding \in Sends \union {None}
    /\ active \in Receipts \union {None}
    /\ kept \subseteq Sends /\ replaced \subseteq Sends /\ stray \subseteq Sends

\* "The session deletes the spool when the transfer completes, is declined, or
\* aborts": while the session lives every spool file is one the panel uploads,
\* the command queue holds, or the slot names; and the slot's is never gone.
SpoolsOwned ==
    Live =>
        /\ \A f \in spools :
              panel[f] = "spooling" \/ f \in {cmds[i] : i \in 1..Len(cmds)} \/ InSlot(f)
        /\ slot # None => slot.id \in spools

\* The "panel busy indicator": the flag that makes the panel refuse further files
\* is up exactly while the slot holds a send, however supervisor, pump and failing
\* tasks interleave, but between the two writes of the supervisor or of a failing
\* task, and after a task emptied another send's slot.
BusyAgrees ==
    /\ Live /\ sup # "filled" /\ stray = {}
    /\ \A f \in Sends : ~Task(f, "failed")
    => (flag <=> slot # None)

\* Where a message waits in the control queue.
Waiting(kind, f) == {i \in 1..Len(down) : down[i] = Message(kind, f)}

\* Nothing is lost between the spool file and the viewer's disk: every chunk the
\* task has sent of the file the viewer receives is written or still queued, and
\* the end is queued behind the last one, however the sends replace each other
\* and their tasks stop, fail or wait for room.
ChunksInStep ==
    \A f \in Sends : Receiving(f) =>
        /\ active.received + Cardinality(Waiting("chunk", f)) = task[f].sent
        /\ \A i \in Waiting("end", f) :
              task[f].sent = Size /\ \A j \in Waiting("chunk", f) : j < i

\* When the host is done with a send so is the viewer, unless another send
\* superseded it or emptied its slot: then the viewer is not told.
ViewerDone(f) ==
    (Live /\ Receiving(f) /\ ~InSlot(f))
        ~> (~Live \/ ~Receiving(f) \/ f \in replaced \union stray)

\* Every send comes to its end, in every order of answers, failures and other
\* sends: on the host, where the slot and the panel's busy flag are free again,
\* and at the viewer.  The flag stays up only if a failing task emptied the slot
\* of another send that had yet to raise it.
SendEnds ==
    /\ \A f \in Sends : InSlot(f) ~> ~InSlot(f)
    /\ flag ~> ~Live \/ ~flag \/ stray # {}
    /\ \A f \in Sends : ViewerDone(f)
=============================================================================
