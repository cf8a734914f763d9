---------------------------- MODULE SessionTasks ----------------------------
(***************************************************************************)
(* One established session as its tasks see each other: the supervisor,    *)
(* the incoming pump and the writer, the command queue the panel fills     *)
(* (mpsc of 8 in the code), and the control queue that the supervisor and  *)
(* the pump fill and the writer empties (mpsc of 32).                      *)
(*                                                                         *)
(* What matters here is who waits on whom, so a message is only what it    *)
(* does to its sender: what commands and requests do to permissions, audio *)
(* and transfers is the matter of the other modules.                       *)
(***************************************************************************)
EXTENDS Naturals, Sequences

CONSTANTS
    CmdCap,  \* capacity of the command queue
    CtlCap   \* capacity of the control queue

ASSUME CapsAssumption == CmdCap \in Nat \ {0} /\ CtlCap \in Nat \ {0}

VARIABLES
    sup,     \* where the supervisor stands
    pending, \* the message the supervisor is about to queue
    pump,    \* where the incoming pump stands
    writer,  \* where the writer stands
    cmds,    \* the command queue
    ctl,     \* the control queue
    peer,    \* the viewer and its socket
    silent   \* nothing arrived for RECV_TIMEOUT

vars == <<sup, pending, pump, writer, cmds, ctl, peer, silent>>

Commands == {"change", "kick"}
Messages == {"note", "bye"}

Room == Len(ctl) < CtlCap

(***************************************************************************)
(* The supervisor: one turn of its select, then the wait for queue space.  *)
(***************************************************************************)
Say(msg) ==
    /\ sup' = "sending"
    /\ pending' = msg

\* Every command of the panel ends in a message to the viewer; a kick in Bye.
TakeCommand ==
    /\ sup = "select"
    /\ cmds # <<>>
    /\ cmds' = Tail(cmds)
    /\ Say(IF Head(cmds) = "kick" THEN "bye" ELSE "note")
    /\ UNCHANGED <<pump, writer, ctl, peer, silent>>

\* The cursor moved or the host's clipboard changed.
Forward ==
    /\ sup = "select"
    /\ Say("note")
    /\ UNCHANGED <<pump, writer, cmds, ctl, peer, silent>>

\* Faulty variants, here and below, are named "Faulty..." and are no part of
\* the specification: each shows that a property would notice such a bug.
\* This one sends HostStats and never looks at last_recv.
FaultyTick ==
    /\ sup = "select"
    /\ Say("note")
    /\ UNCHANGED <<pump, writer, cmds, ctl, peer, silent>>

\* Every two seconds: give an unresponsive viewer up, or send HostStats.
Tick ==
    /\ sup = "select"
    /\ IF silent THEN sup' = "down" /\ UNCHANGED pending ELSE Say("note")
    /\ UNCHANGED <<pump, writer, cmds, ctl, peer, silent>>

SeePumpEnd ==
    /\ sup = "select"
    /\ pump = "off"
    /\ sup' = "down"
    /\ UNCHANGED <<pending, pump, writer, cmds, ctl, peer, silent>>

\* ctl_tx.send().await: the supervisor does nothing else until there is room.
SendDone ==
    /\ sup = "sending"
    /\ writer # "off"
    /\ Room
    /\ ctl' = Append(ctl, pending)
    /\ sup' = IF pending = "bye" THEN "flush" ELSE "select"
    /\ UNCHANGED <<pending, pump, writer, cmds, peer, silent>>

\* The queue is closed, and the supervisor tries its Bye again.
FaultySendFails ==
    /\ sup = "sending"
    /\ writer = "off"
    /\ sup' = IF pending = "bye" THEN "sending" ELSE "down"
    /\ UNCHANGED <<pending, pump, writer, cmds, ctl, peer, silent>>

\* The writer is gone and its queue closed; the result of a Bye is ignored.
SendFails ==
    /\ sup = "sending"
    /\ writer = "off"
    /\ sup' = IF pending = "bye" THEN "flush" ELSE "down"
    /\ UNCHANGED <<pending, pump, writer, cmds, ctl, peer, silent>>

\* A moment for the writer to flush the Bye.
Flushed ==
    /\ sup = "flush"
    /\ sup' = "down"
    /\ UNCHANGED <<pending, pump, writer, cmds, ctl, peer, silent>>

\* The session leaves the registry and its tasks are aborted.
Teardown ==
    /\ sup = "down"
    /\ sup' = "ended"
    /\ pump' = "off"
    /\ writer' = "off"
    /\ cmds' = <<>>
    /\ ctl' = <<>>
    /\ UNCHANGED <<pending, peer, silent>>

(***************************************************************************)
(* The pump: every message it handles refreshes last_recv.                 *)
(***************************************************************************)
PumpReads == pump = "idle" /\ peer = "active"

\* Input, stats and settings need no answer.
PumpQuiet ==
    /\ PumpReads
    /\ silent' = FALSE
    /\ UNCHANGED <<sup, pending, pump, writer, cmds, ctl, peer>>

\* Pong, AudioGrant and Error are offered to the queue, and dropped when it
\* is full or closed.
PumpOffers ==
    /\ PumpReads
    /\ silent' = FALSE
    /\ ctl' = IF Room /\ writer # "off" THEN Append(ctl, "note") ELSE ctl
    /\ UNCHANGED <<sup, pending, pump, writer, cmds, peer>>

\* The file messages' answers wait for room.
PumpAnswers ==
    /\ PumpReads
    /\ silent' = FALSE
    /\ pump' = "sending"
    /\ UNCHANGED <<sup, pending, writer, cmds, ctl, peer>>

PumpSendDone ==
    /\ pump = "sending"
    /\ \/ /\ writer # "off"
          /\ Room
          /\ ctl' = Append(ctl, "note")
          /\ pump' = "idle"
       \/ /\ writer = "off"     \* some answers give up, some ignore it
          /\ pump' \in {"idle", "off"}
          /\ UNCHANGED ctl
    /\ UNCHANGED <<sup, pending, writer, cmds, peer, silent>>

\* The viewer says bye or breaks the protocol.
PumpBye ==
    /\ PumpReads
    /\ silent' = FALSE
    /\ pump' = "off"
    /\ UNCHANGED <<sup, pending, writer, cmds, ctl, peer>>

PumpSeesClose ==
    /\ pump = "idle"
    /\ peer = "closed"
    /\ pump' = "off"
    /\ UNCHANGED <<sup, pending, writer, cmds, ctl, peer, silent>>

(***************************************************************************)
(* The writer: control first; then audio and video, which come and go.     *)
(***************************************************************************)
WriteControl ==
    /\ writer = "idle"
    /\ ctl # <<>>
    /\ ctl' = Tail(ctl)
    /\ writer' = "socket"
    /\ UNCHANGED <<sup, pending, pump, cmds, peer, silent>>

WriteMedia ==
    /\ writer = "idle"
    /\ ctl = <<>>
    /\ writer' = "socket"
    /\ UNCHANGED <<sup, pending, pump, cmds, ctl, peer, silent>>

\* The socket takes the message at once, or after the viewer has read on; an
\* error ends the writer.
Written ==
    /\ writer = "socket"
    /\ writer' = IF peer = "closed" THEN "off" ELSE "idle"
    /\ UNCHANGED <<sup, pending, pump, cmds, ctl, peer, silent>>

(***************************************************************************)
(* Outside.                                                                *)
(***************************************************************************)
\* try_send of a panel request; a full queue drops the command.
PanelSends(c) ==
    /\ sup # "ended"
    /\ Len(cmds) < CmdCap
    /\ cmds' = Append(cmds, c)
    /\ UNCHANGED <<sup, pending, pump, writer, ctl, peer, silent>>

\* A suspended viewer neither sends nor reads, with its socket still open.
PeerMoves ==
    /\ \/ peer = "active" /\ peer' \in {"suspended", "closed"}
       \/ peer = "suspended" /\ peer' \in {"active", "closed"}
    /\ UNCHANGED <<sup, pending, pump, writer, cmds, ctl, silent>>

Silence ==
    /\ peer # "active"
    /\ silent' = TRUE
    /\ UNCHANGED <<sup, pending, pump, writer, cmds, ctl, peer>>

-----------------------------------------------------------------------------
Init ==
    /\ sup = "select"
    /\ pending = "note"
    /\ pump = "idle"
    /\ writer = "idle"
    /\ cmds = <<>>
    /\ ctl = <<>>
    /\ peer = "active"
    /\ silent = FALSE

Supervisor ==
    \/ TakeCommand \/ Forward \/ Tick \/ SeePumpEnd
    \/ SendDone \/ SendFails \/ Flushed \/ Teardown

Pump ==
    \/ PumpQuiet \/ PumpOffers \/ PumpAnswers \/ PumpSendDone
    \/ PumpBye \/ PumpSeesClose

Writer == WriteControl \/ WriteMedia \/ Written

Outside == (\E c \in Commands : PanelSends(c)) \/ PeerMoves \/ Silence

Next == Supervisor \/ Pump \/ Writer \/ Outside

\* The runtime runs every task that can run; tokio's select picks among the
\* ready branches at random, so none is passed over for ever; its channel
\* hands free capacity to the sender that waits longest, before any try_send.
\* A write completes if the viewer reads now and again or the socket is
\* closed: nothing is assumed of a viewer that stays suspended, but that it
\* is noticed as silent once the time has passed.
Fairness ==
    /\ WF_vars(SendFails) /\ WF_vars(Flushed) /\ WF_vars(Teardown)
    /\ SF_vars(SendDone) /\ SF_vars(PumpSendDone)
    /\ SF_vars(TakeCommand) /\ SF_vars(Tick) /\ SF_vars(SeePumpEnd)
    /\ WF_vars(PumpSeesClose)
    /\ WF_vars(WriteControl)
    /\ SF_vars(peer # "suspended" /\ Written)
    /\ WF_vars(Silence)

Spec == Init /\ [][Next]_vars /\ Fairness

-----------------------------------------------------------------------------
TypeOK ==
    /\ sup \in {"select", "sending", "flush", "down", "ended"}
    /\ pending \in Messages
    /\ pump \in {"idle", "sending", "off"}
    /\ writer \in {"idle", "socket", "off"}
    /\ cmds \in Seq(Commands) /\ Len(cmds) <= CmdCap
    /\ ctl \in Seq(Messages) /\ Len(ctl) <= CtlCap
    /\ peer \in {"active", "suspended", "closed"}
    /\ silent \in BOOLEAN

KickQueued == \E i \in 1..Len(cmds) : cmds[i] = "kick"

\* A closed socket ends the session, whatever the tasks were waiting for and
\* whatever was still queued; so does a kick that reached the queue, behind
\* whatever commands and messages are queued before it, unless the viewer stops
\* reading.
EndsReaped ==
    /\ peer = "closed" ~> sup = "ended"
    /\ KickQueued ~> (sup = "ended" \/ peer = "suspended")

\* A viewer that went silent is given up by the next tick, unless its socket
\* has filled up and the supervisor waits for the writer.
SilentReapedUnlessWedged ==
    silent ~> (sup = "ended" \/ ~silent \/ (sup = "sending" /\ writer = "socket"))
=============================================================================
