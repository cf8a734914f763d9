------------------------------ MODULE Clipboard ------------------------------
(***************************************************************************)
(* The clipboards of the host and of its viewers.                          *)
(*                                                                         *)
(* The watcher polls the host's clipboard while some session has the       *)
(* grant, and publishes a text that differs from the one seen last; each   *)
(* session hands the latest publication to its viewer.  A session's pump   *)
(* stores a viewer's text as seen and then sets it, in two steps and off   *)
(* the session's task: once begun, an application outlives its session.    *)
(* Two different texts are taken to have different hashes.                 *)
(*                                                                         *)
(* A text beyond the size cap is refused from a viewer, which changes      *)
(* nothing, and is no Text here; on the host's clipboard it is Unshared,   *)
(* like an image or nothing at all.                                        *)
(***************************************************************************)
EXTENDS Naturals

CONSTANTS
    Session,   \* connections, each used once
    Text,      \* what can be shared
    Unshared,  \* a clipboard without such a text
    NoText     \* no text

VARIABLES
    clipboard,  \* what the host's clipboard holds
    lastSeen,   \* ClipboardSync::last_seen_hash
    watcher,    \* waits for its tick, or has a poll to begin, to end or to publish
    polled,     \* what the poll has read
    version,    \* clipboard_tx: publications so far,
    published,  \*   and the latest
    session,    \* a session's stage
    allowed,    \* its grant
    noticed,    \* the publication its receiver has marked as seen
    applying,   \* the text its pump has stored as seen and not yet set
    shown,      \* history: what its viewer was sent last
    changes     \* history: texts copied on the host, stored as seen, and set

clip == <<clipboard, lastSeen>>
poll == <<watcher, polled>>
bus == <<version, published>>
link == <<session, allowed, noticed, shown>>
vars == <<clip, poll, bus, link, applying, changes>>

-----------------------------------------------------------------------------
\* Somebody copies on the host, or clears its clipboard.
HostCopies(t) ==
    /\ clipboard' = t
    /\ changes' = changes + 1
    /\ UNCHANGED <<lastSeen, poll, bus, link, applying>>

-----------------------------------------------------------------------------
\* A viewer's text, with the grant: seen first, then set.

ApplyFromViewer(s, t) ==
    /\ session[s] = "live"
    /\ allowed[s]
    /\ applying[s] = NoText
    /\ lastSeen' = t
    /\ applying' = [applying EXCEPT ![s] = t]
    /\ changes' = changes + 1
    /\ UNCHANGED <<clipboard, poll, bus, link>>

SetText(s) ==
    /\ applying[s] # NoText
    /\ clipboard' = applying[s]
    /\ applying' = [applying EXCEPT ![s] = NoText]
    /\ changes' = changes + 1
    /\ UNCHANGED <<lastSeen, poll, bus, link>>

\* The system refuses: the hash stays as it was stored.
SetTextFails(s) ==
    /\ applying[s] # NoText
    /\ applying' = [applying EXCEPT ![s] = NoText]
    /\ UNCHANGED <<clip, poll, bus, link, changes>>

-----------------------------------------------------------------------------
\* The watcher.

Tick ==
    /\ watcher = "waits"
    /\ \E s \in Session : session[s] \in {"registered", "live"} /\ allowed[s]
    /\ watcher' = "reads"
    /\ UNCHANGED <<clip, polled, bus, link, applying, changes>>

GetText ==
    /\ watcher = "reads"
    /\ IF clipboard = Unshared
       THEN watcher' = "waits" /\ polled' = NoText
       ELSE watcher' = "compares" /\ polled' = clipboard
    /\ UNCHANGED <<clip, bus, link, applying, changes>>

\* The first observation is only stored.
PollHostChange ==
    /\ watcher = "compares"
    /\ lastSeen' = polled
    /\ IF lastSeen \in {polled, NoText}
       THEN watcher' = "waits" /\ polled' = NoText
       ELSE watcher' = "publishes" /\ polled' = polled
    /\ UNCHANGED <<clipboard, bus, link, applying, changes>>

Publish ==
    /\ watcher = "publishes"
    /\ version' = version + 1
    /\ published' = polled
    /\ watcher' = "waits"
    /\ polled' = NoText
    /\ UNCHANGED <<clip, link, applying, changes>>

-----------------------------------------------------------------------------
\* A session.

\* In the registry, and counted by the watcher, before it subscribes.
Register(s, grant) ==
    /\ session[s] = "new"
    /\ session' = [session EXCEPT ![s] = "registered"]
    /\ allowed' = [allowed EXCEPT ![s] = grant]
    /\ UNCHANGED <<clip, poll, bus, noticed, shown, applying, changes>>

\* What was published before is marked as seen.
Subscribe(s) ==
    /\ session[s] = "registered"
    /\ session' = [session EXCEPT ![s] = "live"]
    /\ noticed' = [noticed EXCEPT ![s] = version]
    /\ UNCHANGED <<clip, poll, bus, allowed, shown, applying, changes>>

SetClipboardGrant(s, grant) ==
    /\ session[s] \in {"registered", "live"}
    /\ allowed' = [allowed EXCEPT ![s] = grant]
    /\ UNCHANGED <<clip, poll, bus, session, noticed, shown, applying, changes>>

\* A change is marked as seen with or without the grant, and sent with it.
Forward(s) ==
    /\ session[s] = "live"
    /\ noticed[s] # version
    /\ noticed' = [noticed EXCEPT ![s] = version]
    /\ shown' = IF allowed[s] THEN [shown EXCEPT ![s] = published] ELSE shown
    /\ UNCHANGED <<clip, poll, bus, session, allowed, applying, changes>>

\* The pump is aborted, but not an application it has handed on.
Leave(s) ==
    /\ session[s] \in {"registered", "live"}
    /\ session' = [session EXCEPT ![s] = "gone"]
    /\ UNCHANGED <<clip, poll, bus, allowed, noticed, shown, applying, changes>>

-----------------------------------------------------------------------------
Init ==
    /\ clipboard \in Text \union {Unshared}
    /\ lastSeen = NoText
    /\ watcher = "waits"
    /\ polled = NoText
    /\ version = 0
    /\ published = NoText
    /\ session = [s \in Session |-> "new"]
    /\ allowed = [s \in Session |-> FALSE]
    /\ noticed = [s \in Session |-> 0]
    /\ applying = [s \in Session |-> NoText]
    /\ shown = [s \in Session |-> NoText]
    /\ changes = 0

Watcher == Tick \/ GetText \/ PollHostChange \/ Publish

Pump(s) ==
    \/ \E t \in Text : ApplyFromViewer(s, t)
    \/ SetText(s)
    \/ SetTextFails(s)

Supervisor(s) ==
    \/ \E grant \in BOOLEAN : Register(s, grant) \/ SetClipboardGrant(s, grant)
    \/ Subscribe(s)
    \/ Forward(s)
    \/ Leave(s)

Next ==
    \/ \E t \in Text \union {Unshared} : HostCopies(t)
    \/ Watcher
    \/ \E s \in Session : Pump(s) \/ Supervisor(s)

Spec == Init /\ [][Next]_vars

-----------------------------------------------------------------------------
TypeOK ==
    /\ clipboard \in Text \union {Unshared}
    /\ lastSeen \in Text \union {NoText}
    /\ watcher \in {"waits", "reads", "compares", "publishes"}
    /\ polled \in Text \union {NoText}
    /\ version \in Nat
    /\ published \in Text \union {NoText}
    /\ session \in [Session -> {"new", "registered", "live", "gone"}]
    /\ allowed \in [Session -> BOOLEAN]
    /\ noticed \in [Session -> Nat]
    /\ applying \in [Session -> Text \union {NoText}]
    /\ shown \in [Session -> Text \union {NoText}]
    /\ changes \in Nat

\* No echo goes round: whatever sessions, grants and polls do in between, there
\* is a publication at most for each text copied on the host and two for each
\* text a viewer sent, and none for what the clipboard held at the start.
PublicationsBounded == version <= changes

\* Publications still to come if nobody copies or sends any more: the text just
\* read, if it is not the one last seen, and the clipboard's, if it is another.
Differs(a, b) == IF a = b THEN 0 ELSE 1

Owed ==
    CASE watcher = "publishes" -> 1 + Differs(clipboard, lastSeen)
      [] watcher = "compares" ->
            Differs(clipboard, polled) + (IF lastSeen = NoText THEN 0 ELSE Differs(polled, lastSeen))
      [] OTHER -> IF lastSeen = NoText THEN 0 ELSE Differs(clipboard, lastSeen)

\* The inductive form of PublicationsBounded.
OwedBounded == version + Owed <= changes
=============================================================================
