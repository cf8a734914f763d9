------------------------------- MODULE Grants -------------------------------
(***************************************************************************)
(* One trusted device: what the trust store says of it in memory and on    *)
(* disk, what the panel asks for, and what the device's sessions enforce.  *)
(*                                                                         *)
(* A panel request first changes the store under the trust lock, then, in  *)
(* a second critical section under the clients lock, pushes the change to  *)
(* the sessions that are registered by then: straight into the flags of    *)
(* their handles, and as a command into their bounded queues.  A session   *)
(* copies the store when its handshake verifies the device, registers some *)
(* time later, and takes its commands one at a time.                       *)
(***************************************************************************)
EXTENDS Naturals, Sequences

CONSTANTS
    Sessions,  \* the device's sessions; each runs once
    Requests,  \* panel requests that may be in flight together
    Kinds,     \* the permissions, among "input", "clipboard", "audio"
    CmdCap,    \* capacity of a session's command queue
    Unknown    \* the store has no record of the device

ASSUME KindsAssumption == Kinds \subseteq {"input", "clipboard", "audio"}
ASSUME CapAssumption == CmdCap \in Nat \ {0}
ASSUME UnknownAssumption == Unknown \notin [Kinds -> BOOLEAN]

VARIABLES
    mem,      \* the device's record in the running host
    disk,     \* its record in the store's file
    req,      \* each panel request: idle, or stored and about to push
    at,       \* where each session stands
    flags,    \* the handle's flags: for all but audio, what is enforced
    permit,   \* AudioCtl.allowed, which the session's audio obeys
    queue,    \* each session's queue of commands
    \* History, read by the properties only:
    missed,   \* permissions of a session that a change did not reach
    unsaved,  \* the last save of the store failed
    revoked   \* the last thing the panel was told: the device is revoked

vars == <<mem, disk, req, at, flags, permit, queue, missed, unsaved, revoked>>

store == <<mem, disk, unsaved, revoked>>
sessionVars == <<at, flags, permit, queue>>

Kick == <<"kick", TRUE>>
Commands == (Kinds \X BOOLEAN) \union {Kick}
Aspects == Kinds \union {"kick"}
Records == [Kinds -> BOOLEAN] \union {Unknown}

\* What a fresh pairing may do: listen, and nothing else.
Default == [k \in Kinds |-> k = "audio"]

Enforced(s, k) == IF k = "audio" THEN permit[s] ELSE flags[s][k]

\* The store's new contents in memory, and on disk if the save succeeds.
Save(record, ok) ==
    /\ mem' = record
    /\ disk' = IF ok THEN record ELSE disk
    /\ unsaved' = ~ok

\* A session's copy of the store at the end of its handshake.
Adopt(s, record) ==
    /\ at[s] = "new"
    /\ at' = [at EXCEPT ![s] = "verified"]
    /\ flags' = [flags EXCEPT ![s] = record]
    /\ permit' = [permit EXCEPT ![s] = "audio" \in Kinds /\ record["audio"]]
    /\ UNCHANGED <<queue, req>>

\* The sessions of S did not learn of a change of the aspects in A.
Miss(S, A) ==
    missed' = [s \in Sessions |->
                 IF s \in S THEN missed[s] \union A ELSE missed[s]]

Present == {s \in Sessions : at[s] \in {"verified", "live"}}

(***************************************************************************)
(* The handshake's end, the session's start and end.                       *)
(***************************************************************************)
\* A reconnecting device proves its token; failing to save last_seen is
\* ignored.
Verify(s, ok) ==
    /\ mem # Unknown
    /\ Save(mem, ok)
    /\ Adopt(s, mem)
    /\ UNCHANGED <<missed, revoked>>

\* A pairing device is enrolled, replacing its old record; if the save fails
\* the pairing is refused, but the record stays in memory.
Enroll(s, ok) ==
    /\ at[s] = "new"
    /\ Save(Default, ok)
    /\ revoked' = FALSE
    /\ Miss(Present, Kinds)
    /\ IF ok THEN Adopt(s, Default)
       ELSE /\ at' = [at EXCEPT ![s] = "ended"]
            /\ UNCHANGED <<flags, permit, queue, req>>

\* The session's encoder is created and its handle enters the registry.
Register(s) ==
    /\ at[s] = "verified"
    /\ at' = [at EXCEPT ![s] = "live"]
    /\ UNCHANGED <<store, req, flags, permit, queue, missed>>

\* The socket died, the encoder failed or the session is over: the handle
\* leaves the registry and its queue is dropped.
End(s) ==
    /\ s \in Present
    /\ at' = [at EXCEPT ![s] = "ended"]
    /\ queue' = [queue EXCEPT ![s] = <<>>]
    /\ UNCHANGED <<store, req, flags, permit, missed>>

\* Faulty variants, here and below, are named "Faulty..." and are no part of
\* the specification: each shows that a property would notice such a bug.
\* This one updates the handle's flag but not what the session's audio obeys.
FaultyHandle(s) ==
    /\ at[s] = "live"
    /\ queue[s] # <<>>
    /\ LET cmd == Head(queue[s]) IN
       IF cmd = Kick
       THEN /\ at' = [at EXCEPT ![s] = "ended"]
            /\ queue' = [queue EXCEPT ![s] = <<>>]
            /\ UNCHANGED flags
       ELSE /\ flags' = [flags EXCEPT ![s][cmd[1]] = cmd[2]]
            /\ queue' = [queue EXCEPT ![s] = Tail(@)]
            /\ UNCHANGED at
    /\ UNCHANGED <<store, req, permit, missed>>

\* The supervisor takes the next command.
Handle(s) ==
    /\ at[s] = "live"
    /\ queue[s] # <<>>
    /\ LET cmd == Head(queue[s]) IN
       IF cmd = Kick
       THEN /\ at' = [at EXCEPT ![s] = "ended"]
            /\ queue' = [queue EXCEPT ![s] = <<>>]
            /\ UNCHANGED <<flags, permit>>
       ELSE /\ flags' = [flags EXCEPT ![s][cmd[1]] = cmd[2]]
            /\ permit' = [permit EXCEPT ![s] = IF cmd[1] = "audio" THEN cmd[2] ELSE @]
            /\ queue' = [queue EXCEPT ![s] = Tail(@)]
            /\ UNCHANGED at
    /\ UNCHANGED <<store, req, missed>>

(***************************************************************************)
(* A panel request: set_input_grant, set_clipboard_grant, set_audio_grant  *)
(* or revoke_device.                                                       *)
(***************************************************************************)
Aspect(cmd) == cmd[1]

Stored(cmd) == IF cmd = Kick THEN Unknown ELSE [mem EXCEPT ![cmd[1]] = cmd[2]]

\* The change is made in memory and the save forgotten.
FaultyStore(r, cmd) ==
    /\ req[r] = <<>>
    /\ mem' = IF mem = Unknown THEN Unknown ELSE Stored(cmd)
    /\ revoked' = IF cmd = Kick /\ mem # Unknown THEN TRUE ELSE revoked
    /\ req' = [req EXCEPT ![r] = cmd]
    /\ UNCHANGED <<disk, unsaved, sessionVars, missed>>

\* The store changes first; a device it does not know changes nothing, and is
\* pushed all the same.
Store(r, cmd) ==
    /\ req[r] = <<>>
    /\ mem # Unknown => Save(Stored(cmd), TRUE)
    /\ mem = Unknown => UNCHANGED <<mem, disk, unsaved>>
    /\ revoked' = IF cmd = Kick /\ mem # Unknown THEN TRUE ELSE revoked
    /\ req' = [req EXCEPT ![r] = cmd]
    /\ UNCHANGED <<sessionVars, missed>>

\* When the save fails the request fails, before anything is pushed, and the
\* change stays in memory.
StoreFails(r, cmd) ==
    /\ req[r] = <<>>
    /\ mem # Unknown
    /\ Save(Stored(cmd), FALSE)
    /\ Miss(Present, {Aspect(cmd)})
    /\ UNCHANGED <<req, sessionVars, revoked>>

\* Then every registered session: its handle's flag, and a command if its
\* queue has room.
Push(r) ==
    LET cmd == req[r]
        a == Aspect(cmd)
        live == {s \in Sessions : at[s] = "live"}
        room == {s \in live : Len(queue[s]) < CmdCap}
        current == cmd = Kick \/ (mem # Unknown /\ mem[a] = cmd[2])
    IN
    /\ cmd # <<>>
    /\ flags' = [s \in Sessions |->
                   IF s \in live /\ cmd # Kick
                   THEN [flags[s] EXCEPT ![a] = cmd[2]] ELSE flags[s]]
    /\ queue' = [s \in Sessions |->
                   IF s \in room THEN Append(queue[s], cmd) ELSE queue[s]]
    /\ missed' = [s \in Sessions |->
                   IF s \notin Present THEN missed[s]
                   ELSE IF s \in room /\ current THEN missed[s] \ {a}
                   ELSE missed[s] \union {a}]
    /\ req' = [req EXCEPT ![r] = <<>>]
    /\ UNCHANGED <<store, at, permit>>

\* The host stops, at any point, and starts again from the store's file.
Restart ==
    /\ mem' = disk
    /\ unsaved' = FALSE
    /\ req' = [r \in Requests |-> <<>>]
    /\ at' = [s \in Sessions |-> IF s \in Present THEN "ended" ELSE at[s]]
    /\ queue' = [s \in Sessions |-> <<>>]
    /\ UNCHANGED <<disk, flags, permit, missed, revoked>>

-----------------------------------------------------------------------------
Init ==
    /\ mem = Unknown
    /\ disk = Unknown
    /\ req = [r \in Requests |-> <<>>]
    /\ at = [s \in Sessions |-> "new"]
    /\ flags = [s \in Sessions |-> [k \in Kinds |-> FALSE]]
    /\ permit = [s \in Sessions |-> FALSE]
    /\ queue = [s \in Sessions |-> <<>>]
    /\ missed = [s \in Sessions |-> {}]
    /\ unsaved = FALSE
    /\ revoked = FALSE

SessionStep(s) ==
    \/ \E ok \in BOOLEAN : Verify(s, ok) \/ Enroll(s, ok)
    \/ Register(s) \/ End(s) \/ Handle(s)

RequestStep(r) ==
    \/ \E cmd \in Commands : Store(r, cmd) \/ StoreFails(r, cmd)
    \/ Push(r)

Next ==
    \/ \E s \in Sessions : SessionStep(s)
    \/ \E r \in Requests : RequestStep(r)
    \/ Restart

Spec == Init /\ [][Next]_vars

-----------------------------------------------------------------------------
TypeOK ==
    /\ mem \in Records
    /\ disk \in Records
    /\ req \in [Requests -> Commands \union {<<>>}]
    /\ at \in [Sessions -> {"new", "verified", "live", "ended"}]
    /\ flags \in [Sessions -> [Kinds -> BOOLEAN]]
    /\ permit \in [Sessions -> BOOLEAN]
    /\ queue \in [Sessions -> Seq(Commands)]
    /\ \A s \in Sessions : Len(queue[s]) <= CmdCap
    /\ missed \in [Sessions -> SUBSET Aspects]
    /\ unsaved \in BOOLEAN
    /\ revoked \in BOOLEAN

\* A registered session with nothing on its way to it.
Settled(s) ==
    /\ at[s] = "live"
    /\ queue[s] = <<>>
    /\ \A r \in Requests : req[r] = <<>>

\* A settled session enforces, and the panel shows, what the store says of
\* the device, unless a change could not reach it: its queue was full, it was
\* between verification and registration, the save failed, the device was
\* enrolled anew, or two requests pushed in the other order than they stored.
\* There is no other way for the two to drift apart.
SettledAgrees ==
    \A s \in Sessions : Settled(s) =>
        /\ \A k \in Kinds \ missed[s] :
              mem # Unknown => /\ Enforced(s, k) = mem[k]
                               /\ flags[s][k] = mem[k]
        /\ "kick" \notin missed[s] => mem # Unknown

\* A revocation the panel was told of survives restarts and every later save
\* of the store, until the device pairs again.
RevocationDurable == revoked => mem = Unknown /\ disk = Unknown

\* Memory and file differ only while the last save failed: any later save,
\* whatever it was for, makes up for it.
DiskFollows == disk # mem => unsaved

\* "Revoke trust and kick any live session for that device": with no request
\* in flight and no save failed, a session of an unknown device is not live.
RevokedIsKicked ==
    \A s \in Sessions : Settled(s) /\ ~unsaved => mem # Unknown
=============================================================================
