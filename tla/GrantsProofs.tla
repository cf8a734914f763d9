---------------------------- MODULE GrantsProofs ----------------------------
(***************************************************************************)
(* For every set of sessions, of requests and of permissions and every     *)
(* capacity of the queues: what the trust store's file says of a device    *)
(* against what the running host and the panel say.                        *)
(***************************************************************************)
EXTENDS Grants, SequenceTheorems, TLAPS

\* Whenever memory and file may differ, the last save failed; and a device the
\* panel was told is revoked is in neither.
DurableInv ==
    /\ disk # mem => unsaved
    /\ revoked => mem = Unknown /\ disk = Unknown

\* A step of a session leaves the store alone, saves what it holds, or enrolls
\* the device, which ends the revocation.
LEMMA SessionStepDurable ==
    ASSUME DurableInv, NEW s \in Sessions, SessionStep(s)
    PROVE  DurableInv'
<1>1. ASSUME NEW ok \in BOOLEAN, Verify(s, ok) PROVE DurableInv'
  BY <1>1 DEF Verify, Save, DurableInv
<1>2. ASSUME NEW ok \in BOOLEAN, Enroll(s, ok) PROVE DurableInv'
  BY <1>2 DEF Enroll, Save, DurableInv
<1>3. CASE Register(s)
  BY <1>3 DEF Register, store, DurableInv
<1>4. CASE End(s)
  BY <1>4 DEF End, store, DurableInv
<1>5. CASE Handle(s)
  BY <1>5 DEF Handle, store, DurableInv
<1>6. QED
  BY <1>1, <1>2, <1>3, <1>4, <1>5 DEF SessionStep

\* A step of a panel request: a change of a permission never reaches a device
\* the store does not know, so it cannot bring a revoked one back.
LEMMA RequestStepDurable ==
    ASSUME DurableInv, NEW r \in Requests, RequestStep(r)
    PROVE  DurableInv'
<1>1. ASSUME NEW cmd \in Commands, Store(r, cmd) PROVE DurableInv'
  <2>1. CASE mem = Unknown
    BY <1>1, <2>1 DEF Store, DurableInv
  <2>2. CASE mem # Unknown /\ cmd = Kick
    BY <1>1, <2>2 DEF Store, Save, Stored, DurableInv
  <2>3. CASE mem # Unknown /\ cmd # Kick
    BY <1>1, <2>3 DEF Store, Save, DurableInv
  <2>4. QED
    BY <2>1, <2>2, <2>3
<1>2. ASSUME NEW cmd \in Commands, StoreFails(r, cmd) PROVE DurableInv'
  BY <1>2 DEF StoreFails, Save, DurableInv
<1>3. CASE Push(r)
  BY <1>3 DEF Push, store, DurableInv
<1>4. QED
  BY <1>1, <1>2, <1>3 DEF RequestStep

\* The invariant holds at every moment.
LEMMA DurableInvariant == Spec => []DurableInv
<1>1. Init => DurableInv
  BY DEF Init, DurableInv
<1>2. DurableInv /\ [Next]_vars => DurableInv'
  <2> SUFFICES ASSUME DurableInv, [Next]_vars PROVE DurableInv'
    OBVIOUS
  <2>1. ASSUME NEW s \in Sessions, SessionStep(s) PROVE DurableInv'
    BY <2>1, SessionStepDurable
  <2>2. ASSUME NEW r \in Requests, RequestStep(r) PROVE DurableInv'
    BY <2>2, RequestStepDurable
  <2>3. CASE Restart
    BY <2>3 DEF Restart, DurableInv
  <2>4. CASE UNCHANGED vars
    BY <2>4 DEF vars, DurableInv
  <2>5. QED
    BY <2>1, <2>2, <2>3, <2>4 DEF Next
<1>3. QED
  BY <1>1, <1>2, PTL DEF Spec

\* Every change of the store reaches its file with the first save that
\* succeeds, whichever request or handshake made it.
THEOREM FileFollows == Spec => []DiskFollows
<1>1. DurableInv => DiskFollows
  BY DEF DurableInv, DiskFollows
<1>2. QED
  BY <1>1, DurableInvariant, PTL

\* A revocation that was reported holds in memory and on disk, across failing
\* saves, restarts and any panel requests, until the device pairs again.
THEOREM RevocationHolds == Spec => []RevocationDurable
<1>1. DurableInv => RevocationDurable
  BY DEF DurableInv, RevocationDurable
<1>2. QED
  BY <1>1, DurableInvariant, PTL

-----------------------------------------------------------------------------
(***************************************************************************)
(* Type correctness: among others, no queue of commands outgrows its       *)
(* capacity, and the store's record is a whole record or none.             *)
(***************************************************************************)
\* What a panel may ask for is a permission and its value, or the kick.
LEMMA CommandParts ==
    ASSUME NEW cmd \in Commands
    PROVE  /\ cmd # <<>>
           /\ Aspect(cmd) \in Aspects
           /\ cmd # Kick => cmd[1] \in Kinds /\ cmd[2] \in BOOLEAN
           /\ Aspect(cmd) = "kick" <=> cmd = Kick
<1>1. CASE cmd = Kick
  <2>1. Len(cmd) = 2
    BY <1>1 DEF Kick
  <2>2. QED
    BY <1>1, <2>1 DEF Aspects, Kick, Aspect
<1>2. CASE cmd # Kick
  <2>1. PICK k \in Kinds, b \in BOOLEAN : cmd = <<k, b>>
    BY <1>2 DEF Commands
  <2>2. Len(cmd) = 2 /\ cmd[1] = k /\ cmd[2] = b
    BY <2>1
  <2>3. k # "kick"
    BY KindsAssumption
  <2>4. QED
    BY <1>2, <2>2, <2>3 DEF Aspects, Aspect
<1>3. QED
  BY <1>1, <1>2

\* A fresh pairing's record is a record.
LEMMA DefaultIsRecord == Default \in [Kinds -> BOOLEAN]
BY DEF Default

\* A copy of a record at the end of a handshake is well typed.
LEMMA AdoptType ==
    ASSUME TypeOK, NEW s \in Sessions, NEW record \in [Kinds -> BOOLEAN],
           Adopt(s, record)
    PROVE  /\ at' \in [Sessions -> {"new", "verified", "live", "ended"}]
           /\ flags' \in [Sessions -> [Kinds -> BOOLEAN]]
           /\ permit' \in [Sessions -> BOOLEAN]
           /\ UNCHANGED <<queue, req>>
BY DEF Adopt, TypeOK

\* An ended session's queue is dropped.
LEMMA DroppedQueueType ==
    ASSUME TypeOK, NEW s \in Sessions, queue' = [queue EXCEPT ![s] = <<>>]
    PROVE  /\ queue' \in [Sessions -> Seq(Commands)]
           /\ \A t \in Sessions : Len(queue'[t]) <= CmdCap
<1>1. <<>> \in Seq(Commands) /\ Len(<<>>) = 0
  OBVIOUS
<1>2. QED
  BY <1>1, CapAssumption DEF TypeOK

\* Steps of a session.
LEMMA SessionStepType ==
    ASSUME TypeOK, NEW s \in Sessions, SessionStep(s)
    PROVE  TypeOK'
<1>1. ASSUME NEW ok \in BOOLEAN, Verify(s, ok) PROVE TypeOK'
  <2>1. mem \in [Kinds -> BOOLEAN]
    BY <1>1 DEF Verify, TypeOK, Records
  <2>2. QED
    BY <1>1, <2>1, AdoptType DEF Verify, Save, TypeOK
<1>2. ASSUME NEW ok \in BOOLEAN, Enroll(s, ok) PROVE TypeOK'
  <2>1. /\ mem' \in Records /\ disk' \in Records
        /\ unsaved' \in BOOLEAN /\ revoked' \in BOOLEAN
    BY <1>2, DefaultIsRecord DEF Enroll, Save, TypeOK, Records
  <2>2. missed' \in [Sessions -> SUBSET Aspects]
    BY <1>2 DEF Enroll, Miss, TypeOK, Aspects
  <2>3. CASE ok
    BY <1>2, <2>1, <2>2, <2>3, AdoptType, DefaultIsRecord DEF Enroll, TypeOK
  <2>4. CASE ~ok
    BY <1>2, <2>1, <2>2, <2>4 DEF Enroll, TypeOK
  <2>5. QED
    BY <2>3, <2>4
<1>3. CASE Register(s)
  BY <1>3 DEF Register, store, TypeOK
<1>4. CASE End(s)
  BY <1>4, DroppedQueueType DEF End, store, TypeOK
<1>5. CASE Handle(s)
  <2> DEFINE cmd == Head(queue[s])
  <2>1. /\ cmd \in Commands
        /\ Tail(queue[s]) \in Seq(Commands)
        /\ Len(Tail(queue[s])) <= CmdCap
    BY <1>5, HeadTailProperties, CapAssumption DEF Handle, TypeOK
  <2>2. CASE cmd = Kick
    <3>1. queue' = [queue EXCEPT ![s] = <<>>]
      BY <1>5, <2>2 DEF Handle
    <3>2. QED
      BY <1>5, <2>2, <3>1, DroppedQueueType DEF Handle, store, TypeOK
  <2>3. CASE cmd # Kick
    <3>1. cmd[1] \in Kinds /\ cmd[2] \in BOOLEAN
      BY <2>1, <2>3, CommandParts
    <3>2. flags' = [flags EXCEPT ![s][cmd[1]] = cmd[2]]
      BY <1>5, <2>3 DEF Handle
    <3>3. flags' \in [Sessions -> [Kinds -> BOOLEAN]]
      BY <3>1, <3>2 DEF TypeOK
    <3>4. permit' \in [Sessions -> BOOLEAN]
      BY <1>5, <2>3, <3>1 DEF Handle, TypeOK
    <3>5. queue' = [queue EXCEPT ![s] = Tail(queue[s])]
      BY <1>5, <2>3 DEF Handle, TypeOK
    <3>6. /\ queue' \in [Sessions -> Seq(Commands)]
          /\ \A t \in Sessions : Len(queue'[t]) <= CmdCap
      BY <2>1, <3>5 DEF TypeOK
    <3>7. QED
      BY <1>5, <2>3, <3>3, <3>4, <3>6 DEF Handle, store, TypeOK
  <2>4. QED
    BY <2>2, <2>3
<1>6. QED
  BY <1>1, <1>2, <1>3, <1>4, <1>5 DEF SessionStep

\* Steps of a panel request.
LEMMA RequestStepType ==
    ASSUME TypeOK, NEW r \in Requests, RequestStep(r)
    PROVE  TypeOK'
<1>1. ASSUME NEW cmd \in Commands, mem # Unknown PROVE Stored(cmd) \in Records
  <2>1. mem \in [Kinds -> BOOLEAN]
    BY <1>1 DEF TypeOK, Records
  <2>2. CASE cmd = Kick
    BY <2>2 DEF Stored, Records
  <2>3. CASE cmd # Kick
    BY <2>1, <2>3, CommandParts DEF Stored, Records
  <2>4. QED
    BY <2>2, <2>3
<1>2. ASSUME NEW cmd \in Commands, Store(r, cmd) PROVE TypeOK'
  <2>1. mem' \in Records /\ disk' \in Records /\ unsaved' \in BOOLEAN
    BY <1>1, <1>2 DEF Store, Save, TypeOK
  <2>2. QED
    BY <1>2, <2>1 DEF Store, sessionVars, TypeOK
<1>3. ASSUME NEW cmd \in Commands, StoreFails(r, cmd) PROVE TypeOK'
  <2>1. missed' \in [Sessions -> SUBSET Aspects]
    BY <1>3, CommandParts DEF StoreFails, Miss, TypeOK
  <2>2. mem' \in Records /\ disk' \in Records /\ unsaved' \in BOOLEAN
    BY <1>1, <1>3 DEF StoreFails, Save, TypeOK
  <2>3. QED
    BY <1>3, <2>1, <2>2 DEF StoreFails, sessionVars, TypeOK
<1>4. CASE Push(r)
  <2> DEFINE cmd == req[r]
             live == {s \in Sessions : at[s] = "live"}
             room == {s \in live : Len(queue[s]) < CmdCap}
  <2>1. cmd \in Commands
    BY <1>4 DEF Push, TypeOK
  <2>2. flags' \in [Sessions -> [Kinds -> BOOLEAN]]
    <3>1. ASSUME NEW s \in Sessions, cmd # Kick
          PROVE  [flags[s] EXCEPT ![Aspect(cmd)] = cmd[2]] \in [Kinds -> BOOLEAN]
      BY <2>1, <3>1, CommandParts DEF TypeOK
    <3>2. QED
      BY <1>4, <3>1 DEF Push, TypeOK
  <2>3. /\ queue' \in [Sessions -> Seq(Commands)]
        /\ \A s \in Sessions : Len(queue'[s]) <= CmdCap
    <3>1. queue' = [s \in Sessions |->
                      IF s \in room THEN Append(queue[s], cmd) ELSE queue[s]]
      BY <1>4 DEF Push
    <3>2. ASSUME NEW s \in Sessions
          PROVE  queue'[s] \in Seq(Commands) /\ Len(queue'[s]) <= CmdCap
      <4>1. queue[s] \in Seq(Commands) /\ Len(queue[s]) <= CmdCap
        BY DEF TypeOK
      <4>2. CASE s \in room
        <5>1. /\ Append(queue[s], cmd) \in Seq(Commands)
              /\ Len(Append(queue[s], cmd)) = Len(queue[s]) + 1
          BY <2>1, <4>1, AppendProperties
        <5>2. QED
          BY <3>1, <4>1, <4>2, <5>1, CapAssumption
      <4>3. CASE s \notin room
        BY <3>1, <4>1, <4>3
      <4>4. QED
        BY <4>2, <4>3
    <3>3. QED
      BY <3>1, <3>2
  <2>4. missed' \in [Sessions -> SUBSET Aspects]
    BY <1>4, <2>1, CommandParts DEF Push, TypeOK
  <2>5. QED
    BY <1>4, <2>2, <2>3, <2>4 DEF Push, store, TypeOK
<1>5. QED
  BY <1>2, <1>3, <1>4 DEF RequestStep

\* Nothing is queued, and nothing asked for, when the host starts.
LEMMA EmptyQueuesType ==
    /\ [s \in Sessions |-> <<>>] \in [Sessions -> Seq(Commands)]
    /\ \A t \in Sessions : Len([s \in Sessions |-> <<>>][t]) <= CmdCap
    /\ [r \in Requests |-> <<>>] \in [Requests -> Commands \union {<<>>}]
<1>1. <<>> \in Seq(Commands) /\ Len(<<>>) = 0
  OBVIOUS
<1>2. QED
  BY <1>1, CapAssumption

\* The first state.
LEMMA InitType ==
    ASSUME Init
    PROVE  TypeOK
<1>1. /\ queue \in [Sessions -> Seq(Commands)]
      /\ \A s \in Sessions : Len(queue[s]) <= CmdCap
      /\ req \in [Requests -> Commands \union {<<>>}]
  BY EmptyQueuesType DEF Init
<1>2. QED
  BY <1>1 DEF Init, TypeOK, Records

\* A restart of the host.
LEMMA RestartType ==
    ASSUME TypeOK, Restart
    PROVE  TypeOK'
<1>1. /\ queue' \in [Sessions -> Seq(Commands)]
      /\ \A s \in Sessions : Len(queue'[s]) <= CmdCap
      /\ req' \in [Requests -> Commands \union {<<>>}]
  BY EmptyQueuesType DEF Restart
<1>2. QED
  BY <1>1 DEF Restart, TypeOK

\* Every reachable state is well typed, with no queue beyond its capacity.
THEOREM TypeCorrect == Spec => []TypeOK
<1>1. Init => TypeOK
  BY InitType
<1>2. TypeOK /\ [Next]_vars => TypeOK'
  <2> SUFFICES ASSUME TypeOK, [Next]_vars PROVE TypeOK'
    OBVIOUS
  <2>1. ASSUME NEW s \in Sessions, SessionStep(s) PROVE TypeOK'
    BY <2>1, SessionStepType
  <2>2. ASSUME NEW r \in Requests, RequestStep(r) PROVE TypeOK'
    BY <2>2, RequestStepType
  <2>3. CASE Restart
    BY <2>3, RestartType
  <2>4. CASE UNCHANGED vars
    BY <2>4 DEF vars, TypeOK
  <2>5. QED
    BY <2>1, <2>2, <2>3, <2>4 DEF Next
<1>3. QED
  BY <1>1, <1>2, PTL DEF Spec

-----------------------------------------------------------------------------
(***************************************************************************)
(* What a session will enforce once it has taken all its commands.  For a  *)
(* permission that no change missed, and that no request is about to push, *)
(* the last word in the session's queue is what the store says; and with   *)
(* no word of it in the queue it is in force already.  A revocation that   *)
(* was stored is about to be pushed, in the queue, or missed.              *)
(***************************************************************************)
\* There is no command of aspect k in the queue q.
Silent(q, k) == \A i \in 1..Len(q) : q[i][1] # k

\* The last command of aspect k in the queue q, if there is one, says v.
LastSays(q, k, v) ==
    \A i \in 1..Len(q) :
        /\ q[i][1] = k
        /\ \A j \in (i + 1)..Len(q) : q[j][1] # k
        => q[i][2] = v

\* A request stored a change of aspect k and has not pushed it.
Asked(k) == \E r \in Requests : req[r] # <<>> /\ Aspect(req[r]) = k

Agrees(s, k) ==
    /\ LastSays(queue[s], k, mem[k])
    /\ Silent(queue[s], k) => Enforced(s, k) = mem[k] /\ flags[s][k] = mem[k]

SessionAgrees(s) ==
    /\ mem # Unknown =>
         \A k \in Kinds \ missed[s] : Asked(k) \/ Agrees(s, k)
    /\ mem = Unknown /\ "kick" \notin missed[s] =>
         Asked("kick") \/ ~Silent(queue[s], "kick")

AgreesInv ==
    /\ TypeOK
    /\ \A s \in Sessions : at[s] # "live" => queue[s] = <<>>
    /\ \A s \in Present : SessionAgrees(s)

\* A command that joins the queue has the last word of its aspect, and leaves
\* the other aspects alone.
LEMMA AppendSays ==
    ASSUME NEW q \in Seq(Commands), NEW cmd \in Commands, NEW k, NEW v
    PROVE  /\ Aspect(cmd) = k => /\ LastSays(Append(q, cmd), k, cmd[2])
                                 /\ ~Silent(Append(q, cmd), k)
           /\ Aspect(cmd) # k => /\ LastSays(q, k, v) => LastSays(Append(q, cmd), k, v)
                                 /\ Silent(Append(q, cmd), k) <=> Silent(q, k)
<1> DEFINE app == Append(q, cmd)
<1>1. /\ Len(q) \in Nat
      /\ Len(app) = Len(q) + 1
      /\ \A i \in 1..Len(q) : app[i] = q[i]
      /\ app[Len(q) + 1] = cmd
  BY AppendProperties, LenProperties
<1> HIDE DEF app
<1>2. CASE Aspect(cmd) = k
  <2>1. LastSays(app, k, cmd[2])
    <3> SUFFICES ASSUME NEW i \in 1..Len(app), app[i][1] = k,
                        \A j \in (i + 1)..Len(app) : app[j][1] # k
                 PROVE  app[i][2] = cmd[2]
      BY DEF LastSays
    <3>1. i = Len(q) + 1
      BY <1>1, <1>2 DEF Aspect
    <3>2. QED
      BY <1>1, <3>1
  <2>2. ~Silent(app, k)
    BY <1>1, <1>2 DEF Silent, Aspect
  <2>3. QED
    BY <1>2, <2>1, <2>2 DEF app
<1>3. CASE Aspect(cmd) # k
  <2>1. ASSUME LastSays(q, k, v) PROVE LastSays(app, k, v)
    <3> SUFFICES ASSUME NEW i \in 1..Len(app), app[i][1] = k,
                        \A j \in (i + 1)..Len(app) : app[j][1] # k
                 PROVE  app[i][2] = v
      BY DEF LastSays
    <3>1. i \in 1..Len(q) /\ app[i] = q[i]
      BY <1>1, <1>3 DEF Aspect
    <3>2. \A j \in (i + 1)..Len(q) : q[j][1] # k
      BY <1>1, <3>1
    <3>3. QED
      BY <2>1, <3>1, <3>2 DEF LastSays
  <2>2. Silent(app, k) <=> Silent(q, k)
    BY <1>1, <1>3 DEF Silent, Aspect
  <2>3. QED
    BY <1>3, <2>1, <2>2 DEF app
<1>4. QED
  BY <1>2, <1>3

\* What is left of a queue says what the queue said; and if nothing of the
\* aspect is left, the command that was taken said it.
LEMMA TailSays ==
    ASSUME NEW q \in Seq(Commands), q # <<>>, NEW k
    PROVE  /\ \A v : LastSays(q, k, v) => LastSays(Tail(q), k, v)
           /\ Aspect(Head(q)) # k /\ Silent(Tail(q), k) => Silent(q, k)
           /\ Aspect(Head(q)) = k /\ Silent(Tail(q), k) =>
                 \A v : LastSays(q, k, v) => Head(q)[2] = v
<1> DEFINE rest == Tail(q)
<1>1. /\ Len(q) \in Nat \ {0}
      /\ Len(rest) = Len(q) - 1
      /\ \A i \in 1..Len(rest) : rest[i] = q[i + 1]
  BY HeadTailProperties, LenProperties, EmptySeq
<1>2. Head(q) = q[1]
  OBVIOUS
<1> HIDE DEF rest
<1>3. ASSUME NEW j \in 2..Len(q) PROVE j - 1 \in 1..Len(rest) /\ rest[j - 1] = q[j]
  BY <1>1
<1>4. ASSUME NEW v, LastSays(q, k, v) PROVE LastSays(rest, k, v)
  <2> SUFFICES ASSUME NEW i \in 1..Len(rest), rest[i][1] = k,
                      \A j \in (i + 1)..Len(rest) : rest[j][1] # k
               PROVE  rest[i][2] = v
    BY DEF LastSays
  <2>1. i + 1 \in 1..Len(q) /\ rest[i] = q[i + 1]
    BY <1>1
  <2>2. ASSUME NEW j \in (i + 2)..Len(q) PROVE q[j][1] # k
    <3>1. j - 1 \in (i + 1)..Len(rest) /\ j \in 2..Len(q)
      BY <1>1
    <3>2. QED
      BY <1>3, <3>1
  <2>3. QED
    BY <1>4, <2>1, <2>2 DEF LastSays
<1>5. ASSUME Aspect(Head(q)) # k, Silent(rest, k) PROVE Silent(q, k)
  BY <1>1, <1>2, <1>3, <1>5 DEF Silent, Aspect
<1>6. ASSUME Aspect(Head(q)) = k, Silent(rest, k), NEW v, LastSays(q, k, v)
      PROVE  Head(q)[2] = v
  <2>1. \A j \in 2..Len(q) : q[j][1] # k
    BY <1>3, <1>6 DEF Silent
  <2>2. QED
    BY <1>1, <1>2, <1>6, <2>1 DEF LastSays, Aspect
<1>7. QED
  BY <1>4, <1>5, <1>6 DEF rest

\* A session that a step does not concern agrees as before, also when the
\* step's change misses it.
LEMMA KeptAgrees ==
    ASSUME NEW s \in Sessions, SessionAgrees(s), missed[s] \subseteq missed'[s],
           mem' = mem, req' = req, queue'[s] = queue[s],
           flags'[s] = flags[s], permit'[s] = permit[s]
    PROVE  SessionAgrees(s)'
<1>1. /\ \A k : Asked(k)' = Asked(k)
      /\ \A k : Agrees(s, k)' = Agrees(s, k)
  BY DEF Asked, Agrees, Enforced
<1>2. QED
  BY <1>1 DEF SessionAgrees

\* A session at the end of its handshake has an empty queue and a fresh copy
\* of the store.
LEMMA AdoptAgrees ==
    ASSUME AgreesInv, NEW s \in Sessions, NEW record \in [Kinds -> BOOLEAN],
           Adopt(s, record), mem' = record
    PROVE  SessionAgrees(s)'
<1>1. queue'[s] = <<>> /\ flags'[s] = record /\ at'[s] = "verified"
  BY DEF AgreesInv, TypeOK, Adopt
<1>2. permit'[s] = ("audio" \in Kinds /\ record["audio"])
  BY DEF AgreesInv, TypeOK, Adopt
<1>3. mem' # Unknown
  BY UnknownAssumption
<1>4. ASSUME NEW k \in Kinds PROVE Agrees(s, k)'
  <2>1. LastSays(<<>>, k, record[k])
    BY DEF LastSays
  <2>2. Enforced(s, k)' = record[k]
    BY <1>1, <1>2, <1>4 DEF Enforced
  <2>3. QED
    BY <1>1, <2>1, <2>2 DEF Agrees
<1>5. QED
  BY <1>3, <1>4 DEF SessionAgrees

\* A session takes a command: what its queue says of any aspect stays the same
\* or comes into force.
LEMMA HandleAgrees ==
    ASSUME AgreesInv, NEW s \in Sessions, Handle(s), Head(queue[s]) # Kick
    PROVE  SessionAgrees(s)'
<1> DEFINE cmd == Head(queue[s])
<1>1. /\ queue[s] \in Seq(Commands) /\ queue[s] # <<>> /\ cmd \in Commands
      /\ cmd[1] \in Kinds
      /\ s \in Present /\ SessionAgrees(s)
  BY HeadTailProperties, CommandParts DEF Handle, AgreesInv, TypeOK, Present
<1>2. /\ queue'[s] = Tail(queue[s])
      /\ flags'[s] = [flags[s] EXCEPT ![cmd[1]] = cmd[2]]
      /\ permit'[s] = IF cmd[1] = "audio" THEN cmd[2] ELSE permit[s]
      /\ mem' = mem /\ req' = req /\ missed' = missed
  BY DEF Handle, AgreesInv, TypeOK, store
<1>3. \A k : Asked(k)' = Asked(k)
  BY <1>2 DEF Asked
<1>4. ASSUME NEW k \in Kinds, Agrees(s, k) PROVE Agrees(s, k)'
  <2>1. LastSays(Tail(queue[s]), k, mem[k])
    BY <1>1, <1>4, TailSays DEF Agrees
  <2>2. ASSUME Silent(Tail(queue[s]), k)
        PROVE  Enforced(s, k)' = mem[k] /\ flags'[s][k] = mem[k]
    <3>1. CASE cmd[1] = k
      <4>1. cmd[2] = mem[k]
        <5>1. LastSays(queue[s], k, mem[k])
          BY <1>4 DEF Agrees
        <5>2. Aspect(Head(queue[s])) = k
          BY <3>1 DEF Aspect
        <5>3. \A v : LastSays(queue[s], k, v) => Head(queue[s])[2] = v
          BY <1>1, <2>2, <5>2, TailSays
        <5>4. QED
          BY <5>1, <5>3
      <4>2. flags'[s][k] = cmd[2]
        BY <1>2, <1>4, <3>1 DEF AgreesInv, TypeOK
      <4>3. Enforced(s, k)' = cmd[2]
        BY <1>2, <4>2, <3>1 DEF Enforced
      <4>4. QED
        BY <4>1, <4>2, <4>3
    <3>2. CASE cmd[1] # k
      <4>1. Enforced(s, k) = mem[k] /\ flags[s][k] = mem[k]
        <5>1. Aspect(Head(queue[s])) # k
          BY <3>2 DEF Aspect
        <5>2. Silent(queue[s], k)
          BY <1>1, <2>2, <5>1, TailSays
        <5>3. QED
          BY <1>4, <5>2 DEF Agrees
      <4>2. flags'[s][k] = flags[s][k]
        BY <1>2, <1>4, <3>2 DEF AgreesInv, TypeOK
      <4>3. Enforced(s, k)' = Enforced(s, k)
        BY <1>2, <4>2, <3>2 DEF Enforced
      <4>4. QED
        BY <4>1, <4>2, <4>3
    <3>3. QED
      BY <3>1, <3>2
  <2>3. QED
    BY <1>2, <2>1, <2>2 DEF Agrees
<1>5. ASSUME ~Silent(queue[s], "kick") PROVE ~Silent(Tail(queue[s]), "kick")
  <2>1. Aspect(cmd) # "kick"
    BY <1>1, CommandParts
  <2>2. QED
    BY <1>1, <1>5, <2>1, TailSays
<1>6. QED
  BY <1>1, <1>2, <1>3, <1>4, <1>5 DEF SessionAgrees

\* Steps of a session: those of others do not concern it.
LEMMA SessionStepAgrees ==
    ASSUME AgreesInv, NEW s \in Sessions, SessionStep(s)
    PROVE  AgreesInv'
<1>1. TypeOK'
  BY SessionStepType DEF AgreesInv
<1>2. ASSUME NEW t \in Sessions, at'[t] # "live" PROVE queue'[t] = <<>>
  <2>1. CASE t # s
    <3>1. at'[t] = at[t] /\ queue'[t] = queue[t]
      BY <2>1 DEF AgreesInv, TypeOK, SessionStep, Verify, Enroll, Adopt, Register,
                  End, Handle
    <3>2. QED
      BY <1>2, <3>1 DEF AgreesInv
  <2>2. CASE t = s
    <3>1. CASE (\E ok \in BOOLEAN : Verify(s, ok) \/ Enroll(s, ok))
      BY <2>2, <3>1 DEF AgreesInv, TypeOK, Verify, Enroll, Adopt
    <3>2. CASE Register(s)
      BY <1>2, <2>2, <3>2 DEF AgreesInv, TypeOK, Register
    <3>3. CASE End(s)
      BY <2>2, <3>3 DEF AgreesInv, TypeOK, End
    <3>4. CASE Handle(s)
      BY <1>2, <2>2, <3>4 DEF AgreesInv, TypeOK, Handle
    <3>5. QED
      BY <3>1, <3>2, <3>3, <3>4 DEF SessionStep
  <2>3. QED
    BY <2>1, <2>2
<1>3. ASSUME NEW t \in Present' PROVE SessionAgrees(t)'
  <2>1. t \in Sessions /\ at'[t] \in {"verified", "live"}
    BY DEF Present
  <2>2. ASSUME NEW ok \in BOOLEAN, Verify(s, ok) PROVE SessionAgrees(t)'
    <3>1. CASE t = s
      <4>1. mem \in [Kinds -> BOOLEAN] /\ mem' = mem
        BY <2>2 DEF Verify, Save, AgreesInv, TypeOK, Records
      <4>2. QED
        BY <2>2, <3>1, <4>1, AdoptAgrees DEF Verify
    <3>2. CASE t # s
      <4>1. /\ t \in Present /\ missed' = missed /\ mem' = mem /\ req' = req
            /\ queue'[t] = queue[t] /\ flags'[t] = flags[t] /\ permit'[t] = permit[t]
        BY <2>1, <2>2, <3>2 DEF Verify, Save, Adopt, AgreesInv, TypeOK, Present
      <4>2. QED
        BY <2>1, <4>1, KeptAgrees DEF AgreesInv
    <3>3. QED
      BY <3>1, <3>2
  <2>3. ASSUME NEW ok \in BOOLEAN, Enroll(s, ok) PROVE SessionAgrees(t)'
    <3>1. mem' = Default /\ mem' # Unknown
      BY <2>3, DefaultIsRecord, UnknownAssumption DEF Enroll, Save
    <3>2. CASE t = s
      <4>1. ok
        BY <2>1, <2>3, <3>2 DEF Enroll, AgreesInv, TypeOK
      <4>2. QED
        BY <2>3, <3>1, <3>2, <4>1, AdoptAgrees, DefaultIsRecord DEF Enroll
    <3>3. CASE t # s
      <4>1. t \in Present
        BY <2>1, <2>3, <3>3 DEF Enroll, Adopt, AgreesInv, TypeOK, Present
      <4>2. Kinds \subseteq missed'[t]
        BY <2>1, <2>3, <4>1 DEF Enroll, Miss
      <4>3. QED
        BY <3>1, <4>2 DEF SessionAgrees
    <3>4. QED
      BY <3>2, <3>3
  <2>4. CASE Register(s) \/ End(s)
    <3>1. /\ t \in Present /\ missed' = missed /\ mem' = mem /\ req' = req
          /\ queue'[t] = queue[t] /\ flags'[t] = flags[t] /\ permit'[t] = permit[t]
      BY <2>1, <2>4 DEF Register, End, store, AgreesInv, TypeOK, Present
    <3>2. QED
      BY <2>1, <3>1, KeptAgrees DEF AgreesInv
  <2>5. CASE Handle(s)
    <3>1. CASE t = s
      <4>1. Head(queue[s]) # Kick
        BY <2>1, <2>5, <3>1 DEF Handle, AgreesInv, TypeOK
      <4>2. QED
        BY <2>5, <3>1, <4>1, HandleAgrees
    <3>2. CASE t # s
      <4>1. /\ t \in Present /\ missed' = missed /\ mem' = mem /\ req' = req
            /\ queue'[t] = queue[t] /\ flags'[t] = flags[t] /\ permit'[t] = permit[t]
        BY <2>1, <2>5, <3>2 DEF Handle, store, AgreesInv, TypeOK, Present
      <4>2. QED
        BY <2>1, <4>1, KeptAgrees DEF AgreesInv
    <3>3. QED
      BY <3>1, <3>2
  <2>6. QED
    BY <2>2, <2>3, <2>4, <2>5 DEF SessionStep
<1>4. QED
  BY <1>1, <1>2, <1>3 DEF AgreesInv

\* A stored change is on its way, whatever it changes.
LEMMA StoreAgrees ==
    ASSUME AgreesInv, NEW r \in Requests, NEW cmd \in Commands, Store(r, cmd),
           NEW s \in Present
    PROVE  SessionAgrees(s)'
<1>1. s \in Sessions /\ SessionAgrees(s)
  BY DEF Present, AgreesInv
<1>2. /\ queue' = queue /\ flags' = flags /\ permit' = permit /\ missed' = missed
      /\ req[r] = <<>> /\ req' = [req EXCEPT ![r] = cmd]
  BY DEF Store, sessionVars
<1>3. \A k : Asked(k)' <=> Asked(k) \/ Aspect(cmd) = k
  BY <1>2, CommandParts DEF Asked, AgreesInv, TypeOK
<1>4. CASE mem = Unknown
  <2>1. mem' = Unknown
    BY <1>4 DEF Store
  <2>2. QED
    BY <1>1, <1>2, <1>3, <1>4, <2>1 DEF SessionAgrees
<1>5. CASE mem # Unknown
  <2>1. mem' = Stored(cmd) /\ mem \in [Kinds -> BOOLEAN]
    BY <1>5 DEF Store, Save, AgreesInv, TypeOK, Records
  <2>2. CASE cmd = Kick
    BY <1>3, <2>1, <2>2, CommandParts DEF Stored, SessionAgrees
  <2>3. CASE cmd # Kick
    <3>1. mem' = [mem EXCEPT ![cmd[1]] = cmd[2]] /\ mem' # Unknown
      BY <2>1, <2>3, CommandParts, UnknownAssumption DEF Stored
    <3>2. ASSUME NEW k \in Kinds, cmd[1] # k, Agrees(s, k) PROVE Agrees(s, k)'
      BY <1>2, <2>1, <3>1, <3>2 DEF Agrees, Enforced
    <3>3. QED
      BY <1>1, <1>2, <1>3, <1>5, <3>1, <3>2 DEF SessionAgrees, Aspect
  <2>4. QED
    BY <2>2, <2>3
<1>6. QED
  BY <1>4, <1>5

\* A change that was stored and will not be pushed is missed by every session
\* there is.
LEMMA StoreFailsAgrees ==
    ASSUME AgreesInv, NEW r \in Requests, NEW cmd \in Commands,
           StoreFails(r, cmd), NEW s \in Present
    PROVE  SessionAgrees(s)'
<1>1. s \in Sessions /\ SessionAgrees(s)
  BY DEF Present, AgreesInv
<1>2. /\ queue' = queue /\ flags' = flags /\ permit' = permit /\ req' = req
      /\ missed'[s] = missed[s] \union {Aspect(cmd)}
      /\ mem # Unknown /\ mem' = Stored(cmd) /\ mem \in [Kinds -> BOOLEAN]
  BY <1>1 DEF StoreFails, sessionVars, Miss, Save, AgreesInv, TypeOK, Records
<1>3. \A k : Asked(k)' = Asked(k)
  BY <1>2 DEF Asked
<1>4. CASE cmd = Kick
  BY <1>2, <1>4, CommandParts DEF Stored, SessionAgrees
<1>5. CASE cmd # Kick
  <2>1. mem' = [mem EXCEPT ![cmd[1]] = cmd[2]] /\ mem' # Unknown
    BY <1>2, <1>5, CommandParts, UnknownAssumption DEF Stored
  <2>2. ASSUME NEW k \in Kinds, cmd[1] # k, Agrees(s, k) PROVE Agrees(s, k)'
    BY <1>2, <2>1, <2>2 DEF Agrees, Enforced
  <2>3. QED
    BY <1>1, <1>2, <1>3, <2>1, <2>2 DEF SessionAgrees, Aspect
<1>6. QED
  BY <1>4, <1>5

\* A pushed change has the last word in the session's queue, unless it found
\* no room, no handle, or was not the last to be stored.
LEMMA PushAgrees ==
    ASSUME AgreesInv, NEW r \in Requests, Push(r), NEW s \in Present
    PROVE  SessionAgrees(s)'
<1> DEFINE cmd == req[r]
           a == Aspect(cmd)
           room == {t \in {u \in Sessions : at[u] = "live"} : Len(queue[t]) < CmdCap}
           current == cmd = Kick \/ (mem # Unknown /\ mem[a] = cmd[2])
<1>1. /\ s \in Sessions /\ SessionAgrees(s) /\ cmd \in Commands
      /\ queue[s] \in Seq(Commands)
      /\ cmd # Kick => cmd[1] \in Kinds
  BY CommandParts DEF Present, AgreesInv, TypeOK, Push
<1>2. /\ mem' = mem /\ permit' = permit
      /\ queue'[s] = IF s \in room THEN Append(queue[s], cmd) ELSE queue[s]
      /\ missed'[s] = IF s \in room /\ current THEN missed[s] \ {a}
                      ELSE missed[s] \union {a}
  BY <1>1 DEF Push, store
<1>3. \A k \in Kinds \ {a} : flags'[s][k] = flags[s][k]
  <2>1. flags'[s] = IF at[s] = "live" /\ cmd # Kick
                    THEN [flags[s] EXCEPT ![a] = cmd[2]] ELSE flags[s]
    BY <1>1 DEF Push
  <2>2. QED
    BY <1>1, <2>1 DEF AgreesInv, TypeOK
<1>4. ASSUME NEW k, k # a PROVE Asked(k)' = Asked(k)
  <2>1. req' = [req EXCEPT ![r] = <<>>]
    BY DEF Push
  <2>2. ASSUME NEW q \in Requests
        PROVE  req'[q] # <<>> /\ Aspect(req'[q]) = k <=> req[q] # <<>> /\ Aspect(req[q]) = k
    <3>1. CASE q = r
      BY <1>4, <2>1, <3>1 DEF AgreesInv, TypeOK
    <3>2. CASE q # r
      BY <2>1, <3>2 DEF AgreesInv, TypeOK
    <3>3. QED
      BY <3>1, <3>2
  <2>3. QED
    BY <2>2 DEF Asked
<1>5. ASSUME NEW k, k # a
      PROVE  /\ Silent(queue'[s], k) <=> Silent(queue[s], k)
             /\ \A v : LastSays(queue[s], k, v) => LastSays(queue'[s], k, v)
  <2>1. CASE s \in room
    <3>1. queue'[s] = Append(queue[s], cmd)
      BY <1>2, <2>1
    <3>2. Aspect(cmd) # k
      BY <1>5
    <3>3. \A v : /\ LastSays(queue[s], k, v) => LastSays(Append(queue[s], cmd), k, v)
                 /\ Silent(Append(queue[s], cmd), k) <=> Silent(queue[s], k)
      BY <1>1, <3>2, AppendSays
    <3>4. QED
      BY <3>1, <3>3
  <2>2. CASE s \notin room
    BY <1>2, <2>2
  <2>3. QED
    BY <2>1, <2>2
<1>6. ASSUME NEW k \in Kinds \ {a}, Agrees(s, k) PROVE Agrees(s, k)'
  <2>1. Enforced(s, k)' = Enforced(s, k)
    BY <1>2, <1>3 DEF Enforced
  <2>2. QED
    BY <1>2, <1>3, <1>5, <1>6, <2>1 DEF Agrees
<1>7. ASSUME NEW k \in Kinds, k = a, k \notin missed'[s], mem # Unknown
      PROVE  Agrees(s, k)'
  <2>1. s \in room /\ current
    BY <1>2, <1>7
  <2>2. cmd # Kick
    BY <1>1, <1>7, CommandParts, KindsAssumption
  <2>3. LastSays(queue'[s], k, mem[k]) /\ ~Silent(queue'[s], k)
    BY <1>1, <1>2, <1>7, <2>1, <2>2, AppendSays
  <2>4. QED
    BY <1>2, <2>3 DEF Agrees
<1>8. ASSUME a = "kick", "kick" \notin missed'[s] PROVE ~Silent(queue'[s], "kick")
  BY <1>1, <1>2, <1>8, AppendSays
<1>9. CASE mem = Unknown
  BY <1>1, <1>2, <1>4, <1>5, <1>8, <1>9 DEF SessionAgrees
<1>10. CASE mem # Unknown
  <2>1. ASSUME NEW k \in Kinds \ missed'[s] PROVE Asked(k)' \/ Agrees(s, k)'
    <3>1. CASE k = a
      BY <1>7, <1>10, <2>1, <3>1
    <3>2. CASE k # a
      <4>1. k \notin missed[s]
        BY <1>2, <2>1, <3>2
      <4>2. Asked(k) \/ Agrees(s, k)
        BY <1>1, <1>10, <2>1, <4>1 DEF SessionAgrees
      <4>3. QED
        BY <1>4, <1>6, <2>1, <3>2, <4>2
    <3>3. QED
      BY <3>1, <3>2
  <2>2. QED
    BY <1>2, <1>10, <2>1 DEF SessionAgrees
<1>11. QED
  BY <1>9, <1>10

\* The invariant holds at every moment.
LEMMA AgreesInvariant == Spec => []AgreesInv
<1>1. Init => AgreesInv
  <2> SUFFICES ASSUME Init PROVE AgreesInv
    OBVIOUS
  <2>1. TypeOK
    BY InitType
  <2>2. Present = {} /\ \A s \in Sessions : queue[s] = <<>>
    BY DEF Init, Present
  <2>3. QED
    BY <2>1, <2>2 DEF AgreesInv
<1>2. AgreesInv /\ [Next]_vars => AgreesInv'
  <2> SUFFICES ASSUME AgreesInv, [Next]_vars PROVE AgreesInv'
    OBVIOUS
  <2>1. ASSUME NEW s \in Sessions, SessionStep(s) PROVE AgreesInv'
    BY <2>1, SessionStepAgrees
  <2>2. ASSUME NEW r \in Requests, RequestStep(r) PROVE AgreesInv'
    <3>1. TypeOK'
      BY <2>2, RequestStepType DEF AgreesInv
    <3>2. at' = at
      BY <2>2 DEF RequestStep, Store, StoreFails, Push, sessionVars
    <3>3. \A s \in Sessions : at[s] # "live" => queue'[s] = queue[s]
      BY <2>2 DEF RequestStep, Store, StoreFails, Push, sessionVars
    <3>4. ASSUME NEW s \in Present PROVE SessionAgrees(s)'
      BY <2>2, StoreAgrees, StoreFailsAgrees, PushAgrees DEF RequestStep
    <3>5. QED
      BY <3>1, <3>2, <3>3, <3>4 DEF AgreesInv, Present
  <2>3. CASE Restart
    <3>1. TypeOK'
      BY <2>3, RestartType DEF AgreesInv
    <3>2. Present' = {}
      BY <2>3 DEF Restart, Present, AgreesInv, TypeOK
    <3>3. \A s \in Sessions : queue'[s] = <<>>
      BY <2>3 DEF Restart
    <3>4. QED
      BY <3>1, <3>2, <3>3 DEF AgreesInv
  <2>4. CASE UNCHANGED vars
    BY <2>4 DEF vars, AgreesInv, TypeOK, Present, SessionAgrees, Agrees, Asked, Enforced
  <2>5. QED
    BY <2>1, <2>2, <2>3, <2>4 DEF Next
<1>3. QED
  BY <1>1, <1>2, PTL DEF Spec

\* Whatever requests, handshakes, commands, failed saves and restarts overlap,
\* what a settled session enforces and the panel shows is what the store says,
\* save for the changes that are known not to have reached it.
THEOREM SettledAgreement == Spec => []SettledAgrees
<1>1. AgreesInv => SettledAgrees
  <2> SUFFICES ASSUME AgreesInv, NEW s \in Sessions, Settled(s)
               PROVE  /\ \A k \in Kinds \ missed[s] :
                            mem # Unknown => /\ Enforced(s, k) = mem[k]
                                             /\ flags[s][k] = mem[k]
                      /\ "kick" \notin missed[s] => mem # Unknown
    BY DEF SettledAgrees
  <2>1. SessionAgrees(s) /\ queue[s] = <<>> /\ \A k : ~Asked(k)
    BY DEF Settled, AgreesInv, Present, Asked
  <2>2. \A k : Silent(queue[s], k)
    BY <2>1 DEF Silent
  <2>3. QED
    BY <2>1, <2>2 DEF SessionAgrees, Agrees
<1>2. QED
  BY <1>1, AgreesInvariant, PTL
=============================================================================
