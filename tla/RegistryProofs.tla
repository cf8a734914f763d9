--------------------------- MODULE RegistryProofs ---------------------------
(***************************************************************************)
(* What all sessions share on the host, for any number of them: the        *)
(* registry, its counter and the viewers' overlays, the clipboard          *)
(* (Clipboard, here as Clip), whose bridge never publishes more than it    *)
(* has cause to, and the types of a session's tasks (Tasks).               *)
(***************************************************************************)
EXTENDS ClientRegistry, Sequences, FiniteSetTheorems, TLAPS

-----------------------------------------------------------------------------
(***************************************************************************)
(* The registry.                                                           *)
(***************************************************************************)
\* Who is in the registry's map.
Registered == {s \in Sessions : life[s] \in {"inserted", "registered", "joining", "live"}}

RegistryInv ==
    /\ TypeOK
    /\ clients = Registered
    /\ ClientsExact

\* One session's move between two stages changes a set of sessions that are at
\* some of them by that session.
LEMMA Counted ==
    ASSUME NEW S \in SUBSET Sessions, NEW s \in Sessions
    PROVE  /\ IsFiniteSet(S) /\ Cardinality(S) \in Nat
           /\ Cardinality(S \union {s}) =
                IF s \in S THEN Cardinality(S) ELSE Cardinality(S) + 1
           /\ Cardinality(S \ {s}) =
                IF s \in S THEN Cardinality(S) - 1 ELSE Cardinality(S)
           /\ s \in S => Cardinality(S) > 0
<1>1. IsFiniteSet(S)
  BY SessionsAssumption, FS_Subset
<1>2. Cardinality(S) \in Nat
  BY <1>1, FS_CardinalityType
<1>3. Cardinality(S \union {s}) =
        IF s \in S THEN Cardinality(S) ELSE Cardinality(S) + 1
  BY <1>1, FS_AddElement
<1>4. Cardinality(S \ {s}) =
        IF s \in S THEN Cardinality(S) - 1 ELSE Cardinality(S)
  BY <1>1, FS_RemoveElement
<1>5. s \in S => Cardinality(S) > 0
  <2>1. s \in S => Cardinality(S) # 0
    BY <1>1, FS_EmptySet
  <2>2. QED
    BY <1>2, <2>1
<1>6. QED
  BY <1>1, <1>2, <1>3, <1>4, <1>5

\* What a move does to the stages.
LEMMA Moves ==
    ASSUME life \in [Sessions -> Lives], NEW s \in Sessions, NEW from, NEW to,
           to \in Lives, Move(s, from, to)
    PROVE  /\ life' \in [Sessions -> Lives]
           /\ life[s] = from
           /\ \A t \in Sessions : life'[t] = IF t = s THEN to ELSE life[t]
BY DEF Move

\* A step that leaves registry and counter alone, and no session between them.
LEMMA RegistryUntouched ==
    ASSUME RegistryInv, TypeOK', UNCHANGED <<clients, hostClients>>,
           \A t \in Sessions :
              \/ life'[t] = life[t]
              \/ /\ {life[t], life'[t]} \subseteq {"registered", "joining", "live"}
              \/ /\ {life[t], life'[t]} \subseteq {"unregistered", "parting", "ended"}
    PROVE  RegistryInv'
<1>1. /\ Registered' = Registered
      /\ Entering' = Entering
      /\ Leaving' = Leaving
  BY DEF Registered, Entering, Leaving
<1>2. QED
  BY <1>1 DEF RegistryInv, ClientsExact

\* The capture loop's steps touch neither.
LEMMA CaptureTyped ==
    ASSUME TypeOK, CaptureStep
    PROVE  /\ UNCHANGED registry
           /\ TypeOK'
<1>1. ASSUME UNCHANGED <<registry, cursorVars>>,
             SourceTypeOK',
             capture' \in [at : {"begin", "awake", "frame", "cursor"}, baked : BOOLEAN]
      PROVE  UNCHANGED registry /\ TypeOK'
  BY <1>1 DEF TypeOK, registry, cursorVars
<1>2. SourceTypeOK /\ clients \in SUBSET Sessions
      /\ capture \in [at : {"begin", "awake", "frame", "cursor"}, baked : BOOLEAN]
  BY DEF TypeOK
<1>3. CASE CaptureWake
  BY <1>1, <1>2, <1>3 DEF CaptureWake, SourceTypeOK, source
<1>4. CASE CaptureBegin
  BY <1>1, <1>2, <1>4 DEF CaptureBegin, LegacyPresent, SourceTypeOK, source
<1>5. CASE CaptureFrame
  <2>1. SourceTypeOK'
    BY <1>2, <1>5 DEF CaptureFrame, NextFrame, RecreateDuplication, NothingAcquired,
                      Acquired, Readable, ReadOut, ReadFails, SourceTypeOK, source
  <2>2. QED
    BY <1>1, <1>2, <1>5, <2>1 DEF CaptureFrame
<1>6. CASE CaptureCursor
  BY <1>2, <1>6 DEF CaptureCursor, Cursor, SourceTypeOK, Idle, TypeOK, registry, Following
<1>7. CASE CaptureStill
  BY <1>1, <1>2, <1>7 DEF CaptureStill, Idle, SourceTypeOK, source
<1>8. QED
  BY <1>3, <1>4, <1>5, <1>6, <1>7 DEF CaptureStep

\* A session's steps keep the types.
LEMMA SessionTyped ==
    ASSUME TypeOK, NEW s \in Sessions, SupervisorStep(s) \/ Insert(s) \/ Remove(s)
    PROVE  TypeOK'
<1> USE DEF Lives
<1>1. CASE Insert(s)
  BY <1>1 DEF Insert, Move, TypeOK, cursorVars, captureVars, SourceTypeOK, source
<1>2. CASE CountUp(s)
  BY <1>2 DEF CountUp, Move, TypeOK, cursorVars, captureVars, SourceTypeOK, source
<1>3. CASE ComputePolicy(s)
  BY <1>3 DEF ComputePolicy, Move, TypeOK, cursorVars, captureVars, SourceTypeOK, source,
              LegacyPresent
<1>4. CASE PublishPolicy(s)
  BY <1>4 DEF PublishPolicy, Move, TypeOK, captureVars, SourceTypeOK, source, Following
<1>5. CASE Remove(s)
  BY <1>5 DEF Remove, Move, TypeOK, captureVars, SourceTypeOK, source
<1>6. CASE CountDown(s)
  BY <1>6 DEF CountDown, Move, TypeOK, cursorVars, captureVars, SourceTypeOK, source
<1>7. CASE Follow(s)
  BY <1>7 DEF Follow, TypeOK, captureVars, SourceTypeOK, source
<1>8. QED
  BY <1>1, <1>2, <1>3, <1>4, <1>5, <1>6, <1>7 DEF SupervisorStep

\* A session enters the map, and is counted afterwards; it leaves the map, and is
\* counted down afterwards: the counter is never at zero then.
LEMMA SessionKeeps ==
    ASSUME RegistryInv, NEW s \in Sessions, SupervisorStep(s) \/ Insert(s) \/ Remove(s)
    PROVE  RegistryInv'
<1>1. /\ TypeOK /\ TypeOK' /\ life \in [Sessions -> Lives]
      /\ hostClients \in Nat /\ clients = Registered
      /\ hostClients + Cardinality(Entering) = Cardinality(clients) + Cardinality(Leaving)
  BY SessionTyped DEF RegistryInv, TypeOK, ClientsExact
<1>2. /\ clients \in SUBSET Sessions
      /\ Entering \in SUBSET Sessions /\ Leaving \in SUBSET Sessions
  BY <1>1 DEF Registered, Entering, Leaving
<1>3. /\ Cardinality(clients) \in Nat
      /\ Cardinality(Entering) \in Nat
      /\ Cardinality(Leaving) \in Nat
  BY <1>2, Counted
<1>4. CASE Insert(s)
  <2>1. /\ life[s] = "new" /\ hostClients' = hostClients
        /\ clients' = clients \union {s}
        /\ \A t \in Sessions : life'[t] = IF t = s THEN "inserted" ELSE life[t]
    BY <1>1, <1>4, Moves DEF Insert, Lives
  <2>2. /\ Registered' = Registered \union {s} /\ s \notin Registered
        /\ Entering' = Entering \union {s} /\ s \notin Entering
        /\ Leaving' = Leaving
    BY <2>1 DEF Registered, Entering, Leaving
  <2>3. /\ Cardinality(clients') = Cardinality(clients) + 1
        /\ Cardinality(Entering') = Cardinality(Entering) + 1
    BY <1>1, <1>2, <2>1, <2>2, Counted
  <2>4. QED
    BY <1>1, <1>3, <2>1, <2>2, <2>3 DEF RegistryInv, ClientsExact
<1>5. CASE CountUp(s)
  <2>1. /\ life[s] = "inserted" /\ hostClients' = hostClients + 1 /\ clients' = clients
        /\ \A t \in Sessions : life'[t] = IF t = s THEN "registered" ELSE life[t]
    BY <1>1, <1>5, Moves DEF CountUp, Lives
  <2>2. /\ Registered' = Registered
        /\ Entering' = Entering \ {s} /\ s \in Entering
        /\ Leaving' = Leaving
    BY <2>1 DEF Registered, Entering, Leaving
  <2>3. Cardinality(Entering') = Cardinality(Entering) - 1
    BY <1>2, <2>2, Counted
  <2>4. QED
    BY <1>1, <1>3, <2>1, <2>2, <2>3 DEF RegistryInv, ClientsExact
<1>6. CASE Remove(s)
  <2>1. /\ life[s] = "live" /\ hostClients' = hostClients
        /\ clients' = clients \ {s}
        /\ \A t \in Sessions : life'[t] = IF t = s THEN "removed" ELSE life[t]
    BY <1>1, <1>6, Moves DEF Remove, Lives
  <2>2. /\ Registered' = Registered \ {s} /\ s \in Registered
        /\ Entering' = Entering
        /\ Leaving' = Leaving \union {s} /\ s \notin Leaving
    BY <2>1 DEF Registered, Entering, Leaving
  <2>3. /\ Cardinality(clients') = Cardinality(clients) - 1
        /\ Cardinality(Leaving') = Cardinality(Leaving) + 1
    BY <1>1, <1>2, <2>1, <2>2, Counted
  <2>4. QED
    BY <1>1, <1>3, <2>1, <2>2, <2>3 DEF RegistryInv, ClientsExact
<1>7. CASE CountDown(s)
  <2>1. /\ life[s] = "removed" /\ clients' = clients
        /\ hostClients' = IF hostClients > 0 THEN hostClients - 1 ELSE 0
        /\ \A t \in Sessions : life'[t] = IF t = s THEN "unregistered" ELSE life[t]
    BY <1>1, <1>7, Moves DEF CountDown, Lives
  <2>2. /\ Registered' = Registered
        /\ Entering' = Entering
        /\ Leaving' = Leaving \ {s} /\ s \in Leaving
    BY <2>1 DEF Registered, Entering, Leaving
  <2>3. /\ Cardinality(Leaving') = Cardinality(Leaving) - 1
        /\ Cardinality(Leaving) > 0
    BY <1>2, <2>2, Counted
  <2>4. Cardinality(Entering) <= Cardinality(clients)
    <3>1. Entering \subseteq clients /\ IsFiniteSet(clients)
      BY <1>1, <1>2, Counted DEF Entering, Registered
    <3>2. QED
      BY <3>1, FS_Subset
  <2>5. hostClients > 0
    BY <1>1, <1>3, <2>3, <2>4
  <2>6. QED
    BY <1>1, <1>3, <2>1, <2>2, <2>3, <2>5 DEF RegistryInv, ClientsExact
<1>8. ASSUME UNCHANGED <<clients, hostClients>>,
             \A t \in Sessions :
                \/ life'[t] = life[t]
                \/ {life[t], life'[t]} \subseteq {"registered", "joining", "live"}
                \/ {life[t], life'[t]} \subseteq {"unregistered", "parting", "ended"}
      PROVE  RegistryInv'
  BY <1>1, <1>8, RegistryUntouched
<1>9. CASE ComputePolicy(s)
  BY <1>1, <1>8, <1>9 DEF ComputePolicy, Move
<1>10. CASE PublishPolicy(s)
  BY <1>1, <1>8, <1>10 DEF PublishPolicy, Move
<1>11. CASE Follow(s)
  BY <1>8, <1>11 DEF Follow
<1>12. QED
  BY <1>4, <1>5, <1>6, <1>7, <1>9, <1>10, <1>11 DEF SupervisorStep

\* The invariant holds at every moment.
LEMMA RegistryInvariant == Spec => []RegistryInv
<1>1. Init => RegistryInv
  <2> SUFFICES ASSUME Init PROVE RegistryInv
    OBVIOUS
  <2>1. TypeOK
    BY DEF Init, TypeOK, Lives, Idle, SourceInit, SourceTypeOK
  <2>2. clients = {} /\ Registered = {} /\ Entering = {} /\ Leaving = {} /\ hostClients = 0
    BY DEF Init, Registered, Entering, Leaving
  <2>3. QED
    BY <2>1, <2>2, FS_EmptySet DEF RegistryInv, ClientsExact
<1>2. RegistryInv /\ [Next]_vars => RegistryInv'
  <2> SUFFICES ASSUME RegistryInv, [Next]_vars PROVE RegistryInv'
    OBVIOUS
  <2>1. ASSUME NEW s \in Sessions, SupervisorStep(s) \/ Insert(s) \/ Remove(s)
        PROVE  RegistryInv'
    BY <2>1, SessionKeeps
  <2>2. CASE CaptureStep
    <3>1. UNCHANGED registry /\ TypeOK'
      BY <2>2, CaptureTyped DEF RegistryInv
    <3>2. QED
      BY <3>1, RegistryUntouched DEF registry
  <2>3. CASE UNCHANGED vars
    BY <2>3 DEF vars, registry, cursorVars, captureVars, source, RegistryInv, TypeOK,
                SourceTypeOK, ClientsExact, Registered, Entering, Leaving
  <2>4. QED
    BY <2>1, <2>2, <2>3 DEF Next
<1>3. QED
  BY <1>1, <1>2, PTL DEF Spec

\* Every reachable state of registry, cursor policy and capture loop is well
\* typed.
THEOREM TypeCorrect == Spec => []TypeOK
<1>1. RegistryInv => TypeOK
  BY DEF RegistryInv
<1>2. QED
  BY <1>1, RegistryInvariant, PTL

\* The counter is the registry's size but for sessions half way through joining
\* or leaving: the decrement that stops at zero never has to.
THEOREM ClientsCounted == Spec => []ClientsExact
<1>1. RegistryInv => ClientsExact
  BY DEF RegistryInv
<1>2. QED
  BY <1>1, RegistryInvariant, PTL

-----------------------------------------------------------------------------
(***************************************************************************)
(* The overlays.                                                           *)
(***************************************************************************)
\* Someone else's step tells those who follow, or leaves the cursor state alone.
LEMMA Told ==
    ASSUME TypeOK, OverlaysFollow, UNCHANGED hidden,
           \/ UNCHANGED composited /\ unseen \subseteq unseen'
           \/ Following \subseteq unseen',
           \A s \in Capable : life'[s] = "live" => life[s] = "live" \/ s \in unseen'
    PROVE  OverlaysFollow'
BY DEF OverlaysFollow, Following, TypeOK

\* Every step keeps the overlays in agreement.
LEMMA OverlaySteps == TypeOK /\ OverlaysFollow /\ [Next]_vars => OverlaysFollow'
<1> SUFFICES ASSUME TypeOK, OverlaysFollow, [Next]_vars PROVE OverlaysFollow'
  OBVIOUS
<1>1. life \in [Sessions -> Lives] /\ Capable \subseteq Sessions
  BY CapableAssumption DEF TypeOK
<1>2. ASSUME NEW s \in Sessions, SupervisorStep(s) \/ Insert(s) \/ Remove(s)
      PROVE  OverlaysFollow'
  <2>1. CASE Insert(s) \/ CountUp(s) \/ ComputePolicy(s) \/ CountDown(s)
    <3>1. UNCHANGED cursorVars
      BY <2>1 DEF Insert, CountUp, ComputePolicy, CountDown
    <3>2. \A t \in Capable : life'[t] = "live" => life[t] = "live"
      BY <1>1, <2>1 DEF Insert, CountUp, ComputePolicy, CountDown, Move
    <3>3. QED
      BY <3>1, <3>2, Told DEF cursorVars
  <2>2. CASE PublishPolicy(s)
    <3>1. UNCHANGED hidden /\ unseen \subseteq unseen'
      BY <2>2 DEF PublishPolicy
    <3>2. composited' = composited \/ Following \subseteq unseen'
      BY <2>2 DEF PublishPolicy
    <3>3. ASSUME NEW t \in Capable, life'[t] = "live", life[t] # "live"
          PROVE  t \in unseen'
      <4>1. t = s /\ life[s] = "joining"
        BY <1>1, <2>2, <3>3 DEF PublishPolicy, Move
      <4>2. QED
        BY <2>2, <3>3, <4>1 DEF PublishPolicy
    <3>4. QED
      BY <3>1, <3>2, <3>3, Told
  <2>3. CASE Remove(s)
    <3>1. /\ composited' = composited
          /\ unseen' = unseen \ {s} /\ hidden' = hidden \ {s}
      BY <2>3 DEF Remove
    <3>2. life'[s] = "removed" /\ \A t \in Sessions \ {s} : life'[t] = life[t]
      BY <1>1, <2>3 DEF Remove, Move
    <3>3. QED
      BY <1>1, <3>1, <3>2 DEF OverlaysFollow
  <2>4. CASE Follow(s)
    <3>1. /\ composited' = composited /\ life' = life /\ unseen' = unseen \ {s}
          /\ hidden' = IF composited THEN hidden \union {s} ELSE hidden \ {s}
      BY <2>4 DEF Follow
    <3>2. QED
      BY <1>1, <3>1 DEF OverlaysFollow
  <2>5. QED
    BY <1>2, <2>1, <2>2, <2>3, <2>4 DEF SupervisorStep
<1>3. CASE CaptureStep
  <2>1. life' = life
    BY <1>3, CaptureTyped DEF registry
  <2>2. UNCHANGED cursorVars \/ (UNCHANGED hidden /\ Following \subseteq unseen')
    BY <1>3 DEF CaptureStep, CaptureWake, CaptureBegin, CaptureFrame, CaptureCursor,
                CaptureStill
  <2>3. QED
    BY <2>1, <2>2, Told DEF cursorVars
<1>4. CASE UNCHANGED vars
  BY <1>4 DEF vars, registry, cursorVars, OverlaysFollow
<1>5. QED
  BY <1>2, <1>3, <1>4 DEF Next

\* No viewer that draws the cursor misses the newest word on who draws it: the
\* overlays follow the cursor state whoever publishes it, and whenever a session
\* joins.  CursorAgrees rests on this.
THEOREM OverlaysAreTold == Spec => []OverlaysFollow
<1>1. Init => OverlaysFollow
  <2>1. Init => \A s \in Capable : life[s] = "new"
    BY CapableAssumption DEF Init
  <2>2. QED
    BY <2>1 DEF OverlaysFollow
<1>2. QED
  BY <1>1, OverlaySteps, TypeCorrect, PTL DEF Spec

-----------------------------------------------------------------------------
(***************************************************************************)
(* The clipboard.                                                          *)
(***************************************************************************)
CONSTANTS Session, Text, Unshared, NoText

VARIABLES clipboard, lastSeen, watcher, polled, version, published, session,
          allowed, noticed, applying, shown, changes

Clip == INSTANCE Clipboard

\* The types the count rests on.
ClipCounters ==
    /\ watcher \in {"waits", "reads", "compares", "publishes"}
    /\ version \in Nat
    /\ changes \in Nat

\* The initial state is well typed.
LEMMA ClipTypeInit == Clip!Init => Clip!TypeOK
  BY DEF Clip!Init, Clip!TypeOK

\* Every step keeps the types.
LEMMA ClipTypeNext == Clip!TypeOK /\ [Clip!Next]_(Clip!vars) => Clip!TypeOK'
<1> SUFFICES ASSUME Clip!TypeOK, [Clip!Next]_(Clip!vars) PROVE Clip!TypeOK'
  OBVIOUS
<1> USE DEF Clip!TypeOK, Clip!clip, Clip!poll, Clip!bus, Clip!link
<1>1. ASSUME NEW t \in Text \union {Unshared}, Clip!HostCopies(t) PROVE Clip!TypeOK'
  BY <1>1 DEF Clip!HostCopies
<1>2. CASE Clip!Tick
  BY <1>2 DEF Clip!Tick
<1>3. CASE Clip!GetText
  BY <1>3 DEF Clip!GetText
<1>4. CASE Clip!PollHostChange
  BY <1>4 DEF Clip!PollHostChange
<1>5. CASE Clip!Publish
  BY <1>5 DEF Clip!Publish
<1>6. ASSUME NEW s \in Session, NEW t \in Text, Clip!ApplyFromViewer(s, t)
      PROVE  Clip!TypeOK'
  BY <1>6 DEF Clip!ApplyFromViewer
<1>7. ASSUME NEW s \in Session, Clip!SetText(s) PROVE Clip!TypeOK'
  BY <1>7 DEF Clip!SetText
<1>8. ASSUME NEW s \in Session, Clip!SetTextFails(s) PROVE Clip!TypeOK'
  BY <1>8 DEF Clip!SetTextFails
<1>9. ASSUME NEW s \in Session, NEW g \in BOOLEAN, Clip!Register(s, g) PROVE Clip!TypeOK'
  BY <1>9 DEF Clip!Register
<1>10. ASSUME NEW s \in Session, NEW g \in BOOLEAN, Clip!SetClipboardGrant(s, g)
       PROVE  Clip!TypeOK'
  BY <1>10 DEF Clip!SetClipboardGrant
<1>11. ASSUME NEW s \in Session, Clip!Subscribe(s) PROVE Clip!TypeOK'
  BY <1>11 DEF Clip!Subscribe
<1>12. ASSUME NEW s \in Session, Clip!Forward(s) PROVE Clip!TypeOK'
  <2>1. shown' \in [Session -> Text \union {NoText}]
    BY <1>12 DEF Clip!Forward
  <2>2. QED
    BY <1>12, <2>1 DEF Clip!Forward
<1>13. ASSUME NEW s \in Session, Clip!Leave(s) PROVE Clip!TypeOK'
  BY <1>13 DEF Clip!Leave
<1>14. CASE UNCHANGED Clip!vars
  BY <1>14 DEF Clip!vars
<1>15. QED
  BY <1>1, <1>2, <1>3, <1>4, <1>5, <1>6, <1>7, <1>8, <1>9, <1>10, <1>11, <1>12, <1>13, <1>14
     DEF Clip!Next, Clip!Watcher, Clip!Pump, Clip!Supervisor

\* Every reachable state is well typed.
THEOREM ClipTypeCorrect == Clip!Spec => []Clip!TypeOK
  BY ClipTypeInit, ClipTypeNext, PTL DEF Clip!Spec

\* At first nothing is owed.
LEMMA OwedInit == Clip!Init => Clip!OwedBounded
  BY DEF Clip!Init, Clip!OwedBounded, Clip!Owed

\* Every step has a cause for what it publishes.
LEMMA OwedNext ==
    ASSUME Clip!TypeOK, Clip!OwedBounded, [Clip!Next]_(Clip!vars)
    PROVE  Clip!OwedBounded'
<1> USE DEF Clip!clip, Clip!poll, Clip!bus, Clip!link
<1>0. ClipCounters
  BY DEF Clip!TypeOK, ClipCounters
<1> USE DEF Clip!OwedBounded, Clip!Owed, Clip!Differs, ClipCounters
<1> DEFINE Tallied == <<clipboard, lastSeen, watcher, polled, version, changes>>
<1>1. CASE UNCHANGED Tallied
  BY <1>1
<1>2. ASSUME NEW t \in Text \union {Unshared}, Clip!HostCopies(t) PROVE Clip!OwedBounded'
  BY <1>0, <1>2 DEF Clip!HostCopies
<1>3. CASE Clip!Tick
  BY <1>0, <1>3 DEF Clip!Tick
<1>4. CASE Clip!GetText
  <2>1. CASE clipboard = Unshared
    BY <1>0, <1>4, <2>1 DEF Clip!GetText
  <2>2. CASE clipboard # Unshared
    BY <1>0, <1>4, <2>2 DEF Clip!GetText
  <2>3. QED
    BY <2>1, <2>2
<1>5. CASE Clip!PollHostChange
  <2>1. CASE lastSeen \in {polled, NoText}
    BY <1>0, <1>5, <2>1 DEF Clip!PollHostChange
  <2>2. CASE lastSeen \notin {polled, NoText}
    BY <1>0, <1>5, <2>2 DEF Clip!PollHostChange
  <2>3. QED
    BY <2>1, <2>2
<1>6. CASE Clip!Publish
  BY <1>0, <1>6 DEF Clip!Publish
<1>7. ASSUME NEW s \in Session, NEW t \in Text, Clip!ApplyFromViewer(s, t)
      PROVE  Clip!OwedBounded'
  BY <1>0, <1>7 DEF Clip!ApplyFromViewer
<1>8. ASSUME NEW s \in Session, Clip!SetText(s) PROVE Clip!OwedBounded'
  BY <1>0, <1>8 DEF Clip!SetText
<1>9. ASSUME NEW s \in Session, Clip!SetTextFails(s) PROVE UNCHANGED Tallied
  BY <1>9 DEF Clip!SetTextFails
<1>10. ASSUME NEW s \in Session, Clip!Supervisor(s) PROVE UNCHANGED Tallied
  <2>1. ASSUME NEW g \in BOOLEAN, Clip!Register(s, g) PROVE UNCHANGED Tallied
    BY <2>1 DEF Clip!Register
  <2>2. ASSUME NEW g \in BOOLEAN, Clip!SetClipboardGrant(s, g) PROVE UNCHANGED Tallied
    BY <2>2 DEF Clip!SetClipboardGrant
  <2>3. CASE Clip!Subscribe(s)
    BY <2>3 DEF Clip!Subscribe
  <2>4. CASE Clip!Forward(s)
    BY <2>4 DEF Clip!Forward
  <2>5. CASE Clip!Leave(s)
    BY <2>5 DEF Clip!Leave
  <2>6. QED
    BY <1>10, <2>1, <2>2, <2>3, <2>4, <2>5 DEF Clip!Supervisor
<1>11. ASSUME UNCHANGED Clip!vars PROVE UNCHANGED Tallied
  BY <1>11 DEF Clip!vars
<1>12. QED
  BY <1>1, <1>2, <1>3, <1>4, <1>5, <1>6, <1>7, <1>8, <1>9, <1>10, <1>11
     DEF Clip!Next, Clip!Watcher, Clip!Pump

\* Echoes cannot go round: every publication has a text copied on the host, or
\* a text stored as seen or set for a viewer, of its own.
THEOREM PublicationsCaused == Clip!Spec => []Clip!PublicationsBounded
<1>1. Clip!TypeOK /\ Clip!OwedBounded => Clip!PublicationsBounded
  BY DEF Clip!TypeOK, Clip!OwedBounded, Clip!Owed, Clip!Differs, Clip!PublicationsBounded
<1>2. QED
  BY <1>1, ClipTypeInit, ClipTypeNext, OwedInit, OwedNext, PTL DEF Clip!Spec

-----------------------------------------------------------------------------
(***************************************************************************)
(* The tasks of a session.                                                 *)
(***************************************************************************)
CONSTANTS CmdCap, CtlCap

VARIABLES sup, pending, pump, writer, cmds, ctl, peer, silent

Tasks == INSTANCE SessionTasks

\* A queue of capacity cap takes one more item if there is room, and gives its
\* first one away.
LEMMA Bounded ==
    ASSUME NEW S, NEW q \in Seq(S), NEW cap \in Nat, Len(q) <= cap
    PROVE  /\ \A e \in S : Append(q, e) \in Seq(S)
           /\ \A e \in S : Len(q) < cap => Len(Append(q, e)) <= cap
           /\ q # <<>> => Tail(q) \in Seq(S) /\ Len(Tail(q)) <= cap /\ Head(q) \in S
           /\ <<>> \in Seq(S) /\ Len(<<>>) <= cap
  OBVIOUS

\* No step breaks the types, or lets a queue grow beyond its capacity.
LEMMA TasksTypeNext ==
    ASSUME Tasks!CapsAssumption, Tasks!TypeOK, [Tasks!Next]_(Tasks!vars)
    PROVE  Tasks!TypeOK'
<1> DEFINE Commanded(q) == q \in Seq(Tasks!Commands) /\ Len(q) <= CmdCap
           Queued(q) == q \in Seq(Tasks!Messages) /\ Len(q) <= CtlCap
<1>1. /\ CmdCap \in Nat /\ CtlCap \in Nat
      /\ Commanded(cmds) /\ Queued(ctl) /\ pending \in Tasks!Messages
  BY DEF Tasks!CapsAssumption, Tasks!TypeOK
<1>2. "note" \in Tasks!Messages /\ "bye" \in Tasks!Messages
  BY DEF Tasks!Messages
<1>3. Commanded(cmds')
  <2>1. CASE UNCHANGED cmds
    BY <1>1, <2>1
  <2>2. CASE cmds' = <<>>
    BY <1>1, <2>2, Bounded
  <2>3. CASE cmds # <<>> /\ cmds' = Tail(cmds)
    BY <1>1, <2>3, Bounded
  <2>4. ASSUME NEW c \in Tasks!Commands, Len(cmds) < CmdCap, cmds' = Append(cmds, c)
        PROVE  Commanded(cmds')
    BY <1>1, <2>4, Bounded
  <2>5. QED
    BY <2>1, <2>2, <2>3, <2>4 DEF Tasks!Next, Tasks!Supervisor, Tasks!Pump,
       Tasks!Writer, Tasks!Outside, Tasks!TakeCommand, Tasks!Forward, Tasks!Tick,
       Tasks!SeePumpEnd, Tasks!SendDone, Tasks!SendFails, Tasks!Flushed,
       Tasks!Teardown, Tasks!PumpQuiet, Tasks!PumpOffers, Tasks!PumpAnswers,
       Tasks!PumpSendDone, Tasks!PumpBye, Tasks!PumpSeesClose, Tasks!WriteControl,
       Tasks!WriteMedia, Tasks!Written, Tasks!PanelSends, Tasks!PeerMoves,
       Tasks!Silence, Tasks!vars
<1>4. Queued(ctl')
  <2>1. CASE UNCHANGED ctl
    BY <1>1, <2>1
  <2>2. CASE ctl' = <<>>
    BY <1>1, <2>2, Bounded
  <2>3. CASE ctl # <<>> /\ ctl' = Tail(ctl)
    BY <1>1, <2>3, Bounded
  <2>4. ASSUME NEW m \in Tasks!Messages, Len(ctl) < CtlCap, ctl' = Append(ctl, m)
        PROVE  Queued(ctl')
    BY <1>1, <2>4, Bounded
  <2>5. QED
    BY <1>1, <1>2, <2>1, <2>2, <2>3, <2>4 DEF Tasks!Next, Tasks!Supervisor, Tasks!Pump,
       Tasks!Writer, Tasks!Outside, Tasks!TakeCommand, Tasks!Forward, Tasks!Tick,
       Tasks!SeePumpEnd, Tasks!SendDone, Tasks!SendFails, Tasks!Flushed,
       Tasks!Teardown, Tasks!PumpQuiet, Tasks!PumpOffers, Tasks!PumpAnswers,
       Tasks!PumpSendDone, Tasks!PumpBye, Tasks!PumpSeesClose, Tasks!WriteControl,
       Tasks!WriteMedia, Tasks!Written, Tasks!PanelSends, Tasks!PeerMoves,
       Tasks!Silence, Tasks!vars, Tasks!Room
<1>5. /\ sup' \in {"select", "sending", "flush", "down", "ended"}
      /\ pending' \in Tasks!Messages
      /\ pump' \in {"idle", "sending", "off"}
      /\ writer' \in {"idle", "socket", "off"}
      /\ peer' \in {"active", "suspended", "closed"}
  BY <1>2 DEF Tasks!TypeOK, Tasks!Say, Tasks!Next, Tasks!Supervisor, Tasks!Pump,
     Tasks!Writer, Tasks!Outside, Tasks!TakeCommand, Tasks!Forward, Tasks!Tick,
     Tasks!SeePumpEnd, Tasks!SendDone, Tasks!SendFails, Tasks!Flushed,
     Tasks!Teardown, Tasks!PumpQuiet, Tasks!PumpOffers, Tasks!PumpAnswers,
     Tasks!PumpSendDone, Tasks!PumpBye, Tasks!PumpSeesClose, Tasks!WriteControl,
     Tasks!WriteMedia, Tasks!Written, Tasks!PanelSends, Tasks!PeerMoves,
     Tasks!Silence, Tasks!vars
<1>6. silent' \in BOOLEAN
  BY DEF Tasks!TypeOK, Tasks!Next, Tasks!Supervisor, Tasks!Pump,
     Tasks!Writer, Tasks!Outside, Tasks!TakeCommand, Tasks!Forward, Tasks!Tick,
     Tasks!SeePumpEnd, Tasks!SendDone, Tasks!SendFails, Tasks!Flushed,
     Tasks!Teardown, Tasks!PumpQuiet, Tasks!PumpOffers, Tasks!PumpAnswers,
     Tasks!PumpSendDone, Tasks!PumpBye, Tasks!PumpSeesClose, Tasks!WriteControl,
     Tasks!WriteMedia, Tasks!Written, Tasks!PanelSends, Tasks!PeerMoves,
     Tasks!Silence, Tasks!vars
<1>7. QED
  BY <1>3, <1>4, <1>5, <1>6 DEF Tasks!TypeOK

\* Every reachable state of a session's tasks is well typed: neither the panel
\* nor supervisor and pump together ever queue more than the queues hold.
THEOREM TasksTypeCorrect ==
    ASSUME Tasks!CapsAssumption
    PROVE  Tasks!Spec => []Tasks!TypeOK
<1>1. Tasks!Init => Tasks!TypeOK
  <2>1. /\ CmdCap \in Nat /\ CtlCap \in Nat /\ Len(<<>>) = 0
        /\ <<>> \in Seq(Tasks!Commands) /\ <<>> \in Seq(Tasks!Messages)
    BY DEF Tasks!CapsAssumption
  <2>2. SUFFICES ASSUME Tasks!Init PROVE Tasks!TypeOK
    OBVIOUS
  <2>3. /\ cmds \in Seq(Tasks!Commands) /\ Len(cmds) <= CmdCap
        /\ ctl \in Seq(Tasks!Messages) /\ Len(ctl) <= CtlCap
    BY <2>1, <2>2 DEF Tasks!Init
  <2>4. QED
    BY <2>2, <2>3 DEF Tasks!Init, Tasks!TypeOK, Tasks!Messages
<1>2. Tasks!TypeOK /\ [Tasks!Next]_(Tasks!vars) => Tasks!TypeOK'
  BY TasksTypeNext
<1>3. QED
  BY <1>1, <1>2, PTL DEF Tasks!Spec
=============================================================================
