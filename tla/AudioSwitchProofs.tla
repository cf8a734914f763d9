-------------------------- MODULE AudioSwitchProofs --------------------------
(***************************************************************************)
(* For every finite set of sessions: the types, the exactness of the       *)
(* listener count and the exactness of each session's slot.                *)
(*                                                                         *)
(* What the same sessions hold down on the host has its part here too:     *)
(* Input is the module InputSink, for any keys, contacts and batches.      *)
(***************************************************************************)
EXTENDS AudioSwitch, Sequences, FiniteSetTheorems, TLAPS

USE SessionsAssumption, SettingAssumption

\* Every variable keeps its type.
THEOREM TypeCorrect == Spec => []TypeOK
<1>1. Init => TypeOK
  BY DEF Init, TypeOK, Lives, Pumps
<1>2. TypeOK /\ [Next]_vars => TypeOK'
  <2> SUFFICES ASSUME TypeOK, [Next]_vars PROVE TypeOK'
    OBVIOUS
  <2> USE DEF TypeOK, Lives, Pumps, Move, PumpTo
  <2>1. ASSUME NEW s \in Sessions, Start(s) PROVE TypeOK'
    BY <2>1 DEF Start
  <2>2. ASSUME NEW s \in Sessions, SyncAudioGrant(s) PROVE TypeOK'
    BY <2>2 DEF SyncAudioGrant, SyncAudio
  <2>3. ASSUME NEW s \in Sessions, ReleaseAudio(s) PROVE TypeOK'
    BY <2>3 DEF ReleaseAudio
  <2>4. ASSUME NEW s \in Sessions, AbortPump(s) PROVE TypeOK'
    BY <2>4 DEF AbortPump
  <2>5. ASSUME NEW s \in Sessions, PumpSyncAudio(s) PROVE TypeOK'
    BY <2>5 DEF PumpSyncAudio, SyncAudio
  <2>6. ASSUME NEW s \in Sessions, PumpPark(s) PROVE TypeOK'
    BY <2>6 DEF PumpPark
  <2>7. ASSUME NEW s \in Sessions, Leave(s) PROVE TypeOK'
    BY <2>7 DEF Leave
  <2>8. ASSUME NEW s \in Sessions, PumpExit(s) PROVE TypeOK'
    BY <2>8 DEF PumpExit
  <2>9. ASSUME NEW s \in Sessions, NEW b \in BOOLEAN, StoreAudioGrant(s, b)
        PROVE TypeOK'
    BY <2>9 DEF StoreAudioGrant
  <2>10. ASSUME NEW s \in Sessions, NEW b \in BOOLEAN, PumpSetAudio(s, b)
         PROVE TypeOK'
    BY <2>10 DEF PumpSetAudio, PumpTakes
  <2>11. CASE LoopCheck
    BY <2>11 DEF LoopCheck
  <2>12. CASE LoopCapture
    <3>1. loop' \in [at : {"check", "capture", "stopped"},
                    source : BOOLEAN, encoder : BOOLEAN]
      <4>1. CASE loop' = [at |-> "check", source |-> TRUE, encoder |-> TRUE]
        BY <4>1
      <4>2. CASE loop' = [loop EXCEPT !.at = "check"]
        BY <4>2
      <4>3. CASE loop' = [at |-> "stopped", source |-> FALSE, encoder |-> FALSE]
        BY <4>3
      <4>4. CASE loop' = [at |-> "check", source |-> FALSE, encoder |-> TRUE]
        BY <4>4
      <4>5. QED
        BY <2>12, <4>1, <4>2, <4>3, <4>4 DEF LoopCapture
    <3>2. QED
      BY <2>12, <3>1 DEF LoopCapture
  <2>13. CASE UNCHANGED vars
    BY <2>13 DEF vars
  <2>14. ASSUME NEW s \in Sessions, Environment(s) PROVE TypeOK'
    BY <2>1, <2>7, <2>8, <2>9, <2>10, <2>14 DEF Environment
  <2>15. ASSUME NEW s \in Sessions, SupervisorStep(s) \/ PumpStep(s)
         PROVE TypeOK'
    BY <2>2, <2>3, <2>4, <2>5, <2>6, <2>15 DEF SupervisorStep, PumpStep
  <2>16. CASE LoopStep
    BY <2>11, <2>12, <2>16 DEF LoopStep
  <2>17. QED
    <3> HIDE DEF TypeOK
    <3>1. QED
      BY <2>13, <2>14, <2>15, <2>16 DEF Next
<1>3. QED
  BY <1>1, <1>2, PTL DEF Spec

\* Taking or giving back one session's slot changes the number of listeners
\* by one: the step from the flags to the counter.
LEMMA ListeningChange ==
    ASSUME TypeOK, NEW s \in Sessions, NEW b \in BOOLEAN,
           counted' = [counted EXCEPT ![s] = b]
    PROVE  /\ IsFiniteSet(Listening)
           /\ Cardinality(Listening') =
                IF b = counted[s] THEN Cardinality(Listening)
                ELSE IF b THEN Cardinality(Listening) + 1
                     ELSE Cardinality(Listening) - 1
<1>1. IsFiniteSet(Listening)
  BY FS_Subset DEF Listening
<1>2. CASE b = counted[s]
  <2>1. Listening' = Listening
    BY <1>2 DEF Listening, TypeOK
  <2>2. QED
    BY <1>1, <1>2, <2>1
<1>3. CASE b /\ ~counted[s]
  <2>1. Listening' = Listening \union {s} /\ s \notin Listening
    BY <1>3 DEF Listening, TypeOK
  <2>2. QED
    BY <1>1, <1>3, <2>1, FS_AddElement
<1>4. CASE ~b /\ counted[s]
  <2>1. Listening' = Listening \ {s} /\ s \in Listening
    BY <1>4 DEF Listening, TypeOK
  <2>2. QED
    BY <1>1, <1>4, <2>1, FS_RemoveElement
<1>5. QED
  BY <1>2, <1>3, <1>4 DEF TypeOK

\* sync_audio keeps the count exact, whichever task runs it.
LEMMA SyncKeepsExact ==
    ASSUME TypeOK, ListenersExact, NEW s \in Sessions, SyncAudio(s)
    PROVE  ListenersExact'
<1> DEFINE active == enabled[s] /\ allowed[s]
<1>1. active \in BOOLEAN
  OBVIOUS
<1>2. counted' = [counted EXCEPT ![s] = active]
  BY DEF SyncAudio
<1>3. listeners' = IF active = counted[s] THEN listeners
                   ELSE IF active THEN listeners + 1 ELSE listeners - 1
  BY DEF SyncAudio
<1>4. Cardinality(Listening') =
         IF active = counted[s] THEN Cardinality(Listening)
         ELSE IF active THEN Cardinality(Listening) + 1
              ELSE Cardinality(Listening) - 1
  <2> HIDE DEF active
  <2>1. QED
    BY <1>1, <1>2, ListeningChange
<1>5. QED
  BY <1>3, <1>4 DEF ListenersExact

\* The listener count is the number of sessions that hold a slot.
THEOREM CountExact == Spec => []ListenersExact
<1>1. Init => ListenersExact
  <2> SUFFICES ASSUME Init PROVE ListenersExact
    OBVIOUS
  <2>1. Listening = {}
    BY DEF Init, Listening
  <2>2. QED
    BY <2>1, FS_EmptySet DEF Init, ListenersExact
<1>2. TypeOK /\ ListenersExact /\ [Next]_vars => ListenersExact'
  <2> SUFFICES ASSUME TypeOK, ListenersExact, [Next]_vars
               PROVE ListenersExact'
    OBVIOUS
  <2>1. CASE UNCHANGED <<counted, listeners>>
    BY <2>1 DEF ListenersExact, Listening
  <2>2. ASSUME NEW s \in Sessions, SyncAudio(s) PROVE ListenersExact'
    BY <2>2, SyncKeepsExact
  <2>3. ASSUME NEW s \in Sessions, ReleaseAudio(s) PROVE ListenersExact'
    <3>1. /\ counted' = [counted EXCEPT ![s] = FALSE]
          /\ listeners' = IF counted[s] THEN listeners - 1 ELSE listeners
          /\ counted[s] \in BOOLEAN
      BY <2>3 DEF ReleaseAudio, TypeOK
    <3>2. Cardinality(Listening') =
             IF counted[s] THEN Cardinality(Listening) - 1
             ELSE Cardinality(Listening)
      BY <3>1, ListeningChange
    <3>3. QED
      BY <3>1, <3>2 DEF ListenersExact
  <2>4. QED
    BY <2>1, <2>2, <2>3
    DEF Next, SupervisorStep, PumpStep, Environment, LoopStep, vars, Start,
        SyncAudioGrant, AbortPump, PumpSyncAudio, PumpPark, Leave, PumpExit,
        StoreAudioGrant, PumpSetAudio, LoopCheck, LoopCapture
<1>3. QED
  BY <1>1, <1>2, TypeCorrect, PTL DEF Spec

\* A slot is held exactly while the viewer opted in and the panel permits,
\* in every state in which neither task is between its write and its sync.
THEOREM SlotExact == Spec => []SwitchTracksConjunction
<1>1. Init => SwitchTracksConjunction
  BY DEF Init, SwitchTracksConjunction
<1>2. TypeOK /\ SwitchTracksConjunction /\ [Next]_vars
        => SwitchTracksConjunction'
  <2> SUFFICES ASSUME TypeOK, SwitchTracksConjunction, [Next]_vars
               PROVE SwitchTracksConjunction'
    OBVIOUS
  <2> USE DEF TypeOK, SwitchTracksConjunction, Move, PumpTo
  <2>1. ASSUME NEW s \in Sessions, SupervisorStep(s)
        PROVE SwitchTracksConjunction'
    <3>1. CASE SyncAudioGrant(s)
      <4>1. counted' = [counted EXCEPT ![s] = enabled[s] /\ allowed[s]]
        BY <3>1 DEF SyncAudioGrant, SyncAudio
      <4>2. UNCHANGED <<enabled, allowed, pump>>
            /\ life[s] = "granting" /\ life' = [life EXCEPT ![s] = "live"]
        BY <3>1 DEF SyncAudioGrant
      <4>3. QED
        BY <4>1, <4>2
    <3>2. CASE ReleaseAudio(s)
      BY <3>2 DEF ReleaseAudio
    <3>3. CASE AbortPump(s)
      BY <3>3 DEF AbortPump
    <3>4. QED
      BY <2>1, <3>1, <3>2, <3>3 DEF SupervisorStep
  <2>2. ASSUME NEW s \in Sessions, PumpStep(s)
        PROVE SwitchTracksConjunction'
    BY <2>2 DEF PumpStep, PumpSyncAudio, PumpPark, SyncAudio
  <2>3. ASSUME NEW s \in Sessions, Environment(s)
        PROVE SwitchTracksConjunction'
    <3>1. CASE Start(s) \/ Leave(s) \/ PumpExit(s)
      BY <3>1 DEF Start, Leave, PumpExit, PumpTakes
    <3>2. ASSUME NEW b \in BOOLEAN, StoreAudioGrant(s, b)
          PROVE SwitchTracksConjunction'
      BY <3>2 DEF StoreAudioGrant
    <3>3. ASSUME NEW b \in BOOLEAN, PumpSetAudio(s, b)
          PROVE SwitchTracksConjunction'
      BY <3>3 DEF PumpSetAudio
    <3>4. QED
      BY <2>3, <3>1, <3>2, <3>3 DEF Environment
  <2>4. CASE LoopStep \/ UNCHANGED vars
    BY <2>4 DEF LoopStep, LoopCheck, LoopCapture, vars
  <2>5. QED
    BY <2>1, <2>2, <2>3, <2>4 DEF Next
<1>3. QED
  BY <1>1, <1>2, TypeCorrect, PTL DEF Spec

-----------------------------------------------------------------------------
(***************************************************************************)
(* What the same sessions hold down: Input is the module InputSink.        *)
(***************************************************************************)
CONSTANTS Codes, Chars, HostChar, Upper, Ids, MaxContacts, BatchCap, MaxEvents, None

VARIABLES at, events, holds, batch, mods, touchDown, touch, slots, pen, pad,
          down, contacts, starter, lost, strayed

Input == INSTANCE InputSink

\* What a batch is made of.
Entries == Input!Items \X BOOLEAN

\* A release of the item follows each of its presses.
Followed(inputs, item) ==
    \A i \in 1..Len(inputs) : inputs[i] = <<item, TRUE>>
        => \E j \in (i + 1)..Len(inputs) : inputs[j] = <<item, FALSE>>

\* A batch's press is one of a key that its viewer's user still holds, or is
\* otherwise accounted for, or the key's release follows it.
PressFollowed ==
    \A s \in Sessions, c \in Codes :
        Input!Accounted(c, s) \/ Followed(batch[s], Input!Scancode(c))

\* The types the rest of the argument needs.
Inputs ==
    /\ holds \in [Sessions -> SUBSET Codes]
    /\ lost \in [Sessions -> SUBSET Codes]
    /\ strayed \in [Sessions -> SUBSET Codes]
    /\ batch \in [Sessions -> Seq(Entries)]
    /\ down \subseteq Input!Items
    /\ slots \in [Input!Slots -> Ids \union {None}]
    /\ contacts \subseteq Input!Slots

\* The parts of a pair, and its place in a product.
LEMMA EntryParts ==
    ASSUME NEW A, NEW x \in A, NEW p \in BOOLEAN
    PROVE  /\ <<x, p>> \in A \X BOOLEAN
           /\ <<x, p>>[1] = x
           /\ \A y, q : <<x, p>> = <<y, q>> => x = y /\ p = q
OBVIOUS

\* The left button is no key, and a position no character.
LEMMA LeftIsNoKey ==
    /\ Input!Left \in Input!Items
    /\ \A c \in Codes : /\ Input!Scancode(c) \in Input!Items
                        /\ Input!Scancode(c) # Input!Left
                        /\ \A ch : Input!Scancode(c) # Input!Unicode(ch)
    /\ \A c \in Codes : \A ch \in Chars[c] \ {None} : Input!Unicode(ch) \in Input!Items
    /\ \A c, d \in Codes : Input!Scancode(c) = Input!Scancode(d) => c = d
<1>1. Input!Left \in Input!Items
  BY DEF Input!Items
<1>2. \A c \in Codes : /\ Input!Scancode(c) # Input!Left
                       /\ \A ch : Input!Scancode(c) # Input!Unicode(ch)
                       /\ \A d \in Codes : Input!Scancode(c) = Input!Scancode(d) => c = d
  BY DEF Input!Left, Input!Scancode, Input!Unicode
<1>3. \A c \in Codes : Input!Scancode(c) \in Input!Items
  <2>1. \A c \in Codes : <<"scan", c>> \in {"scan"} \X Codes
    OBVIOUS
  <2>2. QED
    BY <2>1 DEF Input!Items, Input!Scancode
<1>4. ASSUME NEW c \in Codes, NEW ch \in Chars[c] \ {None}
      PROVE  Input!Unicode(ch) \in Input!Items
  <2>1. ch \in Input!Characters
    BY <1>4 DEF Input!Characters
  <2>2. <<"char", ch>> \in {"char"} \X Input!Characters
    BY <2>1
  <2>3. QED
    BY <2>2 DEF Input!Items, Input!Unicode
<1>5. QED
  BY <1>1, <1>2, <1>3, <1>4

\* What a sequence is once another entry is added.
LEMMA EntryAdded ==
    ASSUME NEW q \in Seq(Entries), NEW e \in Entries
    PROVE  LET r == Append(q, e)
           IN  /\ r \in Seq(Entries)
               /\ Len(q) \in Nat /\ Len(r) = Len(q) + 1
               /\ \A i \in 1..Len(q) : r[i] = q[i]
               /\ r[Len(q) + 1] = e
               /\ Input!ToSet(q) \subseteq Input!ToSet(r) /\ e \in Input!ToSet(r)
<1> DEFINE r == Append(q, e)
<1>1. /\ r \in Seq(Entries)
      /\ Len(q) \in Nat /\ Len(r) = Len(q) + 1
      /\ \A i \in 1..Len(q) : r[i] = q[i]
      /\ r[Len(q) + 1] = e
      /\ DOMAIN r = 1..Len(r) /\ DOMAIN q = 1..Len(q)
  OBVIOUS
<1> HIDE DEF r
<1>2. Input!ToSet(q) \subseteq Input!ToSet(r) /\ e \in Input!ToSet(r)
  BY <1>1 DEF Input!ToSet
<1>3. QED
  BY <1>1, <1>2 DEF r

\* A sequence that another entry is added to keeps each press followed, but for
\* the added one; an added release follows all of them.
LEMMA FollowedAdded ==
    ASSUME NEW q \in Seq(Entries), NEW e \in Entries, NEW k
    PROVE  /\ Followed(q, k) /\ e # <<k, TRUE>> => Followed(Append(q, e), k)
           /\ e = <<k, FALSE>> => Followed(Append(q, e), k)
<1> DEFINE r == Append(q, e)
<1>1. /\ Len(q) \in Nat /\ Len(r) = Len(q) + 1
      /\ \A j \in 1..Len(q) : r[j] = q[j]
      /\ r[Len(q) + 1] = e
  BY EntryAdded
<1> HIDE DEF r
<1>2. ASSUME Followed(q, k), e # <<k, TRUE>>, NEW i \in 1..Len(r), r[i] = <<k, TRUE>>
      PROVE  \E j \in (i + 1)..Len(r) : r[j] = <<k, FALSE>>
  <2>0. i # Len(q) + 1
    BY <1>1, <1>2
  <2>1. i \in 1..Len(q)
    BY <1>1, <2>0
  <2>2. q[i] = <<k, TRUE>>
    BY <1>1, <1>2, <2>1
  <2>3. PICK j \in (i + 1)..Len(q) : q[j] = <<k, FALSE>>
    BY <1>2, <2>1, <2>2 DEF Followed
  <2>4. j \in (i + 1)..Len(r) /\ j \in 1..Len(q)
    BY <1>1, <2>1, <2>3
  <2>5. QED
    BY <1>1, <2>3, <2>4
<1>3. ASSUME e = <<k, FALSE>>, NEW i \in 1..Len(r), r[i] = <<k, TRUE>>
      PROVE  \E j \in (i + 1)..Len(r) : r[j] = <<k, FALSE>>
  <2>1. <<k, TRUE>> # <<k, FALSE>>
    BY EntryParts
  <2>2. i # Len(q) + 1
    BY <1>1, <1>3, <2>1
  <2>3. Len(q) + 1 \in (i + 1)..Len(r)
    BY <1>1, <2>2
  <2>4. QED
    BY <1>1, <1>3, <2>3
<1>4. QED
  BY <1>2, <1>3 DEF Followed, r

\* An empty batch presses nothing.
LEMMA NothingPressed ==
    ASSUME NEW k
    PROVE  Followed(<<>>, k)
<1>1. \A i : i \notin 1..Len(<<>>)
  OBVIOUS
<1>2. QED
  BY <1>1 DEF Followed

\* An event is added to a session's batch.
LEMMA BatchGrows ==
    ASSUME batch \in [Sessions -> Seq(Entries)],
           NEW s \in Sessions, NEW x \in Input!Items, NEW p \in BOOLEAN,
           batch' = [batch EXCEPT ![s] = Append(@, <<x, p>>)]
    PROVE  /\ batch' \in [Sessions -> Seq(Entries)]
           /\ batch'[s] = Append(batch[s], <<x, p>>)
           /\ \A t \in Sessions : t # s => batch'[t] = batch[t]
<1> DEFINE e == <<x, p>>
<1>1. e \in Entries
  BY EntryParts DEF Entries
<1> HIDE DEF e
<1>2. batch' = [batch EXCEPT ![s] = Append(@, e)]
  BY DEF e
<1>3. Append(batch[s], e) \in Seq(Entries)
  BY <1>1
<1>4. /\ batch' \in [Sessions -> Seq(Entries)]
      /\ batch'[s] = Append(batch[s], e)
      /\ \A t \in Sessions : t # s => batch'[t] = batch[t]
  BY <1>2, <1>3
<1>5. QED
  BY <1>4 DEF e

\* Clicks of the left button are added to the batches, or nothing is.
Clicks ==
    \A t \in Sessions :
        \/ batch'[t] = batch[t]
        \/ \E p \in BOOLEAN : batch'[t] = Append(batch[t], <<Input!Left, p>>)

\* A pointer that is mapped to the mouse.
LEMMA PointerSteps ==
    ASSUME batch \in [Sessions -> Seq(Entries)], touchDown \in BOOLEAN,
           NEW s \in Sessions, NEW phase, Input!PointerAsMouse(s, phase)
    PROVE  /\ touchDown' \in BOOLEAN
           /\ batch' \in [Sessions -> Seq(Entries)]
           /\ Clicks
<1> DEFINE starts == phase = "start" /\ ~touchDown
           ends == phase \in {"end", "cancel"} /\ touchDown
<1>1. /\ touchDown' = ((touchDown \/ starts) /\ ~ends)
      /\ batch' = IF starts \/ ends
                  THEN [batch EXCEPT ![s] = Append(@, <<Input!Left, starts>>)]
                  ELSE batch
  BY DEF Input!PointerAsMouse
<1>2. starts \in BOOLEAN /\ touchDown' \in BOOLEAN
  BY <1>1
<1> HIDE DEF starts, ends
<1>3. CASE starts \/ ends
  <2>1. batch' = [batch EXCEPT ![s] = Append(@, <<Input!Left, starts>>)]
    BY <1>1, <1>3
  <2>2. /\ batch' \in [Sessions -> Seq(Entries)]
        /\ batch'[s] = Append(batch[s], <<Input!Left, starts>>)
        /\ \A t \in Sessions : t # s => batch'[t] = batch[t]
    BY <1>2, <2>1, BatchGrows, LeftIsNoKey
  <2>3. Clicks
    BY <1>2, <2>2 DEF Clicks
  <2>4. QED
    BY <1>2, <2>2, <2>3
<1>4. CASE ~(starts \/ ends)
  BY <1>1, <1>2, <1>4 DEF Clicks
<1>5. QED
  BY <1>3, <1>4

\* A key that a viewer sends on: if its release does not go as the position's,
\* it is counted as strayed, which no steady key is.
LEMMA KeySteps ==
    ASSUME Inputs,
           NEW s \in Sessions, NEW c \in Codes, NEW ch \in Chars[c], NEW p \in BOOLEAN,
           Input!ApplyKey(s, c, ch, p)
    PROVE  \E x \in Input!Items :
               /\ x = Input!Scancode(c) \/ \A k \in Codes : x # Input!Scancode(k)
               /\ ~p /\ x # Input!Scancode(c) => c \in strayed'[s] \ Input!Steady
               /\ batch' \in [Sessions -> Seq(Entries)]
               /\ batch'[s] = Append(batch[s], <<x, p>>)
               /\ \A t \in Sessions : t # s => batch'[t] = batch[t]
<1> DEFINE x == Input!LayoutAware(c, ch, mods' # {})
<1>1. x = Input!Scancode(c) \/ (x = Input!Unicode(ch) /\ ch # None /\ c \notin Input!Steady)
  BY DEF Input!LayoutAware, Input!Steady
<1>2. x \in Input!Items
  BY <1>1, LeftIsNoKey
<1>3. x = Input!Scancode(c) \/ \A k \in Codes : x # Input!Scancode(k)
  BY <1>1, LeftIsNoKey
<1>4. /\ batch' = [batch EXCEPT ![s] = Append(@, <<x, p>>)]
      /\ strayed' = [strayed EXCEPT ![s] =
             IF ~p /\ x # Input!Scancode(c) THEN @ \union {c} ELSE @ \ {c}]
  BY DEF Input!ApplyKey, Input!Adds
<1> HIDE DEF x
<1>5. ~p /\ x # Input!Scancode(c) => c \in strayed'[s] \ Input!Steady
  BY <1>1, <1>4 DEF Inputs
<1>6. /\ batch' \in [Sessions -> Seq(Entries)]
      /\ batch'[s] = Append(batch[s], <<x, p>>)
      /\ \A t \in Sessions : t # s => batch'[t] = batch[t]
  BY <1>2, <1>4, BatchGrows DEF Inputs
<1>7. QED
  BY <1>2, <1>3, <1>5, <1>6

\* What a step does to keys and batches, unless it is a key or a flush.
LEMMA QuietSteps ==
    ASSUME Inputs, touchDown \in BOOLEAN, NEW s \in Sessions,
           \/ Input!PumpEnds(s) \/ Input!Teardown(s) \/ Input!AbortPump(s)
           \/ \E p \in BOOLEAN : Input!Click(s, p) \/ Input!Pad(s, p)
           \/ \E phase \in Input!Phases :
                 Input!Pen(s, phase) \/ \E id \in Ids : Input!Touch(s, id, phase)
    PROVE  /\ UNCHANGED <<holds, lost, strayed>>
           /\ down' \subseteq down
           /\ batch' \in [Sessions -> Seq(Entries)]
           /\ Clicks
           /\ touchDown' \in BOOLEAN
<1>0. batch \in [Sessions -> Seq(Entries)]
  BY DEF Inputs
<1>1. CASE Input!PumpEnds(s) \/ Input!AbortPump(s)
  BY <1>0, <1>1 DEF Input!PumpEnds, Input!AbortPump, Input!history, Input!sinkVars, Clicks
<1>2. CASE Input!Teardown(s)
  BY <1>0, <1>2 DEF Input!Teardown, Input!Release, Clicks
<1>3. CASE \E p \in BOOLEAN : Input!Click(s, p)
  <2>1. PICK p \in BOOLEAN : Input!Click(s, p)
    BY <1>3
  <2>2. /\ UNCHANGED <<holds, lost, strayed, down, touchDown>>
        /\ batch' = [batch EXCEPT ![s] = Append(@, <<Input!Left, p>>)]
    BY <2>1 DEF Input!Click, Input!Adds, Input!history, Input!sinkVars
  <2>3. /\ batch' \in [Sessions -> Seq(Entries)]
        /\ batch'[s] = Append(batch[s], <<Input!Left, p>>)
        /\ \A t \in Sessions : t # s => batch'[t] = batch[t]
    BY <1>0, <2>2, BatchGrows, LeftIsNoKey
  <2>4. Clicks
    BY <2>3 DEF Clicks
  <2>5. QED
    BY <2>2, <2>3, <2>4
<1>4. CASE \E p \in BOOLEAN : Input!Pad(s, p)
  BY <1>0, <1>4 DEF Input!Pad, Input!history, Clicks
<1>5. ASSUME NEW phase \in Input!Phases, UNCHANGED <<holds, lost, strayed, down>>,
             Input!PointerAsMouse(s, phase) \/ UNCHANGED <<touchDown, batch>>
      PROVE  /\ UNCHANGED <<holds, lost, strayed>>
             /\ down' \subseteq down
             /\ batch' \in [Sessions -> Seq(Entries)]
             /\ Clicks
             /\ touchDown' \in BOOLEAN
  <2>1. CASE Input!PointerAsMouse(s, phase)
    BY <1>0, <1>5, <2>1, PointerSteps
  <2>2. CASE UNCHANGED <<touchDown, batch>>
    BY <1>0, <1>5, <2>2 DEF Clicks
  <2>3. QED
    BY <1>5, <2>1, <2>2
<1>6. ASSUME NEW phase \in Input!Phases, Input!Pen(s, phase)
      PROVE  /\ UNCHANGED <<holds, lost, strayed, down>>
             /\ Input!PointerAsMouse(s, phase) \/ UNCHANGED <<touchDown, batch>>
  BY <1>6 DEF Input!Pen, Input!history
<1>7. ASSUME NEW phase \in Input!Phases, NEW id \in Ids, Input!Touch(s, id, phase)
      PROVE  /\ UNCHANGED <<holds, lost, strayed, down>>
             /\ Input!PointerAsMouse(s, phase) \/ UNCHANGED <<touchDown, batch>>
  BY <1>7 DEF Input!Touch
<1>8. QED
  BY <1>1, <1>2, <1>3, <1>4, <1>5, <1>6, <1>7

\* What a step does to the contacts and to the tracker's slots.
LEMMA TouchSteps ==
    ASSUME Input!TypeOK, NEW s \in Sessions, NEW phase, NEW id \in Ids,
           Input!Touch(s, id, phase)
    PROVE  \/ UNCHANGED <<slots, contacts, starter>>
           \/ /\ slots' = Input!NoContacts /\ contacts' = {}
              /\ starter' = Input!NoContacts
           \/ \E i \in Input!Target(id, phase) : Input!InjectTouch(s, id, phase, i)
  BY DEF Input!Touch

\* The slot of an event is one of the device's: the one that has the id, or a
\* free one if none has.
LEMMA TargetSlots ==
    ASSUME NEW id \in Ids, NEW phase, NEW i \in Input!Target(id, phase)
    PROVE  /\ i \in Input!Slots
           /\ \/ slots[i] = id
              \/ /\ slots[i] = None
                 /\ \A j \in Input!Slots : slots[j] # id
                 /\ phase \notin {"end", "cancel"}
  BY DEF Input!Target, Input!SlotOf, Input!Unclaimed

\* The types of tracker, touch device and history after a touch or a release.
LEMMA TouchTypes ==
    ASSUME Input!TypeOK, NEW s \in Sessions, NEW phase, NEW id \in Ids,
           Input!Touch(s, id, phase)
    PROVE  /\ slots' \in [Input!Slots -> Ids \union {None}]
           /\ contacts' \subseteq Input!Slots
           /\ starter' \in [Input!Slots -> Sessions \union {None}]
<1>1. CASE UNCHANGED <<slots, contacts, starter>>
  BY <1>1 DEF Input!TypeOK
<1>2. CASE slots' = Input!NoContacts /\ contacts' = {} /\ starter' = Input!NoContacts
  BY <1>2 DEF Input!NoContacts
<1>3. ASSUME NEW i \in Input!Target(id, phase), Input!InjectTouch(s, id, phase, i)
      PROVE  /\ slots' \in [Input!Slots -> Ids \union {None}]
             /\ contacts' \subseteq Input!Slots
             /\ starter' \in [Input!Slots -> Sessions \union {None}]
  <2>1. i \in Input!Slots
    BY TargetSlots
  <2>2. slots' \in [Input!Slots -> Ids \union {None}]
    BY <1>3, <2>1 DEF Input!InjectTouch, Input!TypeOK
  <2>3. starter' \in [Input!Slots -> Sessions \union {None}]
    BY <1>3, <2>1 DEF Input!InjectTouch, Input!TypeOK
  <2>4. contacts' \subseteq Input!Slots
    BY <1>3, <2>1 DEF Input!InjectTouch, Input!Landed, Input!Frame, Input!Tracked
  <2>5. QED
    BY <2>2, <2>3, <2>4
<1>4. QED
  BY <1>1, <1>2, <1>3, TouchSteps

\* What a touch or a release leaves of the agreement of tracker and system.
LEMMA TrackedSteps ==
    ASSUME None \notin Ids, Input!TypeOK, Input!ContactsTracked,
           [Input!Next]_(Input!vars)
    PROVE  Input!ContactsTracked'
<1> DEFINE Slots == Input!Slots
<1>1. Input!Tracked = {i \in Slots : slots[i] # None}
  BY DEF Input!Tracked, Input!Unclaimed
<1>2. Input!Tracked' = {i \in Slots : slots'[i] # None}
  BY DEF Input!Tracked, Input!Unclaimed, Input!Slots
<1>3. CASE UNCHANGED <<slots, contacts>>
  BY <1>3 DEF Input!ContactsTracked, Input!Tracked, Input!Unclaimed
<1>4. CASE slots' = Input!NoContacts
  <2>1. Input!Tracked' = {}
    BY <1>2, <1>4 DEF Input!NoContacts
  <2>2. QED
    BY <2>1 DEF Input!ContactsTracked
<1>5. ASSUME NEW s \in Sessions, NEW id \in Ids, NEW phase,
             NEW i \in Input!Target(id, phase), Input!InjectTouch(s, id, phase, i)
      PROVE  Input!ContactsTracked'
  <2> DEFINE lifts == phase \in {"end", "cancel"}
  <2>1. Input!Transition(id, phase) = "up" <=> lifts
    BY DEF Input!Transition
  <2>2. /\ i \in Slots
        /\ \/ slots[i] = id
           \/ slots[i] = None /\ (\A j \in Slots : slots[j] # id) /\ ~lifts
    BY TargetSlots
  <2> HIDE DEF lifts
  <2>3. slots' = [slots EXCEPT ![i] = IF lifts THEN None ELSE id]
    BY <1>5, <2>1 DEF Input!InjectTouch
  <2>4. /\ slots'[i] = IF lifts THEN None ELSE id
        /\ \A j \in Slots : j # i => slots'[j] = slots[j]
    BY <2>2, <2>3 DEF Input!TypeOK
  <2>5. \A j, k \in Slots : slots[j] # None /\ slots[j] = slots[k] => j = k
    BY <1>1 DEF Input!ContactsTracked
  <2>6. \A j \in Slots : slots[j] = id => j = i
    BY <2>2, <2>5
  <2>7. \A j, k \in Slots : slots'[j] # None /\ slots'[j] = slots'[k] => j = k
    BY <2>4, <2>5, <2>6
  <2>8. contacts' = {j \in Input!Tracked \union {i} :
                        (IF j = i THEN Input!Transition(id, phase) ELSE "update") # "up"}
    BY <1>5 DEF Input!InjectTouch, Input!Landed, Input!Frame
  <2>9. \A j \in Slots : slots'[j] # None => j \in contacts'
    BY <1>1, <2>1, <2>4, <2>8
  <2>10. QED
    BY <1>2, <2>7, <2>9 DEF Input!ContactsTracked
<1>6. ASSUME NEW s \in Sessions, NEW id \in Ids, NEW phase \in Input!Phases,
             Input!Touch(s, id, phase)
      PROVE  Input!ContactsTracked'
  BY <1>3, <1>4, <1>5, <1>6, TouchSteps
<1>7. ASSUME NEW s \in Sessions, Input!Teardown(s)
      PROVE  Input!ContactsTracked'
  BY <1>4, <1>7 DEF Input!Teardown, Input!Release, Input!CancelAll
<1>8. ASSUME NEW s \in Sessions,
             \/ Input!Flush(s) \/ Input!PumpEnds(s) \/ Input!AbortPump(s)
             \/ \E p \in BOOLEAN : \/ Input!Click(s, p) \/ Input!Pad(s, p)
                                   \/ \E c \in Codes : Input!Key(s, c, p)
             \/ \E phase \in Input!Phases : Input!Pen(s, phase)
      PROVE  UNCHANGED <<slots, contacts>>
  BY <1>8 DEF Input!Flush, Input!PumpEnds, Input!AbortPump, Input!Click, Input!Pad,
     Input!Key, Input!Pen, Input!sinkVars
<1>9. UNCHANGED Input!vars => UNCHANGED <<slots, contacts>>
  BY DEF Input!vars, Input!sinkVars
<1>10. QED
  BY <1>3, <1>6, <1>7, <1>8, <1>9 DEF Input!Next, Input!Viewer

\* Every step keeps the types.
LEMMA InputTypeNext ==
    ASSUME Input!BoundsAssumption, Input!TypeOK, [Input!Next]_(Input!vars)
    PROVE  Input!TypeOK'
<1>0. /\ Inputs /\ touchDown \in BOOLEAN /\ events \in 0..MaxEvents /\ MaxEvents \in Nat
      /\ batch \in [Sessions -> Seq(Entries)]
  BY DEF Input!TypeOK, Input!BoundsAssumption, Inputs, Entries
<1>1. \A c : Input!ModifierBit(c) \subseteq {"Ctrl", "Alt", "Meta"}
  BY DEF Input!ModifierBit
<1>2. Input!Happens => events' \in 0..MaxEvents
  BY <1>0 DEF Input!Happens
<1>3. ASSUME NEW s \in Sessions, NEW c \in Codes, NEW p \in BOOLEAN, Input!Key(s, c, p)
      PROVE  Input!TypeOK'
  <2>1. /\ holds' \in [Sessions -> SUBSET Codes]
        /\ lost' \in [Sessions -> SUBSET Codes]
        /\ strayed' \in [Sessions -> SUBSET Codes]
    <3>1. holds' = [holds EXCEPT ![s] = IF p THEN @ \union {c} ELSE @ \ {c}]
      BY <1>3 DEF Input!Key
    <3>2. /\ \/ lost' = [lost EXCEPT ![s] = @ \ {c}]
             \/ lost' = [lost EXCEPT ![s] = IF p THEN @ ELSE @ \union {c}]
          /\ \/ strayed' = strayed
             \/ strayed' = [strayed EXCEPT ![s] = @ \union {c}]
             \/ strayed' = [strayed EXCEPT ![s] = @ \ {c}]
      BY <1>3 DEF Input!Key, Input!ApplyKey, Input!Swallow
    <3>3. holds' \in [Sessions -> SUBSET Codes]
      BY <1>0, <3>1 DEF Inputs
    <3>4. lost' \in [Sessions -> SUBSET Codes]
      BY <1>0, <3>2 DEF Inputs
    <3>5. strayed[s] \union {c} \in SUBSET Codes /\ strayed[s] \ {c} \in SUBSET Codes
      BY <1>0 DEF Inputs
    <3>6. strayed' \in [Sessions -> SUBSET Codes]
      BY <1>0, <3>2, <3>5 DEF Inputs
    <3>7. QED
      BY <3>3, <3>4, <3>6
  <2>2. batch' \in [Sessions -> Seq(Entries)]
    <3>1. ASSUME NEW ch \in Chars[c], Input!ApplyKey(s, c, ch, p)
          PROVE  batch' \in [Sessions -> Seq(Entries)]
      BY <1>0, <3>1, KeySteps
    <3>2. CASE Input!Swallow(s, c, p)
      BY <1>0, <3>2 DEF Input!Swallow
    <3>3. QED
      BY <1>3, <3>1, <3>2 DEF Input!Key
  <2>3. mods' \subseteq {"Ctrl", "Alt", "Meta"}
    BY <1>1, <1>3 DEF Input!Key, Input!ApplyKey, Input!Swallow, Input!TypeOK
  <2>4. /\ UNCHANGED <<at, touch, slots, pen, pad, down, contacts, starter>>
        /\ touchDown' = touchDown /\ events' \in 0..MaxEvents
    BY <1>2, <1>3 DEF Input!Key
  <2>5. QED
    BY <2>1, <2>2, <2>3, <2>4 DEF Input!TypeOK, Entries
<1>4. ASSUME NEW s \in Sessions, Input!Flush(s) PROVE Input!TypeOK'
  <2>1. PICK n \in 0..Len(batch[s]) :
            /\ down' = Input!SendInput(SubSeq(batch[s], 1, n), down)
            /\ lost' = [lost EXCEPT ![s] = @ \union Input!CutOff(batch[s], n)]
    BY <1>4 DEF Input!Flush
  <2>2. /\ batch' = [batch EXCEPT ![s] = <<>>]
        /\ UNCHANGED <<at, events, holds, contacts, mods, touch, slots, pen, pad,
                       starter, strayed>>
        /\ touchDown' = touchDown
    BY <1>4 DEF Input!Flush, Input!sinkVars
  <2>3. batch' \in [Sessions -> Seq(Entries)]
    <3>1. <<>> \in Seq(Entries)
      OBVIOUS
    <3>2. QED
      BY <1>0, <2>2, <3>1
  <2>4. lost' \in [Sessions -> SUBSET Codes]
    <3>1. Input!CutOff(batch[s], n) \in SUBSET Codes
      BY DEF Input!CutOff
    <3>2. QED
      BY <1>0, <2>1, <3>1 DEF Inputs
  <2>5. down' \subseteq Input!Items
    BY <2>1 DEF Input!SendInput
  <2>6. QED
    BY <2>2, <2>3, <2>4, <2>5 DEF Input!TypeOK, Entries
<1>5. ASSUME NEW s \in Sessions,
             \/ Input!PumpEnds(s) \/ Input!Teardown(s) \/ Input!AbortPump(s)
             \/ \E p \in BOOLEAN : Input!Click(s, p) \/ Input!Pad(s, p)
             \/ \E phase \in Input!Phases :
                   Input!Pen(s, phase) \/ \E id \in Ids : Input!Touch(s, id, phase)
      PROVE  Input!TypeOK'
  <2>1. /\ UNCHANGED <<holds, lost, strayed>>
        /\ down' \subseteq down
        /\ batch' \in [Sessions -> Seq(Entries)]
        /\ touchDown' \in BOOLEAN
    BY <1>0, <1>5, QuietSteps
  <2>2. /\ at' \in [Sessions -> {"open", "left", "late", "over"}]
        /\ events' \in 0..MaxEvents
    BY <1>0, <1>2, <1>5 DEF Input!TypeOK, Input!PumpEnds, Input!Teardown,
       Input!AbortPump, Input!Click, Input!Pad, Input!Pen, Input!Touch, Input!Points
  <2>3. /\ mods' \subseteq {"Ctrl", "Alt", "Meta"}
        /\ touch' \in {"untried", "none", "ready"}
        /\ pen' \in {"none", "hover", "contact"}
        /\ pad' \in {"none", "neutral", "pressed"}
    BY <1>5 DEF Input!TypeOK, Input!PumpEnds, Input!Teardown, Input!Release,
       Input!AbortPump, Input!Click, Input!Pad, Input!Pen, Input!Touch,
       Input!InjectPad, Input!InjectPen, Input!sinkVars
  <2>4. /\ slots' \in [Input!Slots -> Ids \union {None}]
        /\ contacts' \subseteq Input!Slots
        /\ starter' \in [Input!Slots -> Sessions \union {None}]
    <3>1. CASE \E phase \in Input!Phases, id \in Ids : Input!Touch(s, id, phase)
      BY <3>1, TouchTypes
    <3>2. CASE Input!Teardown(s)
      BY <3>2 DEF Input!Teardown, Input!Release, Input!CancelAll, Input!NoContacts,
         Input!TypeOK
    <3>3. CASE UNCHANGED <<slots, contacts, starter>>
      BY <3>3 DEF Input!TypeOK
    <3>4. QED
      BY <1>5, <3>1, <3>2, <3>3 DEF Input!PumpEnds, Input!AbortPump, Input!Click,
         Input!Pad, Input!Pen, Input!sinkVars, Input!history
  <2>5. QED
    BY <1>0, <2>1, <2>2, <2>3, <2>4 DEF Input!TypeOK, Entries, Inputs
<1>6. CASE UNCHANGED Input!vars
  BY <1>6 DEF Input!TypeOK, Input!vars, Input!sinkVars, Input!history
<1>7. QED
  BY <1>3, <1>4, <1>5, <1>6 DEF Input!Next, Input!Viewer

\* Why a key is down: it is accounted for, or the release is on its way.
Reason(c, s) ==
    \/ Input!Accounted(c, s)
    \/ <<Input!Scancode(c), FALSE>> \in Input!ToSet(batch[s])

\* The two parts of what is shown, one key and one session at a time, in the
\* state that a step leads to.
LEMMA MirrorParts ==
    ASSUME \A c \in Codes : Input!Scancode(c) \in down' =>
               \E s \in Sessions : Reason(c, s)',
           \A s \in Sessions, c \in Codes :
               Input!Accounted(c, s)' \/ Followed(batch'[s], Input!Scancode(c))
    PROVE  Input!KeysMirror' /\ PressFollowed'
  BY DEF Input!KeysMirror, PressFollowed, Reason, Followed, Input!Scancode, Input!ToSet

\* A batch that is kept or has a click added is as good as it was.
LEMMA ClicksKeep ==
    ASSUME Inputs, PressFollowed, Clicks, UNCHANGED <<holds, lost, strayed>>,
           NEW t \in Sessions, NEW c \in Codes
    PROVE  /\ Reason(c, t) => Reason(c, t)'
           /\ Input!Accounted(c, t)' \/ Followed(batch'[t], Input!Scancode(c))
<1>1. Input!Accounted(c, t)' <=> Input!Accounted(c, t)
  BY DEF Input!Accounted, Input!Steady, Input!NormalizeChar
<1>2. CASE batch'[t] = batch[t]
  BY <1>1, <1>2 DEF PressFollowed, Reason, Input!Scancode, Input!ToSet
<1>3. ASSUME NEW p \in BOOLEAN, batch'[t] = Append(batch[t], <<Input!Left, p>>)
      PROVE  /\ Reason(c, t) => Reason(c, t)'
             /\ Input!Accounted(c, t)' \/ Followed(batch'[t], Input!Scancode(c))
  <2> DEFINE e == <<Input!Left, p>>
  <2>1. batch[t] \in Seq(Entries) /\ e \in Entries
    BY LeftIsNoKey, EntryParts DEF Inputs, Entries
  <2>2. e # <<Input!Scancode(c), TRUE>>
    BY LeftIsNoKey, EntryParts
  <2> HIDE DEF e
  <2>3. batch'[t] = Append(batch[t], e)
    BY <1>3 DEF e
  <2>4. Input!ToSet(batch[t]) \subseteq Input!ToSet(batch'[t])
    BY <2>1, <2>3, EntryAdded
  <2>5. Followed(batch[t], Input!Scancode(c)) => Followed(batch'[t], Input!Scancode(c))
    BY <2>1, <2>2, <2>3, FollowedAdded
  <2>6. Reason(c, t) => Reason(c, t)'
    BY <1>1, <2>4 DEF Reason, Input!Scancode, Input!ToSet
  <2>7. QED
    BY <1>1, <2>5, <2>6 DEF PressFollowed
<1>4. QED
  BY <1>2, <1>3 DEF Clicks

\* After a call that took the first n of a batch, a key is down because one of
\* these pressed it, or because it was down and none of these released it.
LEMMA Flushed ==
    ASSUME NEW q \in Seq(Entries), NEW n \in 0..Len(q), NEW held, NEW item,
           item \in Input!SendInput(SubSeq(q, 1, n), held)
    PROVE  \/ \E i \in 1..n :
                 /\ q[i] = <<item, TRUE>>
                 /\ \A j \in (i + 1)..n : q[j] # <<item, FALSE>>
           \/ item \in held /\ \A j \in 1..n : q[j] # <<item, FALSE>>
<1> DEFINE p == SubSeq(q, 1, n)
<1>1. /\ Len(q) \in Nat /\ n \in Nat /\ Len(p) = n
      /\ \A i \in 1..n : p[i] = q[i]
  OBVIOUS
<1> HIDE DEF p
<1>2. \A j : p[j] = <<item, FALSE>> => p[j][1] = item
  BY EntryParts
<1>3. Input!Says(p, item, TRUE) \/ (item \in held /\ Input!Silent(p, item, 1))
  BY DEF Input!SendInput, p
<1>4. CASE Input!Says(p, item, TRUE)
  <2>1. PICK i \in 1..Len(p) : p[i] = <<item, TRUE>> /\ Input!Silent(p, item, i + 1)
    BY <1>4 DEF Input!Says
  <2>2. i \in 1..n /\ q[i] = <<item, TRUE>>
    BY <1>1, <2>1
  <2>3. ASSUME NEW j \in (i + 1)..n, q[j] = <<item, FALSE>> PROVE FALSE
    <3>1. j \in (i + 1)..Len(p) /\ j \in 1..n
      BY <1>1, <2>2, <2>3
    <3>2. p[j][1] # item
      BY <2>1, <3>1 DEF Input!Silent
    <3>3. QED
      BY <1>1, <1>2, <2>3, <3>1, <3>2
  <2>4. QED
    BY <2>2, <2>3
<1>5. CASE item \in held /\ Input!Silent(p, item, 1)
  <2>1. \A j \in 1..n : p[j][1] # item
    BY <1>1, <1>5 DEF Input!Silent
  <2>2. QED
    BY <1>1, <1>2, <1>5, <2>1
<1>6. QED
  BY <1>3, <1>4, <1>5

\* A flush leaves a key down only for a reason.
LEMMA FlushSteps ==
    ASSUME Inputs, Input!KeysMirror, PressFollowed, NEW s \in Sessions, Input!Flush(s)
    PROVE  Input!KeysMirror' /\ PressFollowed'
<1>1. PICK n \in 0..Len(batch[s]) :
          /\ down' = Input!SendInput(SubSeq(batch[s], 1, n), down)
          /\ lost' = [lost EXCEPT ![s] = @ \union Input!CutOff(batch[s], n)]
  BY DEF Input!Flush
<1>2. batch' = [batch EXCEPT ![s] = <<>>] /\ UNCHANGED <<holds, strayed>>
  BY DEF Input!Flush
<1>3. /\ batch'[s] = <<>> /\ batch[s] \in Seq(Entries)
      /\ \A t \in Sessions : t # s => batch'[t] = batch[t]
      /\ lost'[s] = lost[s] \union Input!CutOff(batch[s], n)
      /\ \A t \in Sessions : t # s => lost'[t] = lost[t]
      /\ Len(batch[s]) \in Nat /\ n \in Nat /\ n \in 0..Len(batch[s])
  BY <1>1, <1>2 DEF Inputs
<1>4. \A t \in Sessions, c \in Codes : Input!Accounted(c, t) => Input!Accounted(c, t)'
  BY <1>2, <1>3 DEF Input!Accounted, Input!Steady, Input!NormalizeChar
<1>5. \A c \in Codes, j \in (n + 1)..Len(batch[s]) :
          batch[s][j] = <<Input!Scancode(c), FALSE>> => Input!Accounted(c, s)'
  <2>1. TAKE c \in Codes, j \in (n + 1)..Len(batch[s])
  <2>2. batch[s][j] = <<Input!Scancode(c), FALSE>> => c \in Input!CutOff(batch[s], n)
    BY DEF Input!CutOff
  <2>3. QED
    BY <1>3, <2>2 DEF Input!Accounted
<1>6. ASSUME NEW c \in Codes, Input!Scancode(c) \in down'
      PROVE  \E t \in Sessions : Reason(c, t)'
  <2> DEFINE item == Input!Scancode(c)
  <2> DEFINE q == batch[s]
  <2>0. q \in Seq(Entries) /\ n \in 0..Len(q)
        /\ item \in Input!SendInput(SubSeq(q, 1, n), down)
    BY <1>1, <1>3, <1>6 DEF Input!Scancode
  <2> HIDE DEF q, item
  <2>1. \/ \E i \in 1..n : /\ q[i] = <<item, TRUE>>
                           /\ \A j \in (i + 1)..n : q[j] # <<item, FALSE>>
        \/ item \in down /\ \A j \in 1..n : q[j] # <<item, FALSE>>
    BY <2>0, Flushed
  <2> USE DEF q, item
  <2>2. Input!Accounted(c, s)' => \E t \in Sessions : Reason(c, t)'
    BY DEF Reason
  <2>3. ASSUME NEW i \in 1..n, batch[s][i] = <<item, TRUE>>,
               \A j \in (i + 1)..n : batch[s][j] # <<item, FALSE>>
        PROVE  \E t \in Sessions : Reason(c, t)'
    <3>1. i \in 1..Len(batch[s])
      BY <1>3
    <3>2. \/ Input!Accounted(c, s)
          \/ \E j \in (i + 1)..Len(batch[s]) : batch[s][j] = <<item, FALSE>>
      BY <2>3, <3>1 DEF PressFollowed, Followed
    <3>3. ASSUME NEW j \in (i + 1)..Len(batch[s]), batch[s][j] = <<item, FALSE>>
          PROVE  Input!Accounted(c, s)'
      <4>1. j \notin (i + 1)..n
        BY <2>3, <3>3
      <4>2. j \in (n + 1)..Len(batch[s])
        BY <1>3, <3>1, <3>3, <4>1
      <4>3. QED
        BY <1>5, <3>3, <4>2
    <3>4. QED
      BY <1>4, <2>2, <3>2, <3>3
  <2>4. CASE item \in down /\ \A j \in 1..n : batch[s][j] # <<item, FALSE>>
    <3>1. PICK t \in Sessions : Reason(c, t)
      BY <2>4 DEF Input!KeysMirror, Reason
    <3>2. CASE Input!Accounted(c, t)
      BY <1>4, <3>2 DEF Reason
    <3>3. CASE t # s /\ <<item, FALSE>> \in Input!ToSet(batch[t])
      BY <1>3, <3>3 DEF Reason, Input!Scancode, Input!ToSet
    <3>4. CASE t = s /\ <<item, FALSE>> \in Input!ToSet(batch[s])
      <4>1. PICK j \in DOMAIN batch[s] : batch[s][j] = <<item, FALSE>>
        BY <3>4 DEF Input!ToSet
      <4>2. j \in 1..Len(batch[s])
        BY <1>3
      <4>3. j \notin 1..n
        BY <2>4, <4>1
      <4>4. j \in (n + 1)..Len(batch[s])
        BY <1>3, <4>2, <4>3
      <4>5. QED
        BY <1>5, <2>2, <4>1, <4>4
    <3>5. QED
      BY <3>1, <3>2, <3>3, <3>4 DEF Reason
  <2>5. QED
    BY <2>1, <2>3, <2>4
<1>7. ASSUME NEW t \in Sessions, NEW c \in Codes
      PROVE  Input!Accounted(c, t)' \/ Followed(batch'[t], Input!Scancode(c))
  <2>1. CASE t = s
    BY <1>3, <2>1, NothingPressed
  <2>2. CASE t # s
    BY <1>3, <1>4, <2>2 DEF PressFollowed
  <2>3. QED
    BY <2>1, <2>2
<1>8. QED
  BY <1>6, <1>7, MirrorParts

\* A key that is pressed or released is accounted for afterwards, or its release
\* is in the batch; the other keys stand as they stood.
LEMMA ApplySteps ==
    ASSUME Inputs, Input!KeysMirror, PressFollowed, down' = down,
           NEW s \in Sessions, NEW k \in Codes, NEW ch \in Chars[k], NEW p \in BOOLEAN,
           holds' = [holds EXCEPT ![s] = IF p THEN @ \union {k} ELSE @ \ {k}],
           Input!ApplyKey(s, k, ch, p)
    PROVE  Input!KeysMirror' /\ PressFollowed'
<1>1. /\ holds'[s] = IF p THEN holds[s] \union {k} ELSE holds[s] \ {k}
      /\ \A t \in Sessions : t # s => holds'[t] = holds[t]
  BY DEF Inputs
<1>2. /\ lost'[s] = lost[s] \ {k}
      /\ \A t \in Sessions : t # s => lost'[t] = lost[t]
      /\ strayed'[s] \ {k} = strayed[s] \ {k}
      /\ \A t \in Sessions : t # s => strayed'[t] = strayed[t]
  BY DEF Inputs, Input!ApplyKey
<1>3. PICK x \in Input!Items :
          /\ x = Input!Scancode(k) \/ \A c \in Codes : x # Input!Scancode(c)
          /\ ~p /\ x # Input!Scancode(k) => k \in strayed'[s] \ Input!Steady
          /\ batch'[s] = Append(batch[s], <<x, p>>)
          /\ \A t \in Sessions : t # s => batch'[t] = batch[t]
  BY KeySteps
<1> DEFINE e == <<x, p>>
<1>4. batch[s] \in Seq(Entries) /\ e \in Entries
  BY EntryParts DEF Inputs, Entries
<1>5. \A c \in Codes : /\ e = <<Input!Scancode(c), TRUE>> => c = k /\ p
                       /\ ~p /\ x = Input!Scancode(k) => e = <<Input!Scancode(k), FALSE>>
  BY <1>3, EntryParts, LeftIsNoKey
<1> HIDE DEF e
<1>6. batch'[s] = Append(batch[s], e)
  BY <1>3 DEF e
<1>7. /\ Input!ToSet(batch[s]) \subseteq Input!ToSet(batch'[s])
      /\ e \in Input!ToSet(batch'[s])
  BY <1>4, <1>6, EntryAdded
<1>8. /\ \A t \in Sessions, c \in Codes :
             (t # s \/ c # k) => (Input!Accounted(c, t)' <=> Input!Accounted(c, t))
      /\ p => Input!Accounted(k, s)'
      /\ k \in strayed'[s] \ Input!Steady => Input!Accounted(k, s)'
  BY <1>1, <1>2 DEF Input!Accounted, Input!Steady, Input!NormalizeChar
<1>9. Input!Accounted(k, s)' \/ e = <<Input!Scancode(k), FALSE>>
  BY <1>3, <1>5, <1>8
<1>10. ASSUME NEW c \in Codes, Input!Scancode(c) \in down'
       PROVE  \E t \in Sessions : Reason(c, t)'
  <2>1. PICK t \in Sessions : Reason(c, t)
    BY <1>10 DEF Input!KeysMirror, Reason
  <2>2. CASE t # s
    BY <1>3, <1>8, <2>1, <2>2 DEF Reason, Input!Scancode, Input!ToSet
  <2>3. CASE t = s /\ c # k
    BY <1>7, <1>8, <2>1, <2>3 DEF Reason, Input!Scancode, Input!ToSet
  <2>4. CASE t = s /\ c = k
    BY <1>7, <1>9, <2>4 DEF Reason, Input!Scancode, Input!ToSet
  <2>5. QED
    BY <2>2, <2>3, <2>4
<1>11. ASSUME NEW t \in Sessions, NEW c \in Codes
       PROVE  Input!Accounted(c, t)' \/ Followed(batch'[t], Input!Scancode(c))
  <2>1. CASE t # s
    BY <1>3, <1>8, <2>1 DEF PressFollowed
  <2>2. CASE t = s /\ c # k
    <3>1. e # <<Input!Scancode(c), TRUE>>
      BY <1>5, <2>2
    <3>2. Followed(batch[s], Input!Scancode(c)) => Followed(batch'[s], Input!Scancode(c))
      BY <1>4, <1>6, <3>1, FollowedAdded
    <3>3. QED
      BY <1>8, <2>2, <3>2 DEF PressFollowed
  <2>3. CASE t = s /\ c = k
    BY <1>4, <1>6, <1>9, <2>3, FollowedAdded
  <2>4. QED
    BY <2>1, <2>2, <2>3
<1>12. QED
  BY <1>10, <1>11, MirrorParts

\* A key that is swallowed stays accounted for.
LEMMA SwallowSteps ==
    ASSUME Inputs, Input!KeysMirror, PressFollowed, down' = down,
           NEW s \in Sessions, NEW k \in Codes, NEW p \in BOOLEAN,
           holds' = [holds EXCEPT ![s] = IF p THEN @ \union {k} ELSE @ \ {k}],
           Input!Swallow(s, k, p)
    PROVE  Input!KeysMirror' /\ PressFollowed'
<1>1. /\ holds'[s] = IF p THEN holds[s] \union {k} ELSE holds[s] \ {k}
      /\ \A t \in Sessions : t # s => holds'[t] = holds[t]
  BY DEF Inputs
<1>2. /\ UNCHANGED <<batch, strayed>>
      /\ lost'[s] = IF p THEN lost[s] ELSE lost[s] \union {k}
      /\ \A t \in Sessions : t # s => lost'[t] = lost[t]
  BY DEF Inputs, Input!Swallow
<1>3. \A t \in Sessions, c \in Codes : Input!Accounted(c, t) => Input!Accounted(c, t)'
  BY <1>1, <1>2 DEF Input!Accounted, Input!Steady, Input!NormalizeChar
<1>4. ASSUME NEW c \in Codes, Input!Scancode(c) \in down'
      PROVE  \E t \in Sessions : Reason(c, t)'
  BY <1>2, <1>3, <1>4 DEF Input!KeysMirror, Reason, Input!Scancode, Input!ToSet
<1>5. ASSUME NEW t \in Sessions, NEW c \in Codes
      PROVE  Input!Accounted(c, t)' \/ Followed(batch'[t], Input!Scancode(c))
  BY <1>2, <1>3 DEF PressFollowed
<1>6. QED
  BY <1>4, <1>5, MirrorParts

\* No step leaves a key down without a reason, or a press in a batch that is
\* neither accounted for nor followed.
LEMMA MirrorSteps ==
    ASSUME Input!TypeOK, Input!KeysMirror, PressFollowed, [Input!Next]_(Input!vars)
    PROVE  Input!KeysMirror' /\ PressFollowed'
<1>0. Inputs /\ touchDown \in BOOLEAN
  BY DEF Input!TypeOK, Inputs, Entries
<1>1. ASSUME UNCHANGED <<holds, lost, strayed>>, down' \subseteq down, Clicks
      PROVE  Input!KeysMirror' /\ PressFollowed'
  <2>1. ASSUME NEW c \in Codes, Input!Scancode(c) \in down'
        PROVE  \E t \in Sessions : Reason(c, t)'
    <3>1. PICK t \in Sessions : Reason(c, t)
      BY <1>1, <2>1 DEF Input!KeysMirror, Reason
    <3>2. QED
      BY <1>0, <1>1, <3>1, ClicksKeep
  <2>2. \A t \in Sessions, c \in Codes :
            Input!Accounted(c, t)' \/ Followed(batch'[t], Input!Scancode(c))
    BY <1>0, <1>1, ClicksKeep
  <2>3. QED
    BY <2>1, <2>2, MirrorParts
<1>2. ASSUME NEW s \in Sessions, Input!Flush(s)
      PROVE  Input!KeysMirror' /\ PressFollowed'
  BY <1>0, <1>2, FlushSteps
<1>3. ASSUME NEW s \in Sessions, NEW k \in Codes, NEW p \in BOOLEAN, Input!Key(s, k, p)
      PROVE  Input!KeysMirror' /\ PressFollowed'
  <2>1. /\ holds' = [holds EXCEPT ![s] = IF p THEN @ \union {k} ELSE @ \ {k}]
        /\ down' = down
    BY <1>3 DEF Input!Key
  <2>2. ASSUME NEW ch \in Chars[k], Input!ApplyKey(s, k, ch, p)
        PROVE  Input!KeysMirror' /\ PressFollowed'
    BY <1>0, <2>1, <2>2, ApplySteps
  <2>3. CASE Input!Swallow(s, k, p)
    BY <1>0, <2>1, <2>3, SwallowSteps
  <2>4. QED
    BY <1>3, <2>2, <2>3 DEF Input!Key
<1>4. ASSUME NEW s \in Sessions,
             \/ Input!PumpEnds(s) \/ Input!Teardown(s) \/ Input!AbortPump(s)
             \/ \E p \in BOOLEAN : Input!Click(s, p) \/ Input!Pad(s, p)
             \/ \E phase \in Input!Phases :
                   Input!Pen(s, phase) \/ \E id \in Ids : Input!Touch(s, id, phase)
      PROVE  Input!KeysMirror' /\ PressFollowed'
  BY <1>0, <1>1, <1>4, QuietSteps
<1>5. CASE UNCHANGED Input!vars
  <2>1. UNCHANGED <<holds, lost, strayed, down, batch>>
    BY <1>5 DEF Input!vars, Input!history
  <2>2. QED
    BY <1>1, <2>1 DEF Clicks
<1>6. QED
  BY <1>2, <1>3, <1>4, <1>5 DEF Input!Next, Input!Viewer

\* The keys and contacts, together with what they rest on.
InputInv ==
    Input!TypeOK /\ Input!ContactsTracked /\ Input!KeysMirror /\ PressFollowed

\* Nothing is held when the first session begins.
LEMMA InputInit ==
    ASSUME Input!BoundsAssumption, Input!Init
    PROVE  InputInv
<1>1. Input!TypeOK
  <2>1. /\ <<>> \in Seq(Input!Items \X BOOLEAN) /\ events \in 0..MaxEvents
    BY DEF Input!BoundsAssumption, Input!Init
  <2>2. QED
    BY <2>1 DEF Input!Init, Input!TypeOK, Input!NoContacts
<1>2. Input!ContactsTracked
  BY DEF Input!Init, Input!ContactsTracked, Input!Tracked, Input!Unclaimed,
     Input!NoContacts
<1>3. Input!KeysMirror /\ PressFollowed
  BY NothingPressed DEF Input!Init, Input!KeysMirror, PressFollowed
<1>4. QED
  BY <1>1, <1>2, <1>3 DEF InputInv

\* They hold in every reachable state.
LEMMA InputInvariant ==
    ASSUME Input!BoundsAssumption, Input!NoneAssumption
    PROVE  Input!Spec => []InputInv
<1>1. Input!Init => InputInv
  BY InputInit
<1>2. InputInv /\ [Input!Next]_(Input!vars) => InputInv'
  <2> SUFFICES ASSUME InputInv, [Input!Next]_(Input!vars) PROVE InputInv'
    OBVIOUS
  <2>1. None \notin Ids
    BY DEF Input!NoneAssumption
  <2>2. Input!TypeOK'
    BY InputTypeNext DEF InputInv
  <2>3. Input!ContactsTracked'
    BY <2>1, TrackedSteps DEF InputInv
  <2>4. Input!KeysMirror' /\ PressFollowed'
    BY MirrorSteps DEF InputInv
  <2>5. QED
    BY <2>2, <2>3, <2>4 DEF InputInv
<1>3. QED
  BY <1>1, <1>2, PTL DEF Input!Spec

-----------------------------------------------------------------------------
\* What the sink and the sessions hold is well typed in every reachable state.
THEOREM InputTypeCorrect ==
    ASSUME Input!BoundsAssumption, Input!NoneAssumption
    PROVE  Input!Spec => []Input!TypeOK
<1>1. InputInv => Input!TypeOK
  BY DEF InputInv
<1>2. QED
  BY <1>1, InputInvariant, PTL

\* Tracker and system agree about the contacts of all viewers: whatever
\* contacts start, move and end, on however many slots, and whichever session
\* ends meanwhile, no id has two slots, and the system knows each contact that
\* the tracker follows.
THEOREM ContactsAgree ==
    ASSUME Input!BoundsAssumption, Input!NoneAssumption
    PROVE  Input!Spec => []Input!ContactsTracked
<1>1. InputInv => Input!ContactsTracked
  BY DEF InputInv
<1>2. QED
  BY <1>1, InputInvariant, PTL

\* No key sticks unaccounted for, for any layouts, keys and sessions, batches of
\* any length and calls that take any part of them: its position is down only
\* while a user holds it, its release is on the way, or that release was never
\* sent, was cut off, or, for a key on which viewer and host may disagree, went
\* out as a character's.
THEOREM KeysMirrored ==
    ASSUME Input!BoundsAssumption, Input!NoneAssumption
    PROVE  Input!Spec => []Input!KeysMirror
<1>1. InputInv => Input!KeysMirror
  BY DEF InputInv
<1>2. QED
  BY <1>1, InputInvariant, PTL
=============================================================================
