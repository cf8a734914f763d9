------------------------------ MODULE InputSink ------------------------------
(***************************************************************************)
(* What the viewers hold down and what the host's system believes is held: *)
(* the one WindowsInputSink that all sessions of a listener share, the     *)
(* desktop viewer in front of each session and the pump behind it.         *)
(*                                                                         *)
(* A pump applies the events of a message at once, but keys and buttons    *)
(* are collected in the call's batch and reach the system when the call    *)
(* ends, or before a pen, touch or gamepad event; the system may take only *)
(* the first of them, and what it does not take is lost.  Pen, touch and   *)
(* gamepad events go to a synthetic device, which is lost for good at the  *)
(* first error.  From then on pen and touch are mapped to the left mouse   *)
(* button, and the gamepad is lost.                                        *)
(* A session that ends releases what the sink thinks is held, whoever      *)
(* holds it, before its pump is stopped.                                   *)
(* Moves and wheel hold nothing down and are left out, and text, which     *)
(* presses no position, is too; permission and input mode, which only drop *)
(* events, are in Grants.                                                  *)
(***************************************************************************)
EXTENDS Naturals, Sequences, SequencesExt

CONSTANTS
    Sessions,
    Codes,        \* physical keys, by their W3C code
    Chars,        \* what a viewer's layout may make of each, as Shift has it
    HostChar,     \* what the host's layout makes of each, normalized
    Upper,        \* the upper case of a character
    Ids,          \* the viewers' numbers of touch contacts
    MaxContacts,  \* contacts of the synthetic touch device
    BatchCap,     \* bound: keys and buttons in one message
    MaxEvents,    \* bound: events of all viewers together
    None

ASSUME CharsAssumption == DOMAIN Chars = Codes /\ DOMAIN HostChar = Codes
ASSUME ContactsAssumption == MaxContacts \in Nat \ {0}
ASSUME BoundsAssumption == BatchCap \in Nat \ {0} /\ MaxEvents \in Nat
ASSUME NoneAssumption == None \notin Ids \union Sessions

Slots == 1..MaxContacts
Phases == {"start", "move", "end", "cancel"}

Left == <<"button", 0>>
\* None for a key that has no character of its own, and for all keys of the web
\* viewer, which sends none.
Characters == (UNION {Chars[c] : c \in Codes}) \ {None}

\* What the system can see held down.
Items == ({"scan"} \X Codes) \union ({"char"} \X Characters) \union {Left}

VARIABLES
    at,         \* each session; "late": released while its pump still runs
    events,     \* how many events there were
    holds,      \* the keys a viewer's user holds down
    batch,      \* each pump's call of apply: what SendInput has yet to see
    mods,       \* the sink's mask of Ctrl, Alt and Meta
    touchDown,  \* the sink's note of a drag it mapped to the left button
    touch,      \* the touch device: untried, ready or none
    slots,      \* the contacts TouchTracker follows
    pen,        \* the pen device: none, or where the pen is
    pad,        \* the gamepad injector: none, or what it shows
    \* The system:
    down,       \* keys, characters and buttons
    contacts,   \* contacts of the touch device
    \* History, read by the properties only:
    starter,    \* the session whose event claimed a slot
    lost,       \* releases of a viewer that never reached the system
    strayed     \* releases of a viewer that reached it as a character's

sinkVars == <<mods, touchDown, touch, slots, pen, pad>>
history == <<starter, lost, strayed>>
vars == <<at, events, holds, batch, sinkVars, down, contacts, history>>

-----------------------------------------------------------------------------
\* Keys and buttons.

\* Mutant: the mask takes a bit for every key.
FaultyModifierBit(code) == {code}

\* Left and right share a bit.
ModifierBit(code) ==
    CASE code \in {"ControlLeft", "ControlRight"} -> {"Ctrl"}
      [] code \in {"AltLeft", "AltRight"} -> {"Alt"}
      [] code \in {"MetaLeft", "MetaRight"} -> {"Meta"}
      [] OTHER -> {}

\* A key's position, by its scan code.
Scancode(code) == <<"scan", code>>

\* The character itself, whatever the host's layout.
Unicode(ch) == <<"char", ch>>

NormalizeChar(ch) == Upper[ch]

\* Mutant: the character is compared as it came, in lower case without Shift.
FaultyLayoutAware(code, ch, shortcutHeld) ==
    IF ~shortcutHeld /\ ch # None /\ HostChar[code] # ch
    THEN Unicode(ch) ELSE Scancode(code)

\* Decided anew at each event: shortcuts, and keys without a character, are
\* positions; a character that is not what the host makes of the key without
\* Shift is injected as that character.
LayoutAware(code, ch, shortcutHeld) ==
    IF ~shortcutHeld /\ ch # None /\ HostChar[code] # NormalizeChar(ch)
    THEN Unicode(ch) ELSE Scancode(code)

\* The batch has nothing about the item from position i on.
Silent(inputs, item, i) == \A j \in i..Len(inputs) : inputs[j][1] # item

\* The last that the batch says of the item.
Says(inputs, item, pressed) == \E i \in 1..Len(inputs) :
    inputs[i] = <<item, pressed>> /\ Silent(inputs, item, i + 1)

\* SendInput: what it takes takes effect in its order, as one.
SendInput(inputs, held) == {item \in Items :
    Says(inputs, item, TRUE) \/ (item \in held /\ Silent(inputs, item, 1))}

\* The pump still reads this session's socket.
Pumping(s) == at[s] \in {"open", "late"}

Happens == events < MaxEvents /\ events' = events + 1

Adds(s, item, pressed) ==
    /\ Len(batch[s]) < BatchCap
    /\ batch' = [batch EXCEPT ![s] = Append(@, <<item, pressed>>)]

\* InputEvent::Key in apply.
ApplyKey(s, code, ch, pressed) ==
    /\ mods' = IF pressed THEN mods \union ModifierBit(code) ELSE mods \ ModifierBit(code)
    /\ LET item == LayoutAware(code, ch, mods' # {})
       IN  /\ Adds(s, item, pressed)
           /\ strayed' = [strayed EXCEPT ![s] =
                  IF ~pressed /\ item # Scancode(code) THEN @ \union {code} ELSE @ \ {code}]
    /\ lost' = [lost EXCEPT ![s] = @ \ {code}]

\* A viewer that is view-only sends nothing.
Swallow(s, code, pressed) ==
    /\ lost' = [lost EXCEPT ![s] = IF pressed THEN @ ELSE @ \union {code}]
    /\ UNCHANGED <<batch, mods, strayed>>

\* The user presses or releases a key, which has the character that the
\* viewer's layout and Shift give it at that moment.  The viewer forwards it
\* and the pump applies it, unless the I key has made the viewer view-only or
\* the pump is gone.
Key(s, code, pressed) ==
    /\ Happens
    /\ pressed # (code \in holds[s])
    /\ holds' = [holds EXCEPT ![s] = IF pressed THEN @ \union {code} ELSE @ \ {code}]
    /\ \/ Pumping(s) /\ \E ch \in Chars[code] : ApplyKey(s, code, ch, pressed)
       \/ Swallow(s, code, pressed)
    /\ UNCHANGED <<at, touchDown, touch, slots, pen, pad, down, contacts, starter>>

\* InputEvent::MouseButton.
Click(s, pressed) ==
    /\ Happens
    /\ Pumping(s)
    /\ Adds(s, Left, pressed)
    /\ UNCHANGED <<at, holds, sinkVars, down, contacts, history>>

\* The keys whose release the batch holds behind its first n inputs.
CutOff(inputs, n) == {c \in Codes :
    \E i \in (n + 1)..Len(inputs) : inputs[i] = <<Scancode(c), FALSE>>}

\* The call ends, or comes to a pen, touch or gamepad event: the system takes
\* the first n inputs of the batch; of the others there is a warning only.
Flush(s) ==
    /\ batch[s] # <<>>
    /\ \E n \in 0..Len(batch[s]) :
          /\ down' = SendInput(SubSeq(batch[s], 1, n), down)
          /\ lost' = [lost EXCEPT ![s] = @ \union CutOff(batch[s], n)]
    /\ batch' = [batch EXCEPT ![s] = <<>>]
    /\ UNCHANGED <<at, events, holds, sinkVars, contacts, starter, strayed>>

-----------------------------------------------------------------------------
\* Pointers.

\* Press, drag and release of the left button, in place of pen and touch.
PointerAsMouse(s, phase) ==
    LET starts == phase = "start" /\ ~touchDown
        ends == phase \in {"end", "cancel"} /\ touchDown
    IN  /\ touchDown' = ((touchDown \/ starts) /\ ~ends)
        /\ batch' = IF starts \/ ends
                    THEN [batch EXCEPT ![s] = Append(@, <<Left, starts>>)]
                    ELSE batch

\* Queued keys and buttons must land before the pointer event.
Points(s) == Happens /\ Pumping(s) /\ batch[s] = <<>>

SlotOf(id) == {i \in Slots : slots[i] = id}
Unclaimed == {i \in Slots : slots[i] = None}
Tracked == Slots \ Unclaimed

\* The slot an event is about, if any: a move without a start is a start, and
\* the lowest free slot is claimed for it; overflow is ignored.
Target(id, phase) ==
    IF SlotOf(id) # {} \/ phase \in {"end", "cancel"} \/ Unclaimed = {}
    THEN SlotOf(id)
    ELSE {i \in Unclaimed : \A j \in Unclaimed : i <= j}

\* The transition of the contact; a start of a tracked one is a move.
Transition(id, phase) ==
    IF phase \in {"end", "cancel"} THEN "up"
    ELSE IF SlotOf(id) = {} THEN "down" ELSE "update"

\* Mutant: the frame names the changed contact only.
FaultyFrame(changed, action) == [i \in {changed} |-> action]

\* The frame names every active contact.
Frame(changed, action) ==
    [i \in Tracked \union {changed} |-> IF i = changed THEN action ELSE "update"]

\* The system takes a frame whose transitions fit the contacts it knows; one
\* that the frame does not name is lifted.
Fits(frame) == \A i \in DOMAIN frame : frame[i] = "down" <=> i \notin contacts
Landed(frame) == {i \in DOMAIN frame : frame[i] # "up"}

NoContacts == [i \in Slots |-> None]

\* TouchTracker::apply and the injection of its frame.
InjectTouch(s, id, phase, i) ==
    LET frame == Frame(i, Transition(id, phase))
        lifts == Transition(id, phase) = "up"
    IN  /\ Fits(frame)
        /\ contacts' = Landed(frame)
        /\ slots' = [slots EXCEPT ![i] = IF lifts THEN None ELSE id]
        /\ starter' = [starter EXCEPT ![i] =
               IF lifts THEN None ELSE IF SlotOf(id) = {} THEN s ELSE @]

\* A touch event: injected, a no-op, or, without the device or when the frame
\* is refused, mapped to the mouse; the lost device takes its contacts along.
Touch(s, id, phase) ==
    /\ Points(s)
    /\ \/ /\ touch # "none"
          /\ touch' = "ready"
          /\ IF Target(id, phase) = {}
             THEN UNCHANGED <<slots, contacts, starter>>
             ELSE \E i \in Target(id, phase) : InjectTouch(s, id, phase, i)
          /\ UNCHANGED <<touchDown, batch>>
       \/ /\ touch = "ready" => Target(id, phase) # {}
          /\ touch' = "none"
          /\ slots' = NoContacts
          /\ contacts' = {}
          /\ starter' = NoContacts
          /\ PointerAsMouse(s, phase)
    /\ UNCHANGED <<at, holds, mods, pen, pad, down, lost, strayed>>

\* Where an event leaves the pen: a move before a start hovers.
InjectPen(phase) ==
    IF phase = "start" \/ (phase = "move" /\ pen = "contact") THEN "contact" ELSE "hover"

\* A pen event.
Pen(s, phase) ==
    /\ Points(s)
    /\ \/ /\ pen # "none"
          /\ pen' = InjectPen(phase)
          /\ UNCHANGED <<touchDown, batch>>
       \/ /\ pen' = "none"
          /\ PointerAsMouse(s, phase)
    /\ UNCHANGED <<at, holds, mods, touch, slots, pad, down, contacts, history>>

\* What the injected gamepad shows.
InjectPad(pressed) == IF pressed THEN "pressed" ELSE "neutral"

\* A snapshot of the gamepad, with a button pressed or not.
Pad(s, pressed) ==
    /\ Points(s)
    /\ \/ pad # "none" /\ pad' = InjectPad(pressed)
       \/ pad' = "none"
    /\ UNCHANGED <<at, holds, batch, mods, touchDown, touch, slots, pen, down,
                   contacts, history>>

-----------------------------------------------------------------------------
\* The end of a session.

\* The socket is closed, or the viewer broke the protocol.
PumpEnds(s) ==
    /\ at[s] = "open" /\ batch[s] = <<>>
    /\ at' = [at EXCEPT ![s] = "left"]
    /\ UNCHANGED <<events, holds, batch, sinkVars, down, contacts, history>>

\* Mutant: the tracker keeps the contacts it cancelled.
FaultyCancelAll ==
    /\ UNCHANGED <<slots, starter>>
    /\ contacts' \in IF Tracked = {} THEN {contacts} ELSE {{}, contacts}

\* Every contact is cancelled, whoever started it; the injection may fail, and
\* the tracker has forgotten the contacts all the same.
CancelAll ==
    /\ slots' = NoContacts
    /\ starter' = NoContacts
    /\ contacts' \in IF Tracked = {} THEN {contacts} ELSE {{}, contacts}

\* InputSink::release; every call may fail, and is not repeated.
Release ==
    /\ CancelAll
    /\ pad' \in IF pad = "pressed" THEN {"pressed", "neutral"} ELSE {pad}
    /\ touchDown' = FALSE
    /\ down' \in IF touchDown THEN {down \ {Left}, down} ELSE {down}
    /\ mods' = {}
    /\ UNCHANGED <<touch, pen>>

\* Teardown of a session whose pump ended, or, for a kick or a silent viewer,
\* of one whose pump still runs.
Teardown(s) ==
    /\ at[s] \in {"open", "left"}
    /\ at' = [at EXCEPT ![s] = IF @ = "left" THEN "over" ELSE "late"]
    /\ Release
    /\ UNCHANGED <<events, holds, batch, lost, strayed>>

\* The abort takes effect when the pump next waits.
AbortPump(s) ==
    /\ at[s] = "late" /\ batch[s] = <<>>
    /\ at' = [at EXCEPT ![s] = "over"]
    /\ UNCHANGED <<events, holds, batch, sinkVars, down, contacts, history>>

-----------------------------------------------------------------------------
Init ==
    /\ at = [s \in Sessions |-> "open"]
    /\ holds = [s \in Sessions |-> {}]
    /\ events = 0
    /\ batch = [s \in Sessions |-> <<>>]
    /\ mods = {}
    /\ touchDown = FALSE
    /\ touch = "untried" /\ pen = "hover" /\ pad = "neutral"
    /\ slots = NoContacts
    /\ down = {} /\ contacts = {}
    /\ starter = NoContacts
    /\ lost = [s \in Sessions |-> {}]
    /\ strayed = [s \in Sessions |-> {}]

Viewer(s) ==
    \/ \E pressed \in BOOLEAN :
          Click(s, pressed) \/ Pad(s, pressed) \/ \E c \in Codes : Key(s, c, pressed)
    \/ \E phase \in Phases : Pen(s, phase) \/ \E id \in Ids : Touch(s, id, phase)

Next == \E s \in Sessions :
    Viewer(s) \/ Flush(s) \/ PumpEnds(s) \/ Teardown(s) \/ AbortPump(s)

\* A call of apply ends, and a supervisor whose pump ended tears down.
Fairness == \A s \in Sessions :
    /\ WF_vars(Flush(s))
    /\ WF_vars(at[s] = "left" /\ Teardown(s))

Spec == Init /\ [][Next]_vars /\ Fairness

-----------------------------------------------------------------------------
TypeOK ==
    /\ at \in [Sessions -> {"open", "left", "late", "over"}]
    /\ events \in 0..MaxEvents
    /\ holds \in [Sessions -> SUBSET Codes]
    /\ batch \in [Sessions -> Seq(Items \X BOOLEAN)]
    /\ mods \subseteq {"Ctrl", "Alt", "Meta"}
    /\ touchDown \in BOOLEAN
    /\ touch \in {"untried", "none", "ready"}
    /\ slots \in [Slots -> Ids \union {None}]
    /\ pen \in {"none", "hover", "contact"}
    /\ pad \in {"none", "neutral", "pressed"}
    /\ down \subseteq Items
    /\ contacts \subseteq Slots
    /\ starter \in [Slots -> Sessions \union {None}]
    /\ lost \in [Sessions -> SUBSET Codes]
    /\ strayed \in [Sessions -> SUBSET Codes]

\* The tracker and the system agree about the contacts of all viewers: no id
\* has two slots, and the system knows every contact the tracker follows, so
\* that the next frame's transitions fit.
ContactsTracked ==
    /\ \A i, j \in Tracked : slots[i] = slots[j] => i = j
    /\ Tracked \subseteq contacts

\* The keys that always go by their position, with Shift and without: named
\* keys, and letters on which the layouts agree, but no digit.
Steady == {c \in Codes :
    \A ch \in Chars[c] : ch # None => NormalizeChar(ch) = HostChar[c]}

\* A user holds the key, or let go of it and the release never reached the
\* system, or did so as a character's, which cannot happen to a steady key.
Accounted(c, s) == c \in holds[s] \union lost[s] \union (strayed[s] \ Steady)

\* No key sticks unaccounted for: whatever a key went down with, shortcut or
\* not, Shift or not, in whichever session, its position is down on the host
\* only while a viewer's user holds it, its release is in a batch, or that
\* release was not sent (the viewer being view-only or its session over), was
\* cut off by a short SendInput, or went out as the character's.  That a key as
\* plain as a digit is not steady is the code's: pressed as 1 it is a position,
\* released as ! it is a character, and the position stays down.
KeysMirror ==
    \A c \in Codes :
        Scancode(c) \in down =>
            \E s \in Sessions :
                \/ Accounted(c, s)
                \/ <<Scancode(c), FALSE>> \in ToSet(batch[s])

\* The contacts of a viewer that drops off in the middle of a gesture are given
\* up in the end, whatever the other viewers do with the same device.
LeaverLifted ==
    \A s \in Sessions :
        at[s] = "left" ~> \A i \in Slots : starter[i] # s

\* "Release anything still held (touch contacts, dragged mouse button, modifier
\* keys)": when all sessions are over the host holds nothing.  This is not so:
\* release lifts neither keys nor a pressed mouse button nor the pen.
NothingHeld ==
    (\A s \in Sessions : at[s] = "over")
        => down = {} /\ contacts = {} /\ pen # "contact" /\ pad # "pressed"
=============================================================================
