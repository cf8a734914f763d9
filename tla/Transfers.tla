------------------------------ MODULE Transfers ------------------------------
(***************************************************************************)
(* Files dropped by the viewers of one device's sessions: the offers that  *)
(* wait for the panel in TransferManager, the answers that travel back     *)
(* through each session's command queue, the transfer a session receives,  *)
(* and the files in the transfer directory.                                *)
(*                                                                         *)
(* Every file has the same name, the case in which destinations collide,   *)
(* and Size chunks.  A viewer offers an id once; two viewers may use the   *)
(* same id.  Command queues hold other commands too, so that any of them   *)
(* may be full at any time.                                                *)
(***************************************************************************)
EXTENDS Naturals, FiniteSets, Sequences, SequencesExt

CONSTANTS
    Sessions,  \* the device's sessions; each runs once
    Ids,       \* transfer ids, chosen by the viewers
    Size,      \* the chunks of a file
    None       \* no session, no id, no transfer, no file

Offers == Sessions \X Ids
Answers == Ids \X BOOLEAN
Destinations == 1..Cardinality(Offers)

\* What a session receives, and what its pump moves.
Receipts == [id : Ids, received : 0..Size, good : BOOLEAN]
Moves == [id : Ids, to : Destinations]

ASSUME SizeAssumption == Size \in Nat \ {0}
ASSUME FiniteAssumption == IsFiniteSet(Sessions) /\ IsFiniteSet(Ids)
ASSUME NoneAssumption ==
    None \notin Sessions \union Ids \union Offers \union Receipts \union Moves

VARIABLES
    pending,   \* TransferManager.pending: the session that made each offer
    overdue,   \* the pending offers older than OFFER_TTL
    cmds,      \* the answers in each session's command queue
    flag,      \* Shared.offer_pending
    transfer,  \* Shared.transfer: the transfer being received
    sup,       \* where each supervisor stands
    opening,   \* the accepted offer it is about to open
    pump,      \* where each pump stands
    moving,    \* the complete file it is about to move, and where to
    parts,     \* the .part files on disk
    files,     \* the received files on disk, by destination
    \* History, read by the properties only:
    offered,   \* offers made
    told,      \* how many answers each offer got
    orphans,   \* .part files whose transfer was replaced
    kept,      \* offers whose file was moved to its destination
    lost       \* offers whose answer no queue took, or dropped by another session

managerVars == <<pending, overdue>>
sessionVars == <<flag, transfer, sup, opening>>
pumpVars == <<pump, moving>>
diskVars == <<parts, files>>
history == <<offered, told, orphans, kept, lost>>

vars == <<managerVars, cmds, sessionVars, pumpVars, diskVars, history>>

Held(s, id) == transfer[s] # None /\ transfer[s].id = id

Tell(o) == told' = [told EXCEPT ![o] = @ + 1]

(***************************************************************************)
(* TransferManager, under its lock.                                        *)
(***************************************************************************)
\* Faulty variants, here and below, are named "Faulty..." and are no part of
\* the specification: each shows that a property would notice such a bug.
\* This one denies what is overdue and keeps it.
FaultyPruned == pending

\* prune: what is overdue leaves.
Pruned == [id \in Ids |-> IF id \in overdue THEN None ELSE pending[id]]

OverdueOf(s) == {id \in overdue : pending[id] = s}

\* What is overdue leaves without a word.
FaultyDenials(s) == <<>>

\* The denials prune sends to session s.
Denials(s) == SetToSeq(OverdueOf(s) \X {FALSE})

\* Each session gets its sequence of answers, if it listens and its queue has
\* room.
Route(answers, room) ==
    LET reached == {s \in room : sup[s] # "ended"} IN
    /\ cmds' = [s \in Sessions |->
                  IF s \in reached THEN cmds[s] \o answers[s] ELSE cmds[s]]
    /\ lost' = lost \union
                 {o \in Offers : o[1] \notin reached /\
                     \E b \in BOOLEAN : <<o[2], b>> \in ToSet(answers[o[1]])}

\* The panel's page asks for the list.
List(room) ==
    /\ overdue # {}
    /\ pending' = Pruned
    /\ overdue' = {}
    /\ Route([s \in Sessions |-> Denials(s)], room)
    /\ UNCHANGED <<sessionVars, pumpVars, diskVars, offered, told, orphans, kept>>

\* The panel decides.
Answer(id, accept, room) ==
    /\ Pruned[id] # None
    /\ pending' = [Pruned EXCEPT ![id] = None]
    /\ overdue' = {}
    /\ Route([s \in Sessions |->
                IF s = pending[id] THEN Append(Denials(s), <<id, accept>>)
                ELSE Denials(s)], room)
    /\ UNCHANGED <<sessionVars, pumpVars, diskVars, offered, told, orphans, kept>>

\* OFFER_TTL passes.
Expire(id) ==
    /\ pending[id] # None
    /\ overdue' = overdue \union {id}
    /\ UNCHANGED <<pending, cmds, sessionVars, pumpVars, diskVars, history>>

(***************************************************************************)
(* A session's pump: the viewer's messages.                                *)
(***************************************************************************)
Receives(s) == pump[s] = "reading" /\ sup[s] # "ended"

OfferNow(s, id) ==
    /\ Receives(s)
    /\ <<s, id>> \notin offered
    /\ offered' = offered \union {<<s, id>>}

\* A malformed or oversized offer, or one while another is busy, is denied
\* on the spot.
DenyOffer(s, id) ==
    /\ OfferNow(s, id)
    /\ Tell(<<s, id>>)
    /\ UNCHANGED <<managerVars, cmds, sessionVars, pumpVars, diskVars, orphans, kept,
                   lost>>

Free(s) == transfer[s] = None /\ ~flag[s]

\* register refuses an id that is pending.
DuplicateOffer(s, id, room) ==
    /\ OfferNow(s, id)
    /\ Free(s)
    /\ Pruned[id] # None
    /\ pending' = Pruned
    /\ overdue' = {}
    /\ Route([t \in Sessions |-> Denials(t)], room)
    /\ Tell(<<s, id>>)
    /\ UNCHANGED <<sessionVars, pumpVars, diskVars, orphans, kept>>

\* The flag is raised after the offer is registered: its answer may be quicker.
RegisterOffer(s, id, room) ==
    /\ OfferNow(s, id)
    /\ Free(s)
    /\ Pruned[id] = None
    /\ pending' = [Pruned EXCEPT ![id] = s]
    /\ overdue' = {}
    /\ Route([t \in Sessions |-> Denials(t)], room)
    /\ pump' = [pump EXCEPT ![s] = "registered"]
    /\ UNCHANGED <<sessionVars, moving, diskVars, told, orphans, kept>>

RaiseFlag(s) ==
    /\ pump[s] = "registered"
    /\ pump' = [pump EXCEPT ![s] = "reading"]
    /\ flag' = [flag EXCEPT ![s] = TRUE]
    /\ UNCHANGED <<managerVars, cmds, transfer, sup, opening, moving, diskVars,
                   history>>

\* The file is closed and not removed.
FaultyDiscard(s) ==
    /\ transfer' = [transfer EXCEPT ![s] = None]
    /\ UNCHANGED parts

\* ActiveTransfer::discard, of whatever the session receives.
Discard(s) ==
    /\ transfer' = [transfer EXCEPT ![s] = None]
    /\ parts' = IF transfer[s] = None THEN parts ELSE parts \ {transfer[s].id}

\* A chunk that is next in order and fits is written.
Chunk(s, id, good) ==
    /\ Receives(s)
    /\ Held(s, id)
    /\ transfer[s].received < Size
    /\ transfer' = [transfer EXCEPT ![s].received = @ + 1,
                                    ![s].good = @ /\ good]
    /\ UNCHANGED <<managerVars, cmds, flag, sup, opening, pumpVars, diskVars, history>>

\* Any other one, also of a transfer the session does not know, gives up the
\* transfer it has.
BadChunk(s) ==
    /\ Receives(s)
    /\ Discard(s)
    /\ UNCHANGED <<managerVars, cmds, flag, sup, opening, pumpVars, files, history>>

\* FileEnd: size and hash are checked and a free name is looked for.
End(s, id) ==
    /\ Receives(s)
    /\ Held(s, id)
    /\ IF transfer[s].received = Size /\ transfer[s].good
       THEN /\ transfer' = [transfer EXCEPT ![s] = None]
            /\ moving' = [moving EXCEPT ![s] = [id |-> id, to |->
                 CHOOSE d \in Destinations :
                    /\ files[d] = None
                    /\ \A e \in Destinations : e < d => files[e] # None]]
            /\ pump' = [pump EXCEPT ![s] = "moving"]
            /\ UNCHANGED parts
       ELSE Discard(s) /\ UNCHANGED pumpVars
    /\ UNCHANGED <<managerVars, cmds, flag, sup, opening, files, history>>

\* The file is renamed, over whatever has that name by now.
Move(s, ok) ==
    /\ pump[s] = "moving"
    /\ pump' = [pump EXCEPT ![s] = "reading"]
    /\ moving' = [moving EXCEPT ![s] = None]
    /\ parts' = parts \ {moving[s].id}
    /\ IF ok THEN /\ files' = [files EXCEPT ![moving[s].to] = <<s, moving[s].id>>]
                  /\ kept' = kept \union {<<s, moving[s].id>>}
       ELSE UNCHANGED <<files, kept>>
    /\ UNCHANGED <<managerVars, cmds, sessionVars, offered, told, orphans, lost>>

\* FileAbort: of the transfer being received, not of an offer that waits.
Abort(s, id) ==
    /\ Receives(s)
    /\ Held(s, id)
    /\ Discard(s)
    /\ UNCHANGED <<managerVars, cmds, flag, sup, opening, pumpVars, files, history>>

(***************************************************************************)
(* A session's supervisor.                                                 *)
(***************************************************************************)
\* Every answer is taken for an acceptance.
FaultyTakeAnswer(s) ==
    /\ sup[s] = "running" /\ opening[s] = None
    /\ cmds[s] # <<>>
    /\ cmds' = [cmds EXCEPT ![s] = Tail(@)]
    /\ flag' = [flag EXCEPT ![s] = FALSE]
    /\ opening' = [opening EXCEPT ![s] = Head(cmds[s])[1]]
    /\ UNCHANGED <<managerVars, transfer, sup, pumpVars, diskVars, history>>

\* AnswerFileOffer: the flag falls before the transfer is there.
TakeAnswer(s) ==
    /\ sup[s] = "running" /\ opening[s] = None
    /\ cmds[s] # <<>>
    /\ cmds' = [cmds EXCEPT ![s] = Tail(@)]
    /\ flag' = [flag EXCEPT ![s] = FALSE]
    /\ LET id == Head(cmds[s])[1]
           accept == Head(cmds[s])[2]
       IN IF accept THEN opening' = [opening EXCEPT ![s] = id] /\ UNCHANGED told
          ELSE Tell(<<s, id>>) /\ UNCHANGED opening
    /\ UNCHANGED <<managerVars, transfer, sup, pumpVars, diskVars, offered, orphans,
                   kept, lost>>

\* The .part file is created, never opened twice, and the transfer takes the
\* place of the one before.
Open(s) ==
    /\ opening[s] \notin {None} \union parts
    /\ opening' = [opening EXCEPT ![s] = None]
    /\ parts' = parts \union {opening[s]}
    /\ transfer' = [transfer EXCEPT ![s] =
                      [id |-> opening[s], received |-> 0, good |-> TRUE]]
    /\ orphans' = IF transfer[s] = None THEN orphans
                  ELSE orphans \union {transfer[s].id}
    /\ Tell(<<s, opening[s]>>)
    /\ UNCHANGED <<managerVars, cmds, flag, sup, pumpVars, files, offered, kept, lost>>

OpenFails(s) ==
    /\ opening[s] # None
    /\ opening' = [opening EXCEPT ![s] = None]
    /\ Tell(<<s, opening[s]>>)
    /\ UNCHANGED <<managerVars, cmds, flag, transfer, sup, pumpVars, diskVars, offered,
                   orphans, kept, lost>>

\* The session is over: the device's offers are dropped, the transfer is given
\* up, and the pump goes on until it is aborted.
Leave(s) ==
    /\ sup[s] = "running" /\ opening[s] = None
    /\ sup' = [sup EXCEPT ![s] = "leaving"]
    /\ pending' = [id \in Ids |-> None]
    /\ overdue' = {}
    /\ Discard(s)
    /\ lost' = lost \union {<<pending[id], id>> : id \in
                              {i \in Ids : pending[i] \notin {None, s}}}
    /\ UNCHANGED <<cmds, flag, opening, pumpVars, files, offered, told, orphans, kept>>

\* The command queue goes with the supervisor.  A pump that is moving a file
\* does not notice before it has.
AbortPump(s) ==
    /\ sup[s] = "leaving"
    /\ sup' = [sup EXCEPT ![s] = "ended"]
    /\ cmds' = [cmds EXCEPT ![s] = <<>>]
    /\ UNCHANGED <<managerVars, flag, transfer, opening, pumpVars, diskVars, history>>

-----------------------------------------------------------------------------
Init ==
    /\ pending = [id \in Ids |-> None]
    /\ overdue = {}
    /\ cmds = [s \in Sessions |-> <<>>]
    /\ flag = [s \in Sessions |-> FALSE]
    /\ transfer = [s \in Sessions |-> None]
    /\ sup = [s \in Sessions |-> "running"]
    /\ opening = [s \in Sessions |-> None]
    /\ pump = [s \in Sessions |-> "reading"]
    /\ moving = [s \in Sessions |-> None]
    /\ parts = {}
    /\ files = [d \in Destinations |-> None]
    /\ offered = {}
    /\ told = [o \in Offers |-> 0]
    /\ orphans = {}
    /\ kept = {}
    /\ lost = {}

Lists == \E room \in SUBSET Sessions : List(room)

Panel ==
    \/ Lists
    \/ \E id \in Ids, accept \in BOOLEAN, room \in SUBSET Sessions :
          Answer(id, accept, room)

Viewer(s) ==
    \/ \E id \in Ids :
          \/ DenyOffer(s, id) \/ End(s, id) \/ Abort(s, id)
          \/ \E room \in SUBSET Sessions :
                DuplicateOffer(s, id, room) \/ RegisterOffer(s, id, room)
          \/ \E good \in BOOLEAN : Chunk(s, id, good)
    \/ BadChunk(s)

Supervisor(s) == TakeAnswer(s) \/ Open(s) \/ OpenFails(s)

Pump(s) == RaiseFlag(s) \/ \E ok \in BOOLEAN : Move(s, ok)

Next ==
    \/ Panel
    \/ \E id \in Ids : Expire(id)
    \/ \E s \in Sessions :
          Viewer(s) \/ Supervisor(s) \/ Pump(s) \/ Leave(s) \/ AbortPump(s)

\* Tasks run, time passes, and the panel's page, which asks for the list every
\* two seconds, is open: nothing else looks for overdue offers.
Fairness ==
    /\ WF_vars(Lists)
    /\ \A id \in Ids : WF_vars(Expire(id))
    /\ \A s \in Sessions : WF_vars(Supervisor(s)) /\ WF_vars(Pump(s))

Spec == Init /\ [][Next]_vars

PanelSpec == Spec /\ Fairness

-----------------------------------------------------------------------------
TypeOK ==
    /\ pending \in [Ids -> Sessions \union {None}]
    /\ overdue \subseteq {id \in Ids : pending[id] # None}
    /\ cmds \in [Sessions -> Seq(Answers)]
    /\ flag \in [Sessions -> BOOLEAN]
    /\ transfer \in [Sessions -> Receipts \union {None}]
    /\ sup \in [Sessions -> {"running", "leaving", "ended"}]
    /\ opening \in [Sessions -> Ids \union {None}]
    /\ pump \in [Sessions -> {"reading", "registered", "moving"}]
    /\ moving \in [Sessions -> Moves \union {None}]
    /\ parts \subseteq Ids
    /\ files \in [Destinations -> Offers \union {None}]
    \* A viewer is told at most once what became of its offer: never a denial
    \* after an acceptance, nor an answer of the panel and one of the expiry.
    /\ offered \subseteq Offers /\ told \in [Offers -> 0..1]
    /\ orphans \subseteq Ids /\ kept \subseteq Offers /\ lost \subseteq Offers
    /\ \A s \in Sessions : moving[s] # None <=> pump[s] = "moving"
    /\ \A s \in Sessions : sup[s] # "running" => transfer[s] = None /\ opening[s] = None

\* The sessions that write to a .part file.
Writers(id) == {s \in Sessions : Held(s, id)}
               \union {s \in Sessions : moving[s] # None /\ moving[s].id = id}

\* No two sessions write to one .part file, and a .part file nobody writes to
\* is one whose transfer was replaced by the next one the panel accepted:
\* aborts, failures and sessions that end leave none behind.
PartsOwned ==
    \A id \in Ids :
        /\ Cardinality(Writers(id)) <= 1
        /\ Writers(id) # {} => id \in parts
        /\ id \in parts \ orphans => Writers(id) # {}

\* An offer is answered, by the panel or for its age, as long as its session
\* runs, its command queue has room and no other session of the device ends.
OffersAnswered ==
    \A s \in Sessions, id \in Ids :
        <<s, id>> \in offered
            ~> (told[<<s, id>>] > 0 \/ sup[s] # "running" \/ <<s, id>> \in lost)

\* No offer is forgotten on the way to its answer: one that was not answered
\* waits in the manager, has its answer in its session's queue or is being opened,
\* as long as its session runs and no full queue or other session lost it.
OffersPlaced ==
    \A s \in Sessions, id \in Ids :
        /\ <<s, id>> \in offered \ lost
        /\ told[<<s, id>>] = 0
        /\ sup[s] = "running"
        => \/ pending[id] = s
           \/ \E i \in 1..Len(cmds[s]) : cmds[s][i][1] = id
           \/ opening[s] = id

\* How far an offer has come, in the words of FileDrop.
Life(s, id) ==
    IF <<s, id>> \in kept THEN "stored"
    ELSE IF moving[s] # None /\ moving[s].id = id THEN "complete"
    ELSE IF Held(s, id) THEN "receiving"
    ELSE IF opening[s] = id \/ <<id, TRUE>> \in ToSet(cmds[s]) THEN "accepted"
    ELSE IF pending[id] = s THEN "waiting"
    ELSE IF <<s, id>> \in offered THEN "closed"
    ELSE "new"

Drop == INSTANCE FileDrop WITH life <- [o \in Offers |-> Life(o[1], o[2])]

\* "Nothing touches the disk without an explicit per-transfer accept": offers
\* live as FileDrop says.
DropSpec == Drop!Spec

\* "An offer is pending a panel decision": with no answer under way, the flag
\* that makes a session refuse all offers means that one of its offers waits.
FlagMeansPending ==
    \A s \in Sessions :
        flag[s] /\ sup[s] = "running" /\ opening[s] = None /\ cmds[s] = <<>>
            => \E id \in Ids : pending[id] = s
=============================================================================
