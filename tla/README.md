# NebulaDisplay: models, checks and proofs

NebulaDisplay turns a phone, tablet or browser into a second display: a host
service (`nebulad`, Rust) captures a screen, encodes it for every connected
viewer and takes input, audio switches, clipboard text and files back. This
directory holds TLA+ models of the service, the TLC runs that check them and
the TLAPS proofs about them. `PROJECT.json` maps every definition to the lines
it models, lists the hazards and says which property looks at which.

## The system

Paths are under `src/host/service/src` unless they say otherwise.

| Component | State | Operations | Talks to |
|---|---|---|---|
| Session (`session.rs`): supervisor, pump, writer, video task, audio task, one set per viewer | `Shared`: permissions, `AudioCtl`, transfer slots, `force_keyframe`, counters; queues `cmd` (8), `ctl` (32), `aud` (16); the latest-only video slot | panel commands, cursor and clipboard forwarding, ticks, 15 viewer messages, teardown | state, transfers, encoder, capture and audio loops, transport |
| Shared state (`state.rs`) | registry of clients, `host_stats`, cursor watch, `audio_listeners` | register, unregister, cursor policy, the three grants, revoke | trust store, sessions, capture |
| Trust store (`trust.rs`) | devices in memory and in a JSON file | enroll, verify, grants, revoke, load, save | pairing, panel |
| PIN and pairing (`pin.rs`, `pairing.rs`, `server.rs`) | the PIN, attempts per address, a phase per handshake | gate, current, rotate, consume; SPAKE2, legacy and token handshakes; timeout | trust store, session |
| Capture (`capture/`) | newest frame (watch), cursor (watch) | idle, read policy, next frame, publish | state, video tasks |
| Encoders (`encode/`) | codec state, dirty map | create, encode | video task |
| Audio loop (`audio/`) | source, encoder | check listeners, open, fill, release | state, audio tasks |
| Inbound files (`transfers.rs`, `session.rs`) | pending offers, the transfer in progress | offer, answer, chunk, end, abort, expiry | panel, session |
| Outbound files (`panel.rs`, `session.rs`) | the outbound slot, the chunk task, the spool file | send, answer, done, abort | panel, viewer |
| Clipboard (`clipboard.rs`) | last seen hash, clipboard watch | poll, apply | sessions |
| Adaptive controller (`adapt.rs`) | bitrate, frame rate, cooldowns | tick, backlog, RTT and viewer samples | writer, pump, video task |
| Transports (`transport.rs`, `quic.rs`, `src/shared/client`, `src/shared/protocol/src/envelope.rs`) | envelope counters, QUIC lanes | seal, open, send, demultiplex | writer, pump, viewers |
| Frame ring (`src/host/windows-driver`, `capture/windows_idd.rs`) | three slots under a sequence lock | publish, read | driver, capture |
| Input (`input/`) | held contacts | apply, release | pumps, supervisors |
| Viewers (`src/viewer`) | decoder, reconnect, receive state | decode, request keyframe, reconnect, receive files | session |

What is hard here: every session is five tasks that share flags and locks and
wait on each other through bounded queues; the panel changes a store and
pushes the change in two critical sections; tasks are aborted, and an abort
only takes effect where a task waits; watch channels forget what they
overwrite; a viewer may stop reading without closing its socket; saves fail
and the host restarts. What correctness means for each component is listed in
`PROJECT.json` ("hazards"), at the line where it can go wrong.

## The modules

**AudioSwitch** — who is listening. `life[s]` is the supervisor of session
`s`, `pump[s]` its pump, and a step is what the code does under one hold of the
audio lock: storing `allowed` or `enabled` and the `sync_audio` that follows
are two steps, so the tasks interleave between them. `listeners` is
`AppState.audio_listeners`, `loop` the audio loop. An abort is modelled as
Tokio performs it: a parked pump stops, a running one finishes the messages it
already has.

**ClientRegistry** — registration, the client counter and the cursor policy.
`register_client`, `unregister_client` and `refresh_cursor_policy` are split at
their locks; the capture loop reads the policy before it waits for a frame and
publishes it after. The sequence number of the cursor state is left out: what a
subscriber sees is a bit "changed since I looked".

**Duplication** — the DXGI source of mirror mode (`capture/windows_dxgi.rs`), which
`ClientRegistry` composes with the capture loop: the duplication that is lost and
made anew, the staging texture, the pointer's unreported changes (`moved`), and
`picture`, the newest frame, plain or with the pointer drawn in. `NextFrame` is
`next_frame` with every outcome of the system calls; the virtual display's source
never draws a pointer.

**Grants** — one device between trust store, panel and sessions. A request is
`Store` (or `StoreFails`), then `Push`; a session is verified, registered, and
takes commands from a bounded queue. `Restart` reloads the file. `missed`,
`unsaved` and `revoked` are history that only properties read.

**SessionTasks** — supervisor, pump and writer as far as they wait on each
other. A message is only what it does to its sender: offered (`try_send`) or
awaited. The viewer is active, suspended (reads and sends nothing, socket open)
or closed.

**VideoPipeline** — from the captured screen to the socket: capture's watch
channel, the video task with its pacing, encoder recreation, keyframe request
and slot check, the latest-only slot and the writer. Sequence numbers are kept
as the outcome of the comparisons the code makes (`newer`, `caughtUp`), so the
model needs no bound on the number of frames. An encoder call gives a keyframe,
a delta, nothing or an error. A Media Foundation encoder may keep up to `Depth`
pictures (`held`, and for each whether it is the newest) and give them back in
order, one a call: `submit_and_drain` returns nothing when the encoder wants more
input, and returns an output left from before without submitting the frame in
hand. What comes out is sent as the frame in hand, and counts as the newest
picture only if it is. `handled` follows that picture: `pending`, `sent`, or
`skipped` once neither video task nor encoder has it any more (`Account`).

**Transfers** — files dropped by the viewers of one device's sessions.
`TransferManager` is `pending` and `overdue`, and each of its operations is one
step under its lock, with the pruning it begins with; answers travel in each
session's command queue (`Route`: the queue may be full, its session gone). A
pump's offer is `RegisterOffer`, then `RaiseFlag`; its `FileEnd` is `End`, which
checks the file and looks for a free name, then `Move`. The supervisor's
`AnswerFileOffer` is `TakeAnswer`, which lowers the flag, then `Open`.

**FileDrop** — what `Transfers` promises: each offer's life, from offered
through accepted, receiving and complete to stored, or closed on the way.
`Transfers!Life` computes it from the manager, the queues, the slots and the
disk; `DropSpec` says that every step of the code is a step of `FileDrop`.

**OutboundSend** — files the panel sends to one viewer. Four write the slot
(`Shared.outbound`): the supervisor fills it (`TakeSend`, then `RaiseFlag`, then
the awaited `Offer`), the pump attaches the chunk task to it in a second hold of
the lock (`HearAccept`, then `Attach`) or empties it (`HearEnd`), and a chunk
task that fails empties it and then lowers the flag (`TaskEmpties`, then
`TaskClears`), whichever send is in it. The viewer's side is `FileReceiver` of the
desktop and `onOffer` of the web viewer: a viewer that receives, or whose user
is deciding, declines other offers. `replaced` and `stray` remember which sends
another one disturbed, and the properties name them as the exceptions.

**FrameRing** — the shared memory between the display driver and the capture
thread (`src/host/windows-driver/src/Driver.cpp`, `capture/windows_idd.rs`),
whose two sides never lock. `ring[s]` is a slot: its header (`seq`, `width`,
`pitch`, `number`) and its rows, copied in two halves. `PublishFrame` is `Begin`,
which makes the slot's number odd, then `WriteTop` to `WritePitch`, `Close`, which
makes it even, `Point` (`latest_slot`) and `Signal` (the event). `next_frame` is
`Wake`, which consumes the event, `ReadLatest`, then `ReadSeq` to `Check` for up to
three tries (`Retry`); the capture loop then reads the mode (`HandOn`). `Commit`
is a mode the OS chooses, `Assign` and `Unassign` give and take the swap chain.
`Restart` is a restarted driver that finds the old memory, since the host holds
the mapping. A frame has an identity (`made`), known to the properties only; the
number the code compares begins anew with each driver. Three things are
assumed: memory is accessed in program order, as x64 does; the driver restarts
between two frames; stopping a swap chain waits for its thread, which the
destructor does for five seconds. Left out: frames larger than the largest mode,
which `PublishFrame` drops, and modes that share a width.

**InputSink** — what viewers hold down and what the host's system believes is
held (`input/`, and the I key of `src/viewer/desktop`). All sessions of a
listener share one `WindowsInputSink`: `mods`, `touchDown` and `slots` (its
`TouchTracker`) are the sink's, `down` and `contacts` the system's. `Key` and
`Click` put an event into the batch of one call of `apply`, which `Flush` hands to
`SendInput`; `Touch`, `Pen` and `Pad` go to a synthetic device that the first
refused call loses. `Teardown` is the supervisor's `release`; a kick reaches it
while the pump still runs (`late`), until `AbortPump`. `holds` is what the users
hold. A user's press or release comes with any character the layout may give
the key, as Shift does, and `LayoutAware` decides per event between position and
character; `Flush` hands over the batch, of which the system may take the first
inputs only. `starter`, `lost` (a release that was not sent or was cut off) and
`strayed` (one that went out as a character) are history.

**Pairing** — how a viewer gets in (`pin.rs`, `server.rs`, `pairing.rs`, `trust.rs`
and the viewer's `src/viewer/desktop/src/net.rs` and `trust.rs`). `phase[v]` is a
connection's place in the handshake, on both sides; the PIN, the attempts of an
address and the trust store each have a mutex of their own, so `record_failure` is
`WrongPin`, then `RotateAfterFailure`, and `consume` is `Consume`, then
`ClearAttempts`, and other handshakes come in between. `Cut` is a lost
connection, the handshake's timeout or the end of the session.

**Lanes** — a session over QUIC (`quic.rs`, `transport.rs`, `src/shared/client`,
`src/shared/protocol/src/envelope.rs`). `control` and `audio` are the two long
streams, `opened` the streams not yet accepted, `reading` those a reader task has,
`inbound` the bounded queue they all feed, `counters` and `expected` the sealer's
and the opener's counters. The viewer's `demux` is a `select!` of two arms:
`AcceptUni` drops a control read that had begun (`half`), and what it had consumed
is gone (`garbled`).

**Adapt** — the quality controller of one session (`adapt.rs`): its envelopes,
streaks, cooldowns and ages, in the code's milliseconds. Whether a round trip is
bloated is a free choice; its smoothing in `f32` is data.

**Clipboard** — the watcher, the hash of the text seen last, the publications and
each session's forwarding (`clipboard.rs`, `session.rs`). A poll is
`GetText`, `PollHostChange`, `Publish`; a viewer's text is `ApplyFromViewer`, which
stores the hash, then `SetText` or `SetTextFails`, in a blocking task that the
session's end does not stop.

`Adapt` and `Clipboard` have no run: each has one state machine with unbounded
time or counters, and is proved about instead.

Variants of a definition named `Faulty...` are not part of any specification:
each is a plausible bug, and the run named with it in `PROJECT.json` fails when
the variant takes the definition's place.

## The runs

Passing runs:

| Run | Instance | Checks |
|---|---|---|
| `audio_switch` | 2 sessions | the listener count is exact; a slot is held exactly while both sides agree, whenever no sync is in flight; with no listener the device is released for good |
| `client_registry` | 2 capable viewers, 1 legacy, the DXGI source | the counter matches the registry; no overlay misses the newest cursor state (`OverlaysFollow`); the newest picture and the overlays agree on who draws the cursor once the mix is stable (`CursorAgrees`) |
| `grants` | 2 sessions, 2 requests, 1 permission, queue of 2 | a settled session enforces what the store says, but for the changes known not to have reached it; an acknowledged revocation lasts |
| `session_tasks` | queues of 2 | a closed socket and a kick in the queue end the session (`EndsReaped`); silence does, unless the supervisor waits behind a full socket |
| `video_pipeline` | 2 screen sizes, fixed-size encoder that keeps one picture | no capture is slept over, and its picture is inside the encoder or on its way until it was sent or given up (`PictureKept`); a keyframe request is never lost between tasks; overwriting an unsent keyframe is noticed; a still screen's last picture is sent, given up, or kept inside (`NewestSent`) |
| `outbound_send` | 2 sends, files of 2 chunks, control queue of 2 | every spool file has an owner; the busy flag is up exactly while the slot holds a send (`BusyAgrees`); of the file the viewer receives no chunk is lost on the way, and the end comes last (`ChunksInStep`); every send ends, on the host and on the viewer, and frees the slot and the busy flag, but for sends that another one's failure or arrival disturbed (`SendEnds`) |
| `frame_ring` | 3 slots, 4 frames, 2 sizes | what the capture thread takes is one frame, header and rows; what it hands on goes back by one frame at most, and no frame is handed on twice running (`NearlyInOrder`); a still screen's last frame is handed on, with its mode |
| `transfers` | 2 sessions of one device, 2 ids | an offer is answered, and at most once (`told` of `TypeOK`); until then it has one place that will bring the answer, or was lost in one of the named ways (`OffersPlaced`); no two sessions write one part file, and only a replaced transfer leaves one behind; `Transfers` implements `FileDrop` |
| `input_sink` | 2 sessions, 3 keys (a modifier, a letter, a digit that Shift changes), 2 touch ids, 3 events in batches of 2 | the tracker and the system agree about the contacts; a key's position is down only while someone holds it or its release is on the way, was lost, or strayed; the contacts of a viewer that drops off are given up |
| `pairing` | 2 viewers behind one address, 3 PINs, 1 token each, 2 attempts | a spent PIN is never checked against again; an address fails no more often than the limit and its handshakes under way allow; no viewer forgets a good token |
| `lanes` | 2 control, 2 audio and 3 video envelopes, queue of 1 | control and audio arrive in order and without a gap; no task on the way drops an envelope of theirs (`NothingDropped`); reordering never ends a session; every control message arrives, unless the connection is lost or a half-read frame was dropped |

Where the type invariant is proved for every value of the constants, a run leaves
it out for a property that says more: `audio_switch`, `client_registry`, `grants`,
`lanes`, `session_tasks`, `video_pipeline` and `outbound_send`.

One run shows a disagreement between the code and what it says of itself:
`audio_leak`, in which `SetAudio` handled between the release of the slot and the
pump's abort leaves the device open with no session.

More are known and have no run, because a property names them as its exception,
the model stops short of them, or the same modules already carry a passing run.
Definitions that state what the code does not keep stay in their modules, so that
each can be looked at with a `.cfg` of one line:

- a device revoked between verification and registration stays connected
  (`Grants!RevokedIsKicked`): `state.rs:344` kicks the sessions registered so far,
  while `state.rs:341` ("kick any live session for that device") and
  `src/docs/ARCHITECTURE.md:161-162` ("revocation kicks live sessions") know no
  such exception;
- a keyframe request that arrives while the video task waits on a still screen is
  not served (`VideoPipeline!RequestAnswered`, `session.rs:595` against the comment
  above it);
- the last picture of a still screen may stay inside a Media Foundation encoder
  that wants more input first (`mf_video.rs:439-445`: "the next frame flushes it",
  and there is none), and one that meets an output left from before is never
  submitted (`mf_video.rs:389-395`: it "will ride the next credit", but the video
  task has dropped it); until the screen changes or a keyframe is asked for, the
  viewer sees the picture before (`NewestSent` excepts `HeldBack` and `skipped`);
- a session goes on refusing files with no offer pending, when the supervisor
  lowers the flag between `RegisterOffer` and `RaiseFlag`
  (`Transfers!FlagMeansPending`, `session.rs:1014` against `session.rs:123`);
- a viewer that stops reading with its socket open is never given up: writer,
  control queue and supervisor block, and the receive timeout is looked at only
  in the supervisor's tick (`SilentReapedUnlessWedged` excepts it);
- a send that supersedes another sends no `FileAbort` for it: the viewer declines
  the new offer, having the old file to receive, and waits (`SendEnds` excepts
  `replaced`);
- a chunk task that fails after its send was replaced empties the new send's slot,
  deletes its spool and lowers its flag; when the supervisor raises the flag
  after the slot was emptied, it stays up and the panel refuses every further
  send to that session (`SendEnds` excepts `stray`);
- `SendFile` commands still queued when the session ends leave their spool files
  in the outbox (`SpoolsOwned` speaks of a living session);
- a stale cursor policy stays until the mouse moves again, and when the last viewer
  that cannot draw the cursor leaves, a still screen's picture keeps the cursor that
  is drawn in it, besides the overlays', until the screen changes (`CursorAgrees`
  assumes `MovingSpec`);
- an image whose copy failed is released all the same (`ReadFails`): if the screen
  rests then, nobody sees it;
- the capture loop refreshes the rectangle that maps viewers' input "at runtime
  (user rearranges monitors, mode switches)", `capture/mod.rs:216`, from a source
  that took it once, in its constructor (`windows_dxgi.rs:106`);
- two files of one name, completed together, may end under one name (`End` and
  `Move` of `Transfers`);
- a video task creates its encoder for the mode capture has at the time, and
  recreates it when a frame's mode differs from the previous frame's, not from
  the encoder's: a session that starts between a mode switch and the first frame
  of the new mode may keep a fixed-size encoder of the wrong size (`builtFor` of
  `VideoPipeline`);
- a driver killed while it writes a slot leaves its number odd, and `Initialize`
  does not reset it: from then on that slot is even while it is written and odd
  when it is complete, against "a torn read is detected by the odd/even sequence
  counter" of `src/host/windows-driver/README.md`;
- frames can go back by one: the driver closes a slot before it names it
  (`Driver.cpp:234-235`), so a reader that is lapped finds a new frame in the slot
  it was sent to, hands it on, and is sent to the one before it at its next wake
  (`FrameRing!InOrder`, against "the service can always read the newest complete
  frame", line 112 of the same README; `NearlyInOrder` is what holds);
- a restarted driver numbers its frames from 1: one whose number is that of the
  last frame handed on before is taken for a duplicate (`LastSeen` excepts
  `SameNumber`);
- the reader of the ring has no fences; on ARM64, for which the driver is also
  built, its reads may be performed in another order than `FrameRing`'s;
- `release` lifts touch contacts, a drag mapped to the mouse and the gamepad, but
  no key, no pressed mouse button and no pen, though `input/mod.rs:25-28` lists
  modifier keys among what it releases (`InputSink!NothingHeld`);
- one sink serves all sessions: the end of one cancels the contacts another holds,
  and the touch ids of two viewers collide; a cancellation the system refuses
  leaves the contacts down with nobody tracking them;
- whether a key is a position or a character is decided at each event: a digit
  pressed as 1 goes down as a position, and released as ! while Shift is held it goes
  up as a character, and the position stays down, on identical layouts too; so
  does a key that the host's layout renders otherwise, pressed with Ctrl and
  released without (`KeysMirror` excepts `strayed`, but not on `Steady` keys, whose
  characters are all the host's); a `SendInput` that takes fewer events than it
  was given is a warning (`windows_inject.rs:270-274`), and the releases it left
  are gone, as are those that a view-only desktop viewer does not send (`lost`);
  releasing one Ctrl clears the bit of both;
- two handshakes that read a PIN before either was decided both succeed with it
  (`Pairing!SingleUse`, against "single-use" of `pin.rs:3`), and a success forgets
  the failures of every device behind its address;
- a device whose enrolment could not be saved is told so, but its token stays in
  the host's memory (`Enroll`); a host name with "pair" in it makes the desktop
  viewer take any connection error for a rejected token and forget a good one
  (`net.rs:122`; `Pairing` assumes there is none);
- over QUIC, accepting a stream drops the control frame that is half read, and the
  control stream is out of step from there on (`garbled` of `Lanes`); when `demux`
  ends for it while the audio reader still runs, the queue is not closed and the
  viewer waits (`EndsExplained` claims only what ends it);
- a keyframe whose stream is overtaken by a delta's is dropped, and the desktop
  viewer asks for no other one where its decoder returns no picture instead of an
  error (`decode.rs:78-83`);
- text copied while no session had the grant is published at the next grant,
  though `clipboard.rs:136-138` says that what was there before is not shipped;
  a poll between the hash and `set_text`, or after a `set_text` that failed, finds
  the old text to be a change and publishes it again, against "exactly once per
  change" (`clipboard.rs:123`); `PublicationsBounded` therefore allows two for each
  text a viewer sent;
- pressure at the bitrate floor is never forgotten by time alone: two requests to
  decrease with a long still screen in between, while nothing ticks the
  controller, count as congestion that persists (`Adapt`).

**Bounds.** Sessions run once, under ids that are never reused, as in the code
(`next_client_id`). Two sessions are enough for the shared listener count and
registry, because a session only meets the sum of the others; a third, legacy,
viewer is needed to make the policy change while capable ones stay. Queues of 2
instead of 8 and 32 are full sooner, and nothing depends on their length but
being empty, having room or being full. In `grants` one permission, audio,
takes both ways a permission can reach a session: the handle's flag, written
directly, and the command. Two screen sizes are enough to be of the wrong one.
In `transfers` all files have one name, one chunk and a content that is right or
wrong, and a viewer offers an id once, as the web viewer's fresh ids are; two
viewers may use the same. In `frame_ring` four frames come round the three
slots to the one that is being read. In `input_sink` three events are a chord or a
gesture in one session crossed by one in the other, and batches of two hold a
chord, or a press and its release, which are cut anywhere. In `pairing` two viewers behind one address are the overlap of two
handshakes, two attempts leave room for one wrong guess before the last, and three
PINs for a rotation by each viewer. In `lanes` a queue of one is full as often as
can be, and three frames can overtake each other in any order. In `video_pipeline`
the encoder keeps one picture, the depth the code's comment names. The caps on
counters are `MaxFrames` (frames written), `MaxEvents` and `BatchCap` (input events,
in all and per call), `MaxPin` and `MaxToken` (PINs generated, tokens minted) and
`MaxSent` (envelopes per channel); no other module counts further than its
instance does.

**Fairness.** Tokio runs every task that can run, and threads are scheduled:
weak fairness of each task's steps. A `select!` picks among its ready branches
at random, so a branch that is ready again and again is taken: strong fairness
of the branches in `SessionTasks`, of `Follow` and of the arms of `demux` in
`Lanes`. Tokio's bounded channel
serves waiting senders in order: strong fairness of the awaited sends, and of the
lane readers. In `InputSink` a call of `apply` ends (`Flush`) and a supervisor whose
pump ended tears down; nothing makes a user let go. `Pairing`, `Grants`, `Adapt` and
`Clipboard` claim no liveness. Nothing
is assumed of viewers, panel or screen, with four exceptions that are named in
the specifications: `PanelSpec` (the panel's page is open and asks for the list,
without which overdue offers stay) for the answers to offers, `MovingSpec` (the
screen changes and the mouse moves again and again, and can be duplicated and read
in the end) for the cursor's convergence, a viewer that is not suspended
takes what is written to it (in `OutboundSend` its user also answers an offer in
the end), and `EncoderSpec` (an encoder asked again and again for a keyframe gives one, and
can be created in the end).

## The proofs

`AudioSwitchProofs` proves, for every finite set of sessions and either value
of `audio_enabled`:

- `TypeCorrect`: `Spec => []TypeOK`. The typing includes that a session that
  has not started has no pump, which the start's step needs.
- `CountExact`: `Spec => []ListenersExact`. The invariant is inductive with
  `TypeOK`; the lemma `ListeningChange` gives the cardinality of the set of
  slot holders after one session's `counted` changes, and `SyncKeepsExact`
  applies it to the one operator through which both tasks change it.
- `SlotExact`: `Spec => []SwitchTracksConjunction`, from `TypeOK` alone: the
  property names the two places ("granting", "sync") between a stored flag and
  its sync, and is inductive.

and for `InputSink` (as `Input`), for all sessions, keys, touch ids and numbers of
slots and events:

- `InputTypeCorrect` and `ContactsAgree`: `ContactsTracked` is inductive with the
  types.
- `KeysMirrored`: a key goes down only when a batch is flushed, so `KeysMirror` needs
  to know why a batch still holds a press, and, since the batch may be cut anywhere,
  why each of its presses is there: `PressFollowed` says that the press is of a key
  that is `Accounted` for, or that the key's release follows it. Where the cut comes
  before that release, `CutOff` makes the key one whose release was lost (`Flushed`,
  `FlushSteps`).

`VideoPipelineProofs` proves, for every set of screen sizes, both kinds of
encoder and every depth:

- `TypeCorrect`: in three parts, the flags, the places and frames in hand, and
  that what is unread is a frame.
- `RequestsAreKept` and `OverwritesAreNoticed`: `RequestKept` alone is not
  inductive, since a keyframe in the slot may be overwritten. `KeptInv` adds
  `Noticed` (an unread frame is one the writer has not caught up with, and at
  the overwriting it was noticed) and `Behind` (a frame whose encoding began
  before the viewer's last request leaves the request standing, and nothing
  older answers it). The action property follows from `Noticed`.

- `PicturesAreKept`: `PictureKept` alone is not inductive, since the slot's frame may
  be overwritten, and by one whose picture the encoder had kept. `PictureInv` adds
  `InOrder` (the pictures stand in their order in slot, outgoing frame, encoder and
  frame in hand: if one place has the newest, so has every place behind it, and what
  overwrites it shows it too) and `Captured` (what is announced can be taken);
  `PictureIn` and `PictureOut` say what putting a picture into the encoder and taking
  the oldest out of it keeps.

and for `Adapt` (as `Rate`), for every codec, order of calls and passage of time,
`RateTypeCorrect`, `EnvelopeKept` (the bitrate and frame rate stay in the profile's
envelope) and `FrameRateIsSticky`, from `PressedAtFloor`: pressure remembered means
that the last cut found the floor, or that the bitrate has risen since.

`GrantsProofs` proves, for all sessions, requests, permissions and queue
capacities:

- `RevocationHolds` and `FileFollows`: their conjunction is inductive, because only
  pairing makes a record out of none and every successful save writes the whole
  store. It needs no type invariant and no assumption.
- `TypeCorrect`, and `SettledAgreement` from it. `SettledAgrees` speaks of a settled
  session, one with an empty queue and no request on its way, and says nothing
  while anything is under way, so no step could be shown to keep it. `AgreesInv`
  says it of every session at every moment: for each permission, the last command
  in the session's queue that is about it, or the handle's state if there is none
  (`LastSays`), is what the store says, unless a request between its store and its
  push is about it (`Asked`) or the change is one the model marks as missed. The
  lemmas about `LastSays` say what appending to a queue and taking from it do.

`TransfersProofs` proves, for all finite sets of sessions and ids and files of at
least one chunk:

- `TypeCorrect`, with the single answer, and `PartsOwnedAlways`. `TransferInv` says
  of each offer that it is in one place at a time, in `pending`, as one answer in a
  command queue, being opened, or told its answer (`OfferInv`); of each file that it
  is being received, moved or kept, and only after its answer (`FileInv`); of each
  `.part` file that it has one writer, or none and was left behind (`PartInv`); and
  that no offer was kept in two places (`PlaceInv`). The denials that pruning
  sends are a set put in some order: `DenialsSay` says that such a sequence names
  each overdue offer once, whatever the order.
- `OffersPlacedAlways`: `PlacedInv` says that every offer that is owed an answer
  (`Owed`) is in one of three places; `RouteReaches` says that an answer that is
  routed reaches its session's queue or marks its offer as lost.
- `FileDropImplemented`: every step of `Transfers` is a step of `FileDrop` or leaves
  every offer's life as it is. `OnePlace` turns `TransferInv` into one place per
  offer, `Advances` is the step of one offer, `Lapses` that of all those a pruning
  or the end of a session closes, `Stays` the stutter; each operation has one
  lemma (`AnswerMoves` to `AbortPumpLapses`) that says which of them it is.

`RegistryProofs` proves:

- for `ClientRegistry`, for all finite sets of sessions, `TypeCorrect` and `ClientsCounted`:
  `RegistryInv` adds which stages of a session are in the map, so the counter is
  the number of those that count themselves and never has to saturate at zero;
- for the same, `OverlaysAreTold`: whoever publishes a cursor state that is news tells
  every session that follows, and a session that joins looks at it first (`Told`);
  `OverlaysFollow` is inductive with the types;
- for `Clipboard` (as `Clip`), for all sessions and texts, `ClipTypeCorrect` and
  `PublicationsCaused`. `PublicationsBounded` is not inductive; `OwedBounded` adds
  the publications still to come (`Owed`, at most two): no step raises
  publications and `Owed` together by more than it adds to the causes;
- for `SessionTasks` (as `Tasks`), for all capacities of the two queues,
  `TasksTypeCorrect`.

`LanesProofs` proves, for every capacity of the viewer's queue and any number of
envelopes on each channel:

- `TypeCorrect`, `LanesOrdered` and `EndsAreExplained`. That `recv` returns each
  channel in order rests on what is on the way. `LanesInv` says that the two
  long streams hold the newest envelopes sent (`Streams`), that `demux` has in hand
  the one before them (`Forwarding`), and that the queue holds, of control and of
  audio each, a run: every envelope from the one the opener expects to the one
  the stream's reader brings next, once and in order, with anything of the other
  channels in between (`Queue`; once the connection is lost, up to some envelope
  that was sent). Lemmas on runs say what joining one, and taking
  from the head, do (`RunJoined`, `RunPassed`, `RunTaken`, `RunSkipped`); `HeadIsDue`
  concludes that the replay window never refuses an ordered envelope, so that only
  garbage ends a session.
- `NothingIsDropped`, from the same invariant: what was sent and not received is in
  the run of the queue, in the hand of `demux` or in what its stream still holds.
- for `OutboundSend` (as `Send`), for all sends and sizes and every capacity,
  `SendTypeCorrect` and `SpoolsAreOwned`. `SpoolsOwned` alone would let a file have
  two owners, and the discarding of one would take it from the other: `SendInv`
  adds that a queued send is queued once and is not in the slot, that the panel has
  let go of what is in queue and slot, and that an upload's file is there.
- `BusyFlagAgrees`: the flag and the slot are written by four tasks in different
  holds of the lock. `BusyInv` adds that nobody speaks of a send or works on it
  before it was offered (`QuietInv`), that the send in the supervisor's hand left
  panel and queue (`FreshInv`) and is in the slot until it is offered
  (`FilledInv`), and that a task that emptied the slot never finds its own send
  there again (`FailedInv`): so no answer and no failure lowers the flag of a send
  it is not about, but for the ones `stray` names.
- `ChunksStayInStep`: that what was written and what is queued make up what was sent
  must begin at zero. `StepInv` says that a send is in one stage at a time, offered
  and accepted once (`Once`), that it has no task before its accept is heard and no
  chunk before that task streams (`NotBegun`, `NothingSent`), and that its task is
  over once the end is said (`EndLast`). `AtAppend` and `AtTail` count the places of
  a message in a queue to which one is added, and from which one is taken;
  `KeepsStepwise` covers at once every step that brings no news of the send.

`FrameRingProofs` proves, for every number of slots from two, every set of sizes
and any number of frames:

- `TypeCorrect`: `Spec => []TypeOK`.
- `FramesAreWhole` and `RefusalsAreTorn`: neither `WholeFrames` nor
  `ErrorsAreTorn` is inductive. `WholeInv` says that a slot with an even number is
  whole (`SlotsInv`), how far the driver has come with the one it writes
  (`WriterInv`), and that whatever the reader has copied agrees with the slot as
  long as the number it read still stands (`ReaderInv`, `ErrorInv`, `TakenInv`).
  The driver's part rests on the lemma `ClosedSlots`: a slot's number never falls,
  and a closed slot is unchanged as long as its number is.
- `FramesNearlyInOrder`: `OrderInv` says where frames are in the order they were
  made. The slot named holds the newest frame or, while the driver writes, the one
  before (`MadeInv`, `LatestInv`); what the reader is sent to, takes and has handed
  on is older by one at most (`NearInv`); and two copies of a frame have one number,
  so that the number taken last refuses it (`NumberInv`).
- `NewestIsAwaited`: `AwaitInv` says that once the newest frame is named and its signal
  taken, nothing the reader reads changes any more: it is at the slot named, no try
  is torn and no geometry refused, and it rests only over the number it knows
  (`RunInv`). Numbers begin at one (`CountedInv`), so none is that of a reader that
  took nothing (`NoneTakenInv`).

`PairingProofs` proves, for every finite set of viewers, every assignment of
addresses, every limit of attempts and any number of PINs and tokens:

- `TypeCorrect`: `Spec => []TypeOK`.
- `SpentNeverOfferedCorrect`: `SpentInv` says that a PIN that is spent is an older
  one or the current one, marked as consumed, and that what any handshake holds
  is no newer than the current one; `PinGrows` concludes that what `current_pin`
  gives is never spent.
- `FailuresBoundedCorrect`: the invariant is inductive with `TypeOK` because it
  counts the handshakes admitted: `AdmittedFew` bounds them by the viewers of the
  address, and `FewerAdmitted` says that a decision removes one for each failure
  it adds.
- `GoodTokenKeptCorrect`: `TokenInv` says that a pairing presents no token, and
  that a connection rejected while it authenticates by token holds one the host
  does not accept.

A module of proofs may be about a second component, which it takes with
`INSTANCE` under a name (`Clip`, `Tasks`, `Rate`, `Send`, `Input`): the two share
nothing but lemmas. Where such a theorem needs what the component assumes of its
constants, it carries the component's own named assumption as its hypothesis.

What is assumed in all this is what each module assumes of its constants, and no
more: capacities, sizes and limits are at least one (two for the ring's slots, of
which the code has three), the permissions are among the code's three, sessions,
viewers and ids are finitely many where something counts them, and a value that
stands for something else (`None`, `Unknown`, `Garbage`) is none of the values it
stands beside. TLC evaluates these assumptions in every run.

Every invariant, every action property and the refinement that a run checks is
thereby proved. Model-checked only, since the provers do not reach liveness under
fairness: `CursorAgrees`, `EndsReaped`, `SilentReapedUnlessWedged`, `NewestSent`,
`StillAnswered`, `SendEnds`, `LastSeen`, `OffersAnswered`, `LeaverLifted`,
`ControlArrives` and `DeviceReleased`. What `Adapt` and `Clipboard` claim is safety
and is proved only.

## Not modelled, and the plan

Left out for good: what encoders, resamplers and ciphers compute, the HTTP and
mDNS plumbing, start-up and configuration, the tray app and the installer; they
are sequential I/O or data the properties do not tell apart. The web viewer's
drawing and reconnecting are browser calls around one event loop; of the viewers
only what the host's correctness leans on is modelled: the receiver of files, the
pairing loop, the lanes.

Left out because the model would say little: the chain of deltas in the decoder.
`VideoPipeline` shows that an overwritten keyframe is noticed and asked for again;
whether the decoder then shows a whole picture depends on how it reports a
missing reference, which is the codec library's.

Planned, in this order:

1. `Viewer`: decoder resynchronisation and reconnect, composed with
   `VideoPipeline` and `Lanes`.
2. Larger instances: a third session in `audio_switch` and `transfers`.
