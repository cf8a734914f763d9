-------------------------------- MODULE Adapt --------------------------------
(***************************************************************************)
(* The adaptive quality controller of one session.                         *)
(*                                                                         *)
(* The video task ticks it, the writer and the video task report frames    *)
(* the socket would not take, the pump hands it the viewer's statistics    *)
(* and choice of profile; each call holds the session's lock.              *)
(*                                                                         *)
(* Instants are kept as ages in milliseconds that stop growing at Horizon, *)
(* the longest age the code asks for.  Whether a round trip is bloated is  *)
(* the caller's choice: the smoothing of round trips is data.              *)
(***************************************************************************)
EXTENDS Integers

CONSTANT Codec  \* of the session: "jpeg", "h264", "hevc" or "av1"

DecreaseCooldown      == 1500
IncreaseInterval      == 1000
CleanBeforeIncrease   == 2000
CleanBeforeFpsRestore == 8000
RttStreakForDecrease      == 4
QueueStreakForDecrease    == 2
BacklogForDecrease        == 3
FloorPressureForFpsDrop   == 2

Horizon == CleanBeforeFpsRestore

Profile == {"office", "video", "drawing", "gaming"}

VARIABLES
    profile,         \* whose envelope is env
    bitrate,         \* kbit/s
    fps,
    rttHighStreak,   \* bloated round trips in a row
    queueHighStreak, \* reports of a deep decoder queue in a row
    backlogRecent,   \* frames the socket did not take in time
    floorPressure,   \* decreases that found the bitrate at its floor
    sinceDecrease,   \* age of the last decrease,
    sinceIncrease,   \*   of the last increase,
    clean,           \*   and of the last request to decrease
    floored          \* history: the last decrease found the floor, which the
                     \*   bitrate has not left since, nor the profile changed

streaks == <<rttHighStreak, queueHighStreak, backlogRecent>>
quality == <<profile, bitrate, fps, floorPressure, floored>>
ages == <<sinceDecrease, sinceIncrease, clean>>
vars == <<streaks, quality, ages>>

-----------------------------------------------------------------------------
\* What a profile allows.

Larger(a, b) == IF a >= b THEN a ELSE b
Smaller(a, b) == IF a <= b THEN a ELSE b

Envelope(min, max, start, minFps, maxFps) ==
    [min |-> min, max |-> max, start |-> start, minFps |-> minFps, maxFps |-> maxFps]

BaseEnvelope(p) ==
    CASE p = "office"  -> Envelope(500, 6000, 2500, 10, 30)
      [] p = "video"   -> Envelope(2000, 20000, 8000, 24, 60)
      [] p = "drawing" -> Envelope(1000, 10000, 4000, 30, 60)
      [] p = "gaming"  -> Envelope(3000, 30000, 10000, 30, 60)

\* A JPEG session gets more of everything, for the same picture.
EnvelopeOf(p) ==
    IF Codec = "jpeg"
    THEN [BaseEnvelope(p) EXCEPT !.min = @ * 2, !.start = @ * 4, !.max = @ * 4]
    ELSE BaseEnvelope(p)

env == EnvelopeOf(profile)

-----------------------------------------------------------------------------
\* The multiplication by 0.7 is in f32 and truncated, which gives the integer
\* quotient for every bitrate of an envelope.
Cut ==
    IF bitrate > env.min
    THEN /\ bitrate' = Larger((7 * bitrate) \div 10, env.min)
         /\ floorPressure' = 0
         /\ floored' = FALSE
         /\ fps' = fps
    ELSE /\ bitrate' = bitrate
         /\ floored' = TRUE
         /\ IF floorPressure + 1 >= FloorPressureForFpsDrop
            THEN floorPressure' = 0 /\ fps' = Larger(fps \div 2, env.minFps)
            ELSE floorPressure' = floorPressure + 1 /\ fps' = fps

\* A request to decrease; even one the cooldown refuses spoils the calm.
TryDecrease ==
    /\ clean' = 0
    /\ IF sinceDecrease < DecreaseCooldown
       THEN UNCHANGED <<bitrate, fps, floorPressure, floored, sinceDecrease>>
       ELSE sinceDecrease' = 0 /\ Cut
    /\ UNCHANGED <<profile, sinceIncrease>>

-----------------------------------------------------------------------------
\* The calls.

\* The writer took longer than a frame period over a frame, or the video task
\* overwrites a frame that was not sent.
OnSendBacklog ==
    /\ IF backlogRecent + 1 >= BacklogForDecrease
       THEN backlogRecent' = 0 /\ TryDecrease
       ELSE backlogRecent' = backlogRecent + 1 /\ UNCHANGED <<quality, ages>>
    /\ UNCHANGED <<rttHighStreak, queueHighStreak>>

\* A round trip that is not a positive number is ignored: no step.
OnRttSample(bloated) ==
    /\ IF bloated /\ rttHighStreak + 1 >= RttStreakForDecrease
       THEN rttHighStreak' = 0 /\ TryDecrease
       ELSE /\ rttHighStreak' = IF bloated THEN rttHighStreak + 1 ELSE 0
            /\ UNCHANGED <<quality, ages>>
    /\ UNCHANGED <<queueHighStreak, backlogRecent>>

OnViewerStats(deep) ==
    /\ IF deep /\ queueHighStreak + 1 >= QueueStreakForDecrease
       THEN queueHighStreak' = 0 /\ TryDecrease
       ELSE /\ queueHighStreak' = IF deep THEN queueHighStreak + 1 ELSE 0
            /\ UNCHANGED <<quality, ages>>
    /\ UNCHANGED <<rttHighStreak, backlogRecent>>

\* Up by a twelfth, at least 100; at the top and long calm, the full frame rate.
OnTick ==
    /\ clean >= CleanBeforeIncrease
    /\ sinceIncrease >= IncreaseInterval
    /\ sinceIncrease' = 0
    /\ backlogRecent' = 0
    /\ IF bitrate < env.max
       THEN /\ bitrate' = Smaller(bitrate + Larger(bitrate \div 12, 100), env.max)
            /\ floored' = FALSE
            /\ UNCHANGED <<fps, floorPressure>>
       ELSE /\ IF fps < env.maxFps /\ clean >= CleanBeforeFpsRestore
               THEN fps' = env.maxFps /\ floorPressure' = 0
               ELSE UNCHANGED <<fps, floorPressure>>
            /\ UNCHANGED <<bitrate, floored>>
    /\ UNCHANGED <<profile, rttHighStreak, queueHighStreak, sinceDecrease, clean>>

\* At least the new profile's start, at most its maximum; the streaks and the
\* cooldown go on.
SetProfile(p) ==
    /\ profile' = p
    /\ bitrate' = LET wanted == Larger(bitrate, EnvelopeOf(p).start)
                  IN  Smaller(Larger(wanted, EnvelopeOf(p).min), EnvelopeOf(p).max)
    /\ fps' = EnvelopeOf(p).maxFps
    /\ floorPressure' = 0
    /\ floored' = FALSE
    /\ clean' = 0
    /\ UNCHANGED <<streaks, sinceDecrease, sinceIncrease>>

\* Time passes.
Older(age, d) == Smaller(age + d, Horizon)

Elapse(d) ==
    /\ sinceDecrease' = Older(sinceDecrease, d)
    /\ sinceIncrease' = Older(sinceIncrease, d)
    /\ clean' = Older(clean, d)
    /\ UNCHANGED <<streaks, quality>>

-----------------------------------------------------------------------------
\* Every session starts as Office; the first decrease may come at once.
Init ==
    /\ profile = "office"
    /\ bitrate = env.start
    /\ fps = env.maxFps
    /\ rttHighStreak = 0 /\ queueHighStreak = 0 /\ backlogRecent = 0
    /\ floorPressure = 0
    /\ floored = FALSE
    /\ sinceDecrease = DecreaseCooldown
    /\ sinceIncrease = 0
    /\ clean = 0

Next ==
    \/ OnSendBacklog
    \/ \E bloated \in BOOLEAN : OnRttSample(bloated)
    \/ \E deep \in BOOLEAN : OnViewerStats(deep)
    \/ OnTick
    \/ \E p \in Profile : SetProfile(p)
    \/ \E d \in Nat \ {0} : Elapse(d)

Spec == Init /\ [][Next]_vars

-----------------------------------------------------------------------------
\* Types, with every streak below the length at which it is spent.
TypeOK ==
    /\ profile \in Profile
    /\ bitrate \in Nat
    /\ fps \in Nat
    /\ rttHighStreak \in 0..(RttStreakForDecrease - 1)
    /\ queueHighStreak \in 0..(QueueStreakForDecrease - 1)
    /\ backlogRecent \in 0..(BacklogForDecrease - 1)
    /\ floorPressure \in 0..(FloorPressureForFpsDrop - 1)
    /\ sinceDecrease \in 0..Horizon
    /\ sinceIncrease \in 0..Horizon
    /\ clean \in 0..Horizon
    /\ floored \in BOOLEAN

\* Through every sequence of cuts, probes and changes of profile, bitrate and
\* frame rate stay in the envelope of the profile the viewer last chose.
InEnvelope ==
    /\ env.min <= bitrate /\ bitrate <= env.max
    /\ env.minFps <= fps /\ fps <= env.maxFps

\* What keeps FpsIsSticky: a floor that was pressed once is the floor still,
\* unless the bitrate has risen, and then the next cut forgets the pressure.
PressedAtFloor == floorPressure > 0 => floored \/ bitrate > env.min

\* "Frame rate only drops after bitrate has already hit the profile floor and
\* congestion persists": a frame rate that drops under the same profile was
\* preceded by a decrease that found the floor too, with no rise of the
\* bitrate in between and the cooldown over.
FpsIsSticky ==
    [][fps' < fps /\ profile' = profile =>
         /\ floored
         /\ bitrate = env.min
         /\ bitrate' = bitrate
         /\ sinceDecrease >= DecreaseCooldown]_vars
=============================================================================
