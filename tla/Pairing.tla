------------------------------- MODULE Pairing -------------------------------
(***************************************************************************)
(* How a viewer gets in: the host's pairing PIN and its guard against      *)
(* guessing, the server's handshake of each connection, the trust tokens   *)
(* it mints, and the viewer's connection logic with its credential store.  *)
(*                                                                         *)
(* Handshakes run in parallel, on threads of their own.  They share the    *)
(* PIN, the counters of failed attempts and the trust store, each behind a *)
(* mutex of its own, so that what the code does under one mutex after      *)
(* another is one action after another here.  A SPAKE2 pairing reads the   *)
(* PIN when it starts, a legacy pairing when it is confirmed; what either  *)
(* does with the PIN it read comes later.                                  *)
(*                                                                         *)
(* PINs are numbered in the order of their generation: two generated PINs  *)
(* differ.  The cryptography is perfect: a proof fits or it does not.  A   *)
(* message that cannot be decoded or does not fit the phase ends the       *)
(* connection like a lost one; a share that is no point, which counts as a *)
(* wrong PIN, is sent by no viewer.  The viewer takes any error with       *)
(* "pair" in it for a rejected token: host names are taken to be without   *)
(* it.  Grants and restarts are in Grants.                                 *)
(***************************************************************************)
EXTENDS Naturals, FiniteSets

CONSTANTS
    Viewers,      \* installed viewers; a viewer has one connection at a time
    Ips,
    Ip,           \* where each viewer's connections come from
    MaxAttempts,  \* cfg.max_pin_attempts
    MaxPin,       \* bound: PINs generated
    MaxToken      \* bound: tokens minted for a device

ASSUME ViewersAssumption == IsFiniteSet(Viewers)
ASSUME IpAssumption == Ip \in [Viewers -> Ips]
ASSUME AttemptsAssumption == MaxAttempts \in Nat \ {0}
ASSUME BoundsAssumption == MaxPin \in Nat \ {0} /\ MaxToken \in Nat

Pins == 1..MaxPin
Tokens == 1..MaxToken

NoPin == 0               \* a wrong PIN typed, or none read
NoToken == 0
Foreign == MaxToken + 1  \* paired at this address with another fingerprint

AuthMethod == {"pair", "spake2", "token"}

\* Where a connection is; after "read" come the steps of a verdict.
Phase == {"idle", "hello", "start", "gated", "read", "proof",
          "rotating", "clearing", "enrolling", "paired", "rejected", "session"}

VARIABLES
    legacyOn, \* cfg.allow_legacy_pairing
    pin,      \* PinState: the number of the current PIN,
    used,     \*   consumed,
    expired,  \*   older than its time to live
    fails,    \* Attempts: failures of each address,
    lock,     \*   and its lockout: none, on, or over but not yet reset
    phase,    \* each viewer's connection
    auth,     \* how the viewer authenticates
    typed,    \* the PIN its user typed
    read,     \* the PIN the host's handshake works with
    minted,   \* tokens minted for each device
    trusted,  \* whether the trust store holds the last of them
    stored,   \* the token in each viewer's credential store
    spent     \* history: PINs consumed or guessed wrongly

pinVars == <<pin, used, expired>>
attempts == <<fails, lock>>
tokens == <<minted, trusted, stored>>
vars == <<legacyOn, pinVars, attempts, phase, auth, typed, read, tokens, spent>>

-----------------------------------------------------------------------------
\* PinManager.

Rotate == pin < MaxPin /\ pin' = pin + 1 /\ used' = FALSE /\ expired' = FALSE

\* Mutant: a consumed PIN is shown until it expires.
FaultyCurrentPin == IF expired THEN Rotate ELSE UNCHANGED pinVars

\* current_pin: the PIN to show or to check against is rotated first when it is
\* consumed or expired.
CurrentPin == IF used \/ expired THEN Rotate ELSE UNCHANGED pinVars

\* Mutant: the failures outlive the lockout.
FaultyGate(ip) ==
    /\ lock[ip] # "on"
    /\ lock' = [lock EXCEPT ![ip] = "none"]
    /\ UNCHANGED fails

\* gate: a lockout that is over is reset.
Gate(ip) ==
    /\ lock[ip] # "on"
    /\ fails' = IF lock[ip] = "over" THEN [fails EXCEPT ![ip] = 0] ELSE fails
    /\ lock' = [lock EXCEPT ![ip] = "none"]

\* record_failure, the part under the mutex of the attempts.
CountFailure(ip) ==
    /\ fails' = [fails EXCEPT ![ip] = @ + 1]
    /\ lock' = IF fails'[ip] >= MaxAttempts THEN [lock EXCEPT ![ip] = "on"] ELSE lock

\* Mutant: a success takes one failure back.
FaultyForgetAttempts(ip) ==
    /\ fails' = [fails EXCEPT ![ip] = @ - 1]
    /\ lock' = [lock EXCEPT ![ip] = "none"]

\* consume, the part under the mutex of the attempts.
ForgetAttempts(ip) ==
    /\ fails' = [fails EXCEPT ![ip] = 0]
    /\ lock' = [lock EXCEPT ![ip] = "none"]

\* The panel shows the PIN, or its button asks for a new one.
Panel ==
    /\ CurrentPin \/ Rotate
    /\ UNCHANGED <<attempts, phase, auth, typed, read, tokens, spent>>

\* pin_ttl_secs pass.
Expire ==
    /\ expired' = TRUE
    /\ UNCHANGED <<pin, used, attempts, phase, auth, typed, read, tokens, spent>>

\* lockout_secs pass.
LockoutOver(ip) ==
    /\ lock[ip] = "on"
    /\ lock' = [lock EXCEPT ![ip] = "over"]
    /\ UNCHANGED <<pinVars, fails, phase, auth, typed, read, tokens, spent>>

-----------------------------------------------------------------------------
\* The handshake.  A connection moves on.
Goes(v, from, to) == phase[v] = from /\ phase' = [phase EXCEPT ![v] = to]

\* The handshake's own data go with it.
Forget(v) == typed' = [typed EXCEPT ![v] = NoPin] /\ read' = [read EXCEPT ![v] = NoPin]

\* The viewer authenticates with the token it stored, else with a PIN: the one
\* last seen on the panel, an older one, or a wrong one.
Chooses(v) ==
    IF stored[v] # NoToken
    THEN auth' = [auth EXCEPT ![v] = "token"] /\ UNCHANGED typed
    ELSE /\ \E a \in {"pair", "spake2"} : auth' = [auth EXCEPT ![v] = a]
         /\ \E p \in 0..pin : typed' = [typed EXCEPT ![v] = p]

\* The viewer connects and says hello.
Dial(v) ==
    /\ Goes(v, "idle", "hello")
    /\ Chooses(v)
    /\ UNCHANGED <<pinVars, attempts, read, tokens, spent>>

\* The host's fingerprint is not the one the viewer paired with.
HostChanged(v) == stored[v] = Foreign

\* Hello and its answer; the viewer proves no token to a host that changed.
Hello(v) ==
    /\ \/ auth[v] = "pair" /\ ~legacyOn /\ Goes(v, "hello", "rejected")
       \/ auth[v] = "token" /\ HostChanged(v) /\ Goes(v, "hello", "rejected")
       \/ /\ auth[v] = "pair" => legacyOn
          /\ auth[v] = "token" => ~HostChanged(v)
          /\ Goes(v, "hello", "start")
    /\ UNCHANGED <<pinVars, attempts, auth, typed, read, tokens, spent>>

\* Spake2Start or PairStart: pairing is rate-limited, token authentication not.
StartPairing(v) ==
    /\ auth[v] # "token"
    /\ \/ /\ lock[Ip[v]] = "on"
          /\ Goes(v, "start", "rejected")
          /\ UNCHANGED attempts
       \/ /\ Gate(Ip[v])
          /\ Goes(v, "start", "gated")
    /\ UNCHANGED <<pinVars, auth, typed, read, tokens, spent>>

StartToken(v) ==
    /\ auth[v] = "token"
    /\ Goes(v, "start", "proof")
    /\ UNCHANGED <<pinVars, attempts, auth, typed, read, tokens, spent>>

\* The PIN to check against: read on Spake2Start, or on PairConfirm.
ReadPin(v) ==
    /\ Goes(v, "gated", "read")
    /\ CurrentPin
    /\ read' = [read EXCEPT ![v] = pin']
    /\ UNCHANGED <<attempts, auth, typed, tokens, spent>>

\* What the viewer derived from its PIN fits what the host derived.
Confirms(v) == typed[v] = read[v]

\* A confirmation that does not fit: the failure is counted, ...
WrongPin(v) ==
    /\ ~Confirms(v)
    /\ Goes(v, "read", "rotating")
    /\ CountFailure(Ip[v])
    /\ UNCHANGED <<pinVars, auth, typed, read, tokens, spent>>

\* ... then the PIN is rotated and the viewer told.
RotateAfterFailure(v) ==
    /\ Goes(v, "rotating", "rejected")
    /\ Rotate
    /\ spent' = spent \union {read[v]}
    /\ UNCHANGED <<attempts, auth, typed, read, tokens>>

\* One that fits: whatever PIN is current is consumed, ...
Consume(v) ==
    /\ Confirms(v)
    /\ Goes(v, "read", "clearing")
    /\ used' = TRUE
    /\ spent' = spent \union {read[v]}
    /\ UNCHANGED <<pin, expired, attempts, auth, typed, read, tokens>>

\* ... the failures of the address are forgotten, ...
ClearAttempts(v) ==
    /\ Goes(v, "clearing", "enrolling")
    /\ ForgetAttempts(Ip[v])
    /\ UNCHANGED <<pinVars, auth, typed, read, tokens, spent>>

\* ... and the device is enrolled under a new token.  When the store cannot be
\* saved the viewer is told so, and the new token stays in memory.
Enroll(v) ==
    /\ \E next \in {"paired", "rejected"} : Goes(v, "enrolling", next)
    /\ minted[v] < MaxToken
    /\ minted' = [minted EXCEPT ![v] = @ + 1]
    /\ trusted' = [trusted EXCEPT ![v] = TRUE]
    /\ UNCHANGED <<pinVars, attempts, auth, typed, read, stored, spent>>

\* The viewer's credential store.
SaveToken(v) == stored' = [stored EXCEPT ![v] = minted[v]]
ClearToken(v) == stored' = [stored EXCEPT ![v] = NoToken]

\* The viewer gets its token and saves it.
Paired(v) ==
    /\ Goes(v, "paired", "session")
    /\ SaveToken(v)
    /\ Forget(v)
    /\ UNCHANGED <<pinVars, attempts, auth, minted, trusted, spent>>

\* The token a viewer stored is the one the trust store has for its device.
Accepts(v) == trusted[v] /\ stored[v] = minted[v]

\* TokenProof against the trust store.
TokenProof(v) ==
    /\ \/ Accepts(v) /\ Goes(v, "proof", "session")
       \/ ~Accepts(v) /\ Goes(v, "proof", "rejected")
    /\ UNCHANGED <<pinVars, attempts, auth, typed, read, tokens, spent>>

\* The viewer learns that it is not let in.  It forgets a token when the error
\* speaks of pairing, as the ones about a token do.
Rejected(v) ==
    /\ Goes(v, "rejected", "idle")
    /\ IF auth[v] = "token" THEN ClearToken(v) ELSE UNCHANGED stored
    /\ Forget(v)
    /\ UNCHANGED <<pinVars, attempts, auth, minted, trusted, spent>>

\* The handshake waits for the viewer's next message, or its answer is under way.
Waits(v) ==
    \/ phase[v] \in {"hello", "start", "proof", "paired", "rejected", "session"}
    \/ phase[v] = "gated" /\ auth[v] = "pair"
    \/ phase[v] = "read" /\ auth[v] = "spake2"

\* Mutant: the viewer clears its credentials whenever a connection fails.
FaultyCut(v) ==
    /\ Waits(v)
    /\ phase' = [phase EXCEPT ![v] = "idle"]
    /\ ClearToken(v)
    /\ Forget(v)
    /\ UNCHANGED <<pinVars, attempts, auth, minted, trusted, spent>>

\* The connection is lost, the handshake takes too long, or the session ends.
Cut(v) ==
    /\ Waits(v)
    /\ phase' = [phase EXCEPT ![v] = "idle"]
    /\ Forget(v)
    /\ UNCHANGED <<pinVars, attempts, auth, tokens, spent>>

\* The panel revokes the device.
Revoke(v) ==
    /\ trusted[v]
    /\ trusted' = [trusted EXCEPT ![v] = FALSE]
    /\ UNCHANGED <<pinVars, attempts, phase, auth, typed, read, minted, stored, spent>>

-----------------------------------------------------------------------------
\* No device is enrolled; a viewer may have paired with another host here.
Init ==
    /\ legacyOn \in BOOLEAN
    /\ pin = 1 /\ used = FALSE /\ expired = FALSE
    /\ fails = [i \in Ips |-> 0]
    /\ lock = [i \in Ips |-> "none"]
    /\ phase = [v \in Viewers |-> "idle"]
    /\ auth = [v \in Viewers |-> "spake2"]
    /\ typed = [v \in Viewers |-> NoPin]
    /\ read = [v \in Viewers |-> NoPin]
    /\ minted = [v \in Viewers |-> 0]
    /\ trusted = [v \in Viewers |-> FALSE]
    /\ stored \in [Viewers -> {NoToken, Foreign}]
    /\ spent = {}

Handshake(v) ==
    \/ Dial(v) \/ Hello(v) \/ StartPairing(v) \/ StartToken(v) \/ ReadPin(v)
    \/ WrongPin(v) \/ RotateAfterFailure(v)
    \/ Consume(v) \/ ClearAttempts(v) \/ Enroll(v) \/ Paired(v)
    \/ TokenProof(v) \/ Rejected(v) \/ Cut(v)

Next ==
    /\ legacyOn' = legacyOn
    /\ \/ Panel \/ Expire
       \/ \E i \in Ips : LockoutOver(i)
       \/ \E v \in Viewers : Handshake(v) \/ Revoke(v)

Spec == Init /\ [][Next]_vars

-----------------------------------------------------------------------------
TypeOK ==
    /\ legacyOn \in BOOLEAN
    /\ pin \in Pins
    /\ used \in BOOLEAN
    /\ expired \in BOOLEAN
    /\ fails \in [Ips -> Nat]
    /\ lock \in [Ips -> {"none", "on", "over"}]
    /\ phase \in [Viewers -> Phase]
    /\ auth \in [Viewers -> AuthMethod]
    /\ typed \in [Viewers -> {NoPin} \union Pins]
    /\ read \in [Viewers -> {NoPin} \union Pins]
    /\ minted \in [Viewers -> {NoToken} \union Tokens]
    /\ trusted \in [Viewers -> BOOLEAN]
    /\ stored \in [Viewers -> {NoToken, Foreign} \union Tokens]
    /\ spent \subseteq {NoPin} \union Pins

\* A PIN is never checked against again once it was consumed, or guessed wrongly
\* and rotated away: not even when the handshake that did so read it long ago
\* and others came in between.  Handshakes that read it before may still use it.
SpentNeverOffered ==
    [][\A v \in Viewers : read'[v] \notin {read[v], NoPin} => read'[v] \notin spent]_vars

\* The handshakes of an address that passed the gate and are not decided.
Admitted(ip) == {v \in Viewers : Ip[v] = ip /\ phase[v] \in {"gated", "read"}}
From(ip) == {v \in Viewers : Ip[v] = ip}

\* An address fails less than MaxAttempts times before it is locked out, and
\* then no more often than it had handshakes under way: each guess beyond the
\* limit was admitted before it.
FailuresBounded ==
    \A ip \in Ips :
        /\ lock[ip] = "none" => fails[ip] < MaxAttempts
        /\ fails[ip] + Cardinality(Admitted(ip)) < MaxAttempts + Cardinality(From(ip))

\* A viewer forgets no token its host would still accept.
GoodTokenKept ==
    [][\A v \in Viewers :
        stored[v] # NoToken /\ stored'[v] = NoToken => ~Accepts(v)]_vars

\* "PINs are single-use": no two devices are paired by the same PIN.  This is
\* not so when their handshakes overlap.
SingleUse ==
    \A v, w \in Viewers :
        v # w /\ phase[v] \in {"clearing", "enrolling", "paired"}
              /\ phase[w] \in {"clearing", "enrolling", "paired"} => read[v] # read[w]
=============================================================================
