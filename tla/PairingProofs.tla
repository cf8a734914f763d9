---------------------------- MODULE PairingProofs ----------------------------
(***************************************************************************)
(* For every finite set of viewers and addresses and every bound: types,   *)
(* spent PINs, the limit of failures, and the tokens viewers forget.       *)
(***************************************************************************)
EXTENDS Pairing, FiniteSetTheorems, TLAPS

USE ViewersAssumption, IpAssumption, AttemptsAssumption, BoundsAssumption

\* Every variable keeps its type.
LEMMA TypeInit == Init => TypeOK
<1> SUFFICES ASSUME Init PROVE TypeOK
  OBVIOUS
<1>1. pin \in Pins /\ fails \in [Ips -> Nat] /\ lock \in [Ips -> {"none", "on", "over"}]
  BY DEF Init, Pins
<1>2. phase \in [Viewers -> Phase] /\ auth \in [Viewers -> AuthMethod]
  BY DEF Init, Phase, AuthMethod
<1>3. /\ typed \in [Viewers -> {NoPin} \union Pins]
      /\ read \in [Viewers -> {NoPin} \union Pins]
      /\ minted \in [Viewers -> {NoToken} \union Tokens]
  BY DEF Init, NoToken
<1>4. stored \in [Viewers -> {NoToken, Foreign} \union Tokens]
  BY DEF Init
<1>5. used \in BOOLEAN /\ expired \in BOOLEAN /\ trusted \in [Viewers -> BOOLEAN]
  BY Zenon DEF Init
<1>6. QED
  BY <1>1, <1>2, <1>3, <1>4, <1>5 DEF Init, TypeOK

\* A new PIN is well typed.
LEMMA RotateTyped ==
  ASSUME TypeOK, CurrentPin \/ Rotate
  PROVE  pin' \in Pins /\ used' \in BOOLEAN /\ expired' \in BOOLEAN
<1>1. CASE Rotate
  <2>1. pin' \in Pins
    BY <1>1 DEF TypeOK, Rotate, Pins
  <2>2. used' \in BOOLEAN /\ expired' \in BOOLEAN
    BY Zenon, <1>1 DEF Rotate
  <2>3. QED
    BY <2>1, <2>2
<1>2. CASE UNCHANGED pinVars
  BY <1>2 DEF TypeOK, pinVars
<1>3. QED
  BY <1>1, <1>2 DEF CurrentPin

\* Every step keeps the types.
LEMMA TypeNext == TypeOK /\ [Next]_vars => TypeOK'
<1> SUFFICES ASSUME TypeOK, [Next]_vars PROVE TypeOK'
  OBVIOUS
<1> USE DEF TypeOK, pinVars, attempts, tokens, Goes
<1>0. CASE UNCHANGED vars
  BY <1>0 DEF vars
<1>1. CASE legacyOn' = legacyOn /\ Panel
  BY <1>1, RotateTyped DEF Panel
<1>2. CASE legacyOn' = legacyOn /\ Expire
  BY <1>2 DEF Expire
<1>3. ASSUME legacyOn' = legacyOn, NEW i \in Ips, LockoutOver(i) PROVE TypeOK'
  BY <1>3 DEF LockoutOver
<1>4. ASSUME legacyOn' = legacyOn, NEW v \in Viewers, Revoke(v) PROVE TypeOK'
  BY <1>4 DEF Revoke
<1>5. ASSUME legacyOn' = legacyOn, NEW v \in Viewers, Handshake(v) PROVE TypeOK'
  <2>1. CASE Dial(v)
    <3>1. typed' \in [Viewers -> {NoPin} \union Pins]
      BY <2>1 DEF Dial, Chooses, Pins, NoPin
    <3>2. auth' \in [Viewers -> AuthMethod]
      BY <2>1 DEF Dial, Chooses, AuthMethod
    <3>3. QED
      BY <2>1, <3>1, <3>2, <1>5 DEF Dial, Chooses, Phase
  <2>2. CASE Hello(v)
    BY <2>2, <1>5 DEF Hello, Phase
  <2>3. CASE StartPairing(v)
    BY <2>3, <1>5 DEF StartPairing, Phase, Gate
  <2>4. CASE StartToken(v)
    BY <2>4, <1>5 DEF StartToken, Phase
  <2>5. CASE ReadPin(v)
    BY <2>5, <1>5, RotateTyped DEF ReadPin, Phase
  <2>6. CASE WrongPin(v)
    BY <2>6, <1>5 DEF WrongPin, Phase, CountFailure
  <2>7. CASE Consume(v)
    <3>1. used' \in BOOLEAN
      BY Zenon, <2>7 DEF Consume
    <3>2. QED
      BY <2>7, <1>5, <3>1 DEF Consume, Phase
  <2>8. CASE RotateAfterFailure(v)
    BY <2>8, <1>5, RotateTyped DEF RotateAfterFailure, Phase
  <2>9. CASE ClearAttempts(v)
    BY <2>9, <1>5 DEF ClearAttempts, Phase, ForgetAttempts
  <2>10. CASE Enroll(v)
    <3>1. minted' \in [Viewers -> {NoToken} \union Tokens]
      BY <2>10 DEF Enroll, Tokens, NoToken
    <3>2. trusted' \in [Viewers -> BOOLEAN]
      BY Zenon, <2>10 DEF Enroll
    <3>3. QED
      BY <2>10, <1>5, <3>1, <3>2 DEF Enroll, Phase
  <2>11. CASE Paired(v)
    BY <2>11, <1>5 DEF Paired, SaveToken, Phase, Forget, NoPin
  <2>12. CASE TokenProof(v)
    BY <2>12, <1>5 DEF TokenProof, Phase
  <2>13. CASE Rejected(v)
    <3>1. stored' \in [Viewers -> {NoToken, Foreign} \union Tokens]
      BY <2>13 DEF Rejected, ClearToken
    <3>2. QED
      BY <2>13, <3>1, <1>5 DEF Rejected, ClearToken, Phase, Forget
  <2>14. CASE Cut(v)
    BY <2>14, <1>5 DEF Cut, Phase, Forget, NoPin
  <2>15. QED
    BY <1>5, <2>1, <2>2, <2>3, <2>4, <2>5, <2>6, <2>7, <2>8, <2>9, <2>10,
       <2>11, <2>12, <2>13, <2>14 DEF Handshake
<1>6. QED
  BY <1>0, <1>1, <1>2, <1>3, <1>4, <1>5 DEF Next

\* Every reachable state of PIN, lockouts and pairings is well typed.
THEOREM TypeCorrect == Spec => []TypeOK
BY TypeInit, TypeNext, PTL DEF Spec

-----------------------------------------------------------------------------
\* No spent PIN is newer than the current one, and the current one, if spent,
\* is marked as used: it is rotated before it is read again.
SpentInv ==
    /\ \A v \in Viewers : read[v] <= pin
    /\ \A p \in spent : p < pin \/ (p = pin /\ used)

\* At first no PIN is spent.
LEMMA SpentInit == Init => SpentInv
BY DEF Init, SpentInv, NoPin

\* A new PIN is newer than all that were spent.
LEMMA PinGrows ==
  ASSUME TypeOK, SpentInv, CurrentPin \/ Rotate
  PROVE  /\ pin <= pin'
         /\ \A p \in spent : p < pin' \/ (p = pin' /\ used')
         /\ CurrentPin => pin' \notin spent
<1>1. CASE Rotate
  BY <1>1 DEF TypeOK, SpentInv, Rotate, Pins, NoPin
<1>2. CASE UNCHANGED pinVars /\ ~(used \/ expired)
  <2>1. \A p \in spent : p < pin
    BY <1>2 DEF SpentInv
  <2>2. QED
    BY <1>2, <2>1 DEF TypeOK, pinVars, Pins, NoPin
<1>3. QED
  BY <1>1, <1>2 DEF CurrentPin

\* Every step keeps spent PINs behind the current one.
LEMMA SpentNext == TypeOK /\ SpentInv /\ [Next]_vars => SpentInv'
<1> SUFFICES ASSUME TypeOK, SpentInv, [Next]_vars PROVE SpentInv'
  OBVIOUS
<1> USE DEF SpentInv, pinVars
<1>1. ASSUME UNCHANGED <<pinVars, spent>>,
             \A v \in Viewers : read'[v] \in {read[v], NoPin}
      PROVE  SpentInv'
  BY <1>1 DEF TypeOK, Pins, NoPin
<1>2. CASE UNCHANGED vars
  BY <1>1, <1>2 DEF vars
<1>3. CASE Panel
  <2>1. pin \in Nat /\ pin' \in Nat /\ read \in [Viewers -> Nat]
    BY <1>3, RotateTyped DEF Panel, TypeOK, Pins, NoPin
  <2>2. pin <= pin' /\ \A p \in spent : p < pin' \/ (p = pin' /\ used')
    BY <1>3, PinGrows DEF Panel
  <2>3. UNCHANGED <<read, spent>>
    BY <1>3 DEF Panel
  <2>4. QED
    BY <2>1, <2>2, <2>3
<1>4. CASE Expire
  BY <1>4 DEF Expire
<1>5. ASSUME NEW i \in Ips, LockoutOver(i) PROVE SpentInv'
  BY <1>5, <1>1 DEF LockoutOver
<1>6. ASSUME NEW v \in Viewers, Revoke(v) PROVE SpentInv'
  BY <1>6, <1>1 DEF Revoke
<1>7. ASSUME NEW v \in Viewers, Handshake(v) PROVE SpentInv'
  <2>1. CASE Dial(v) \/ Hello(v) \/ StartPairing(v) \/ StartToken(v)
               \/ WrongPin(v) \/ ClearAttempts(v) \/ Enroll(v) \/ TokenProof(v)
    BY <2>1, <1>1 DEF Dial, Hello, StartPairing, StartToken, WrongPin,
                      ClearAttempts, Enroll, TokenProof
  <2>2. CASE Paired(v) \/ Rejected(v) \/ Cut(v)
    <3>1. UNCHANGED <<pinVars, spent>> /\ Forget(v)
      BY <2>2 DEF Paired, Rejected, Cut
    <3>2. \A w \in Viewers : read'[w] \in {read[w], NoPin}
      BY <3>1 DEF Forget, TypeOK
    <3>3. QED
      BY <3>1, <3>2, <1>1
  <2>3. CASE ReadPin(v)
    <3>1. /\ pin <= pin' /\ \A p \in spent : p < pin' \/ (p = pin' /\ used')
          /\ pin \in Nat /\ pin' \in Nat /\ read \in [Viewers -> Nat]
      BY <2>3, PinGrows, RotateTyped DEF ReadPin, TypeOK, Pins, NoPin
    <3>2. spent' = spent /\ read' = [read EXCEPT ![v] = pin']
      BY <2>3 DEF ReadPin
    <3>3. \A w \in Viewers : read'[w] <= pin'
      BY <3>1, <3>2
    <3>4. QED
      BY <3>1, <3>2, <3>3
  <2>4. CASE Consume(v)
    <3>1. UNCHANGED <<pin, read>> /\ spent' = spent \union {read[v]}
      BY <2>4 DEF Consume
    <3>2. used'
      BY Zenon, <2>4 DEF Consume
    <3>3. pin \in Nat /\ read[v] \in Nat /\ spent \subseteq Nat
      BY DEF TypeOK, Pins, NoPin
    <3>4. QED
      BY <3>1, <3>2, <3>3
  <2>5. CASE RotateAfterFailure(v)
    <3>1. pin' = pin + 1 /\ read' = read /\ spent' = spent \union {read[v]}
      BY <2>5 DEF RotateAfterFailure, Rotate
    <3>2. pin \in Nat /\ read \in [Viewers -> Nat] /\ spent \subseteq Nat
      BY DEF TypeOK, Pins, NoPin
    <3>3. QED
      BY <3>1, <3>2
  <2>6. QED
    BY <1>7, <2>1, <2>2, <2>3, <2>4, <2>5 DEF Handshake
<1>8. QED
  BY <1>2, <1>3, <1>4, <1>5, <1>6, <1>7 DEF Next

\* A PIN that was consumed or guessed wrongly is never read again.
THEOREM SpentNeverOfferedCorrect == Spec => SpentNeverOffered
<1> DEFINE Fresh == \A v \in Viewers :
                      read'[v] \notin {read[v], NoPin} => read'[v] \notin spent
<1>1. TypeOK /\ SpentInv /\ [Next]_vars => [Fresh]_vars
  <2> SUFFICES ASSUME TypeOK, SpentInv, Next PROVE Fresh
    OBVIOUS
  <2>1. ASSUME \A v \in Viewers : read'[v] \in {read[v], NoPin} PROVE Fresh
    BY <2>1
  <2>2. CASE Panel \/ Expire \/ (\E i \in Ips : LockoutOver(i))
               \/ (\E v \in Viewers : Revoke(v))
    BY <2>1, <2>2 DEF Panel, Expire, LockoutOver, Revoke
  <2>3. ASSUME NEW v \in Viewers, Handshake(v) PROVE Fresh
    <3>1. CASE ReadPin(v)
      <4>1. read' = [read EXCEPT ![v] = pin'] /\ CurrentPin
        BY <3>1 DEF ReadPin
      <4>2. pin' \notin spent
        BY <4>1, PinGrows
      <4>3. QED
        BY <4>1, <4>2 DEF TypeOK
    <3>2. CASE Paired(v) \/ Rejected(v) \/ Cut(v)
      <4>1. Forget(v)
        BY <3>2 DEF Paired, Rejected, Cut
      <4>2. QED
        BY <4>1, <2>1 DEF Forget, TypeOK
    <3>3. CASE UNCHANGED read
      BY <3>3, <2>1
    <3>4. QED
      BY <2>3, <3>1, <3>2, <3>3
         DEF Handshake, Dial, Hello, StartPairing, StartToken, WrongPin,
             RotateAfterFailure, Consume, ClearAttempts, Enroll, TokenProof
  <2>4. QED
    BY <2>2, <2>3 DEF Next
<1>2. QED
  BY <1>1, TypeInit, TypeNext, SpentInit, SpentNext, PTL
     DEF Spec, SpentNeverOffered

-----------------------------------------------------------------------------
Undecided == {"gated", "read"}

\* The attempts of an address are finite in number, and so is every part of them.
LEMMA AdmittedFew ==
  ASSUME NEW i \in Ips
  PROVE  /\ IsFiniteSet(From(i)) /\ Cardinality(From(i)) \in Nat
         /\ \A S \in SUBSET From(i) :
               /\ IsFiniteSet(S) /\ Cardinality(S) \in Nat
               /\ Cardinality(S) <= Cardinality(From(i))
<1>1. IsFiniteSet(From(i))
  BY FS_Subset DEF From
<1>2. QED
  BY <1>1, FS_Subset, FS_CardinalityType

\* The limit holds on while no failure is counted and no handshake admitted.
LEMMA FewerAdmitted ==
  ASSUME TypeOK, FailuresBounded, UNCHANGED attempts,
         \A w \in Viewers : phase'[w] \in Undecided => phase[w] \in Undecided
  PROVE  FailuresBounded'
<1> SUFFICES ASSUME NEW i \in Ips
             PROVE  /\ lock[i] = "none" => fails[i] < MaxAttempts
                    /\ fails[i] + Cardinality(Admitted(i)') < MaxAttempts + Cardinality(From(i))
  BY DEF FailuresBounded, attempts, From, Admitted
<1>1. Admitted(i)' \subseteq Admitted(i) /\ Admitted(i) \subseteq From(i)
  BY DEF Admitted, From, Undecided
<1>2. /\ Cardinality(Admitted(i)') <= Cardinality(Admitted(i))
      /\ Cardinality(Admitted(i)) \in Nat /\ Cardinality(Admitted(i)') \in Nat
      /\ Cardinality(From(i)) \in Nat
  BY <1>1, AdmittedFew, FS_Subset
<1>3. QED
  BY <1>2 DEF FailuresBounded, TypeOK

\* Every step keeps the failures within the bound.
LEMMA FailuresNext == TypeOK /\ FailuresBounded /\ [Next]_vars => FailuresBounded'
<1> SUFFICES ASSUME TypeOK, FailuresBounded, [Next]_vars PROVE FailuresBounded'
  OBVIOUS
<1>1. CASE UNCHANGED <<attempts, phase>>
  BY <1>1, FewerAdmitted
<1>2. ASSUME NEW i \in Ips, LockoutOver(i) PROVE FailuresBounded'
  <2>1. \A j \in Ips : Admitted(j)' = Admitted(j)
    BY <1>2 DEF LockoutOver, Admitted
  <2>2. QED
    BY <1>2, <2>1 DEF LockoutOver, FailuresBounded, TypeOK, From
<1>3. ASSUME NEW v \in Viewers, Handshake(v) PROVE FailuresBounded'
  <2>1. ASSUME UNCHANGED attempts, NEW a, NEW b, Goes(v, a, b),
               b \in Undecided => a \in Undecided
        PROVE  FailuresBounded'
    <3>1. \A w \in Viewers : phase'[w] \in Undecided => phase[w] \in Undecided
      BY <2>1 DEF Goes, TypeOK
    <3>2. QED
      BY <2>1, <3>1, FewerAdmitted
  <2>2. CASE StartPairing(v) /\ Gate(Ip[v])
    <3>1. /\ fails' \in [Ips -> Nat]
          /\ fails'[Ip[v]] < MaxAttempts
          /\ \A j \in Ips \ {Ip[v]} : fails'[j] = fails[j] /\ lock'[j] = lock[j]
      BY <2>2 DEF Gate, TypeOK, FailuresBounded
    <3>2. Ip[v] \in Ips /\ \A w \in Viewers : w # v => phase'[w] = phase[w]
      BY <2>2 DEF StartPairing, Goes, TypeOK
    <3>3. /\ Admitted(Ip[v])' \subseteq From(Ip[v])
          /\ \A j \in Ips \ {Ip[v]} : Admitted(j)' = Admitted(j)
      BY <3>2 DEF Admitted, From
    <3>4. /\ Cardinality(Admitted(Ip[v])') <= Cardinality(From(Ip[v]))
          /\ Cardinality(Admitted(Ip[v])') \in Nat
          /\ Cardinality(From(Ip[v])) \in Nat
      BY <3>2, <3>3, AdmittedFew
    <3>5. fails'[Ip[v]] + Cardinality(Admitted(Ip[v])')
             < MaxAttempts + Cardinality(From(Ip[v]))
      BY <3>1, <3>2, <3>4
    <3>6. ASSUME NEW j \in Ips, j # Ip[v]
          PROVE  /\ lock'[j] = "none" => fails'[j] < MaxAttempts
                 /\ fails'[j] + Cardinality(Admitted(j)')
                       < MaxAttempts + Cardinality(From(j))
      BY <3>1, <3>3, <3>6 DEF FailuresBounded
    <3>7. QED
      BY <3>1, <3>2, <3>3, <3>5, <3>6 DEF FailuresBounded, From
  <2>3. CASE WrongPin(v)
    <3>1. /\ Ip[v] \in Ips
          /\ fails'[Ip[v]] = fails[Ip[v]] + 1
          /\ lock'[Ip[v]] = "none" => fails'[Ip[v]] < MaxAttempts
          /\ \A j \in Ips \ {Ip[v]} : fails'[j] = fails[j] /\ lock'[j] = lock[j]
      BY <2>3 DEF WrongPin, CountFailure, TypeOK
    <3>2. /\ Admitted(Ip[v])' = Admitted(Ip[v]) \ {v} /\ v \in Admitted(Ip[v])
          /\ Admitted(Ip[v]) \subseteq From(Ip[v])
          /\ \A j \in Ips \ {Ip[v]} : Admitted(j)' = Admitted(j)
      BY <2>3 DEF WrongPin, Goes, Admitted, From, TypeOK
    <3>3. /\ Cardinality(Admitted(Ip[v])') = Cardinality(Admitted(Ip[v])) - 1
          /\ Cardinality(Admitted(Ip[v])) \in Nat
          /\ Cardinality(From(Ip[v])) \in Nat
      BY <3>1, <3>2, AdmittedFew, FS_RemoveElement
    <3>4. fails'[Ip[v]] + Cardinality(Admitted(Ip[v])')
             < MaxAttempts + Cardinality(From(Ip[v]))
      BY <3>1, <3>3 DEF FailuresBounded, TypeOK
    <3>5. ASSUME NEW j \in Ips, j # Ip[v]
          PROVE  /\ lock'[j] = "none" => fails'[j] < MaxAttempts
                 /\ fails'[j] + Cardinality(Admitted(j)')
                       < MaxAttempts + Cardinality(From(j))
      BY <3>1, <3>2, <3>5 DEF FailuresBounded
    <3>6. QED
      BY <3>1, <3>2, <3>4, <3>5 DEF FailuresBounded, From
  <2>4. CASE ClearAttempts(v)
    <3>1. /\ Ip[v] \in Ips
          /\ fails'[Ip[v]] = 0
          /\ \A j \in Ips \ {Ip[v]} : fails'[j] = fails[j] /\ lock'[j] = lock[j]
      BY <2>4 DEF ClearAttempts, ForgetAttempts, TypeOK
    <3>2. /\ \A j \in Ips : Admitted(j)' = Admitted(j)
          /\ Admitted(Ip[v]) \subseteq From(Ip[v])
      BY <2>4 DEF ClearAttempts, Goes, Admitted, From, TypeOK
    <3>3. /\ Cardinality(Admitted(Ip[v])) <= Cardinality(From(Ip[v]))
          /\ Cardinality(Admitted(Ip[v])) \in Nat
          /\ Cardinality(From(Ip[v])) \in Nat
      BY <3>1, <3>2, AdmittedFew
    <3>4. /\ fails'[Ip[v]] < MaxAttempts
          /\ fails'[Ip[v]] + Cardinality(Admitted(Ip[v])')
                < MaxAttempts + Cardinality(From(Ip[v]))
      BY <3>1, <3>2, <3>3
    <3>5. ASSUME NEW j \in Ips, j # Ip[v]
          PROVE  /\ lock'[j] = "none" => fails'[j] < MaxAttempts
                 /\ fails'[j] + Cardinality(Admitted(j)')
                       < MaxAttempts + Cardinality(From(j))
      BY <3>1, <3>2, <3>5 DEF FailuresBounded
    <3>6. QED
      BY <3>1, <3>2, <3>4, <3>5 DEF FailuresBounded, From
  <2>5. CASE Cut(v)
    <3>1. \A w \in Viewers : phase'[w] \in Undecided => phase[w] \in Undecided
      BY <2>5 DEF Cut, TypeOK, Undecided
    <3>2. QED
      BY <2>5, <3>1, FewerAdmitted DEF Cut
  <2>6. CASE StartPairing(v) /\ ~Gate(Ip[v])
    BY <2>6, <2>1 DEF StartPairing, Undecided
  <2>7. CASE Dial(v) \/ Hello(v) \/ StartToken(v) \/ ReadPin(v)
    BY <2>7, <2>1 DEF Dial, Hello, StartToken, ReadPin, Undecided
  <2>8. CASE RotateAfterFailure(v) \/ Consume(v) \/ Paired(v)
    BY <2>8, <2>1 DEF RotateAfterFailure, Consume, Paired, Undecided
  <2>9. CASE Enroll(v) \/ TokenProof(v) \/ Rejected(v)
    BY <2>9, <2>1 DEF Enroll, TokenProof, Rejected, Undecided
  <2>10. QED
    BY <1>3, <2>2, <2>3, <2>4, <2>5, <2>6, <2>7, <2>8, <2>9 DEF Handshake
<1>4. QED
  BY <1>1, <1>2, <1>3 DEF Next, vars, Panel, Expire, Revoke

\* However many handshakes overlap, an address fails at most MaxAttempts times
\* plus once for each of them but one.
THEOREM FailuresBoundedCorrect == Spec => []FailuresBounded
<1>1. Init => FailuresBounded
  <2> SUFFICES ASSUME Init, NEW i \in Ips
               PROVE  /\ fails[i] < MaxAttempts
                      /\ fails[i] + Cardinality(Admitted(i)) < MaxAttempts + Cardinality(From(i))
    BY DEF FailuresBounded
  <2>1. Admitted(i) \subseteq From(i) /\ Admitted(i) = {}
    BY DEF Init, Admitted, From
  <2>2. Cardinality(Admitted(i)) = 0 /\ Cardinality(From(i)) \in Nat
    BY <2>1, AdmittedFew, FS_EmptySet
  <2>3. fails[i] = 0
    BY DEF Init
  <2>4. QED
    BY <2>2, <2>3
<1>2. QED
  BY <1>1, TypeInit, TypeNext, FailuresNext, PTL DEF Spec

-----------------------------------------------------------------------------
\* A pairing presents no token, and a viewer is refused a token only by a host
\* that does not accept it.
TokenInv ==
    \A v \in Viewers :
        /\ auth[v] = "token" =>
              phase[v] \notin {"gated", "read", "rotating", "clearing", "enrolling", "paired"}
        /\ phase[v] = "rejected" /\ auth[v] = "token" => ~Accepts(v)
        /\ phase[v] = "paired" => minted[v] # NoToken

\* At first nobody has paired or been rejected.
LEMMA TokenInit == Init => TokenInv
BY DEF Init, TokenInv

\* Every step keeps that so.
LEMMA TokenNext == TypeOK /\ TokenInv /\ [Next]_vars => TokenInv'
<1> SUFFICES ASSUME TypeOK, TokenInv, [Next]_vars PROVE TokenInv'
  OBVIOUS
<1>1. CASE UNCHANGED <<auth, phase, tokens>>
  BY <1>1 DEF TokenInv, Accepts, tokens
<1>2. ASSUME NEW v \in Viewers, Revoke(v) PROVE TokenInv'
  BY <1>2 DEF Revoke, TokenInv, Accepts, TypeOK
<1>3. ASSUME NEW v \in Viewers, Handshake(v) PROVE TokenInv'
  <2> USE DEF TokenInv, Accepts, TypeOK, Goes, tokens
  <2>1. CASE Dial(v)
    BY <2>1 DEF Dial, Chooses
  <2>2. CASE Hello(v)
    BY <2>2 DEF Hello, HostChanged, Foreign, Tokens, NoToken
  <2>3. CASE StartPairing(v) \/ StartToken(v) \/ ReadPin(v)
    BY <2>3 DEF StartPairing, StartToken, ReadPin
  <2>4. CASE WrongPin(v) \/ RotateAfterFailure(v) \/ Consume(v) \/ ClearAttempts(v)
    BY <2>4 DEF WrongPin, RotateAfterFailure, Consume, ClearAttempts
  <2>5. CASE Enroll(v)
    BY <2>5 DEF Enroll, Tokens, NoToken
  <2>6. CASE Paired(v)
    BY <2>6 DEF Paired, SaveToken
  <2>7. CASE TokenProof(v)
    BY <2>7 DEF TokenProof
  <2>8. CASE Rejected(v) \/ Cut(v)
    BY <2>8 DEF Rejected, ClearToken, Cut
  <2>9. QED
    BY <1>3, <2>1, <2>2, <2>3, <2>4, <2>5, <2>6, <2>7, <2>8 DEF Handshake
<1>4. QED
  BY <1>1, <1>2, <1>3 DEF Next, vars, Panel, Expire, LockoutOver

\* A viewer forgets no token its host would still accept.
THEOREM GoodTokenKeptCorrect == Spec => GoodTokenKept
<1> DEFINE Kept == \A v \in Viewers :
                     stored[v] # NoToken /\ stored'[v] = NoToken => ~Accepts(v)
<1>1. TypeOK /\ TokenInv /\ [Next]_vars => [Kept]_vars
  <2> SUFFICES ASSUME TypeOK, TokenInv, Next PROVE Kept
    OBVIOUS
  <2>1. CASE UNCHANGED stored
    BY <2>1
  <2>2. ASSUME NEW v \in Viewers, Paired(v) PROVE Kept
    BY <2>2 DEF Paired, SaveToken, Goes, TokenInv, TypeOK
  <2>3. ASSUME NEW v \in Viewers, Rejected(v) PROVE Kept
    BY <2>3 DEF Rejected, ClearToken, Goes, TokenInv, TypeOK
  <2>4. QED
    BY <2>1, <2>2, <2>3
       DEF Next, Handshake, Panel, Expire, LockoutOver, Revoke, tokens, Dial, Hello,
           StartPairing, StartToken, ReadPin, WrongPin, RotateAfterFailure,
           Consume, ClearAttempts, Enroll, TokenProof, Cut
<1>2. QED
  BY <1>1, TypeInit, TypeNext, TokenInit, TokenNext, PTL DEF Spec, GoodTokenKept
=============================================================================
