--------------------------- MODULE TransfersProofs ---------------------------
(***************************************************************************)
(* For any finite number of sessions and ids and any size of the files:    *)
(* every offer is answered at most once, stands in one place at a time,    *)
(* moves from place to place as FileDrop says, and is not forgotten; the   *)
(* .part files belong to the transfers that write to them.                 *)
(***************************************************************************)
EXTENDS Transfers, SequenceTheorems, FunctionTheorems, FiniteSetTheorems,
        WellFoundedInduction, TLAPS

(***************************************************************************)
(* Queues of answers.                                                      *)
(***************************************************************************)
\* The queue q holds an answer to the offer id.
Says(q, id) == \E i \in 1..Len(q) : q[i][1] = id

\* It holds an acceptance.
Accepts(q, id) == <<id, TRUE>> \in ToSet(q)

\* It answers no offer twice.
Once(q) == \A i, j \in 1..Len(q) : q[i][1] = q[j][1] => i = j

\* An acceptance is an answer.
LEMMA AcceptsSays ==
    ASSUME NEW q \in Seq(Answers), NEW id, Accepts(q, id)
    PROVE  Says(q, id)
<1>1. PICK i \in DOMAIN q : q[i] = <<id, TRUE>>
  BY DEF Accepts, ToSet
<1>2. i \in 1..Len(q) /\ q[i][1] = id
  BY <1>1, LenProperties
<1>3. QED
  BY <1>2 DEF Says

\* One queue behind another.
LEMMA ConcatSays ==
    ASSUME NEW p \in Seq(Answers), NEW q \in Seq(Answers), NEW id
    PROVE  /\ Says(p \o q, id) <=> Says(p, id) \/ Says(q, id)
           /\ Accepts(p \o q, id) <=> Accepts(p, id) \/ Accepts(q, id)
<1> DEFINE pq == p \o q
<1>1. /\ Len(p) \in Nat /\ Len(q) \in Nat
      /\ pq \in Seq(Answers)
      /\ Len(pq) = Len(p) + Len(q)
      /\ \A i \in 1..(Len(p) + Len(q)) :
           pq[i] = IF i <= Len(p) THEN p[i] ELSE q[i - Len(p)]
  BY ConcatProperties, LenProperties
<1>2. /\ DOMAIN p = 1..Len(p) /\ DOMAIN q = 1..Len(q) /\ DOMAIN pq = 1..Len(pq)
  BY <1>1, LenProperties
<1> HIDE DEF pq
<1>3. \A i \in 1..Len(p) : i \in 1..Len(pq) /\ pq[i] = p[i]
  BY <1>1
<1>4. \A i \in 1..Len(q) : Len(p) + i \in 1..Len(pq) /\ pq[Len(p) + i] = q[i]
  BY <1>1
<1>5. \A i \in 1..Len(pq) : \/ i \in 1..Len(p) /\ pq[i] = p[i]
                            \/ i - Len(p) \in 1..Len(q) /\ pq[i] = q[i - Len(p)]
  BY <1>1
<1>6. Says(pq, id) <=> Says(p, id) \/ Says(q, id)
  <2>1. ASSUME Says(pq, id) PROVE Says(p, id) \/ Says(q, id)
    BY <1>5, <2>1 DEF Says
  <2>2. ASSUME Says(p, id) PROVE Says(pq, id)
    BY <1>3, <2>2 DEF Says
  <2>3. ASSUME Says(q, id) PROVE Says(pq, id)
    BY <1>4, <2>3 DEF Says
  <2>4. QED
    BY <2>1, <2>2, <2>3
<1>7. Accepts(pq, id) <=> Accepts(p, id) \/ Accepts(q, id)
  <2>1. ASSUME Accepts(pq, id) PROVE Accepts(p, id) \/ Accepts(q, id)
    BY <1>2, <1>5, <2>1 DEF Accepts, ToSet
  <2>2. ASSUME Accepts(p, id) PROVE Accepts(pq, id)
    BY <1>2, <1>3, <2>2 DEF Accepts, ToSet
  <2>3. ASSUME Accepts(q, id) PROVE Accepts(pq, id)
    BY <1>2, <1>4, <2>3 DEF Accepts, ToSet
  <2>4. QED
    BY <2>1, <2>2, <2>3
<1>8. QED
  BY <1>6, <1>7 DEF pq

\* Two queues that answer different offers answer none twice together.
LEMMA ConcatOnce ==
    ASSUME NEW p \in Seq(Answers), NEW q \in Seq(Answers), Once(p), Once(q),
           \A id \in Ids : ~(Says(p, id) /\ Says(q, id))
    PROVE  Once(p \o q)
<1> DEFINE pq == p \o q
<1>1. /\ Len(p) \in Nat /\ Len(q) \in Nat
      /\ Len(pq) = Len(p) + Len(q)
      /\ \A i \in 1..(Len(p) + Len(q)) :
           pq[i] = IF i <= Len(p) THEN p[i] ELSE q[i - Len(p)]
  BY ConcatProperties, LenProperties
<1> HIDE DEF pq
<1>2. \A i \in 1..Len(pq) : \/ i \in 1..Len(p) /\ pq[i] = p[i]
                            \/ i - Len(p) \in 1..Len(q) /\ pq[i] = q[i - Len(p)]
  BY <1>1
<1>3. ASSUME NEW i \in 1..Len(p), NEW j \in 1..Len(q) PROVE p[i][1] # q[j][1]
  <2>1. p[i] \in Answers /\ q[j] \in Answers
    BY ElementOfSeq
  <2>2. p[i][1] \in Ids
    BY <2>1 DEF Answers
  <2>3. QED
    BY <2>2 DEF Says
<1>4. Once(pq)
  <2> SUFFICES ASSUME NEW i \in 1..Len(pq), NEW j \in 1..Len(pq), pq[i][1] = pq[j][1]
               PROVE  i = j
    BY DEF Once
  <2>1. CASE i \in 1..Len(p) /\ pq[i] = p[i]
    BY <1>1, <1>2, <1>3, <2>1, SMTT(30) DEF Once
  <2>2. CASE i - Len(p) \in 1..Len(q) /\ pq[i] = q[i - Len(p)]
    BY <1>1, <1>2, <1>3, <2>2, SMTT(30) DEF Once
  <2>3. QED
    BY <1>2, <2>1, <2>2
<1>5. QED
  BY <1>4 DEF pq

\* The first answer is taken.
LEMMA TailSays ==
    ASSUME NEW q \in Seq(Answers), q # <<>>
    PROVE  /\ Head(q) \in Answers /\ Tail(q) \in Seq(Answers)
           /\ \A id : Says(q, id) <=> Head(q)[1] = id \/ Says(Tail(q), id)
           /\ \A id : Accepts(q, id) <=> Head(q) = <<id, TRUE>> \/ Accepts(Tail(q), id)
           /\ Once(q) => Once(Tail(q)) /\ ~Says(Tail(q), Head(q)[1])
<1> DEFINE t == Tail(q)
<1>1. /\ Head(q) \in Answers /\ t \in Seq(Answers)
      /\ Len(q) \in Nat \ {0} /\ Len(t) \in Nat
      /\ Len(t) = Len(q) - 1
      /\ \A i \in 1..Len(t) : t[i] = q[i + 1]
  BY HeadTailProperties, LenProperties, EmptySeq
<1>2. Head(q) = q[1]
  OBVIOUS
<1>3. DOMAIN q = 1..Len(q) /\ DOMAIN t = 1..Len(t)
  BY <1>1, LenProperties
<1> HIDE DEF t
<1>4. /\ 1 \in 1..Len(q)
      /\ \A i \in 1..Len(t) : i + 1 \in 1..Len(q) /\ q[i + 1] = t[i]
      /\ \A i \in 1..Len(q) : i = 1 \/ (i - 1 \in 1..Len(t) /\ q[i] = t[i - 1])
  BY <1>1
<1>5. ASSUME NEW id
      PROVE  /\ Says(q, id) <=> Head(q)[1] = id \/ Says(t, id)
             /\ Accepts(q, id) <=> Head(q) = <<id, TRUE>> \/ Accepts(t, id)
  <2>1. Says(q, id) <=> Head(q)[1] = id \/ Says(t, id)
    BY <1>2, <1>4 DEF Says
  <2>2. Accepts(q, id) <=> Head(q) = <<id, TRUE>> \/ Accepts(t, id)
    <3>1. ASSUME Accepts(q, id) PROVE Head(q) = <<id, TRUE>> \/ Accepts(t, id)
      <4>1. PICK i \in 1..Len(q) : q[i] = <<id, TRUE>>
        BY <1>3, <3>1 DEF Accepts, ToSet
      <4>2. CASE i = 1
        BY <1>2, <4>1, <4>2
      <4>3. CASE i - 1 \in 1..Len(t) /\ q[i] = t[i - 1]
        BY <1>3, <4>1, <4>3 DEF Accepts, ToSet
      <4>4. QED
        BY <1>4, <4>2, <4>3
    <3>2. ASSUME Head(q) = <<id, TRUE>> PROVE Accepts(q, id)
      BY <1>2, <1>3, <1>4, <3>2 DEF Accepts, ToSet
    <3>3. ASSUME Accepts(t, id) PROVE Accepts(q, id)
      BY <1>3, <1>4, <3>3 DEF Accepts, ToSet
    <3>4. QED
      BY <3>1, <3>2, <3>3
  <2>3. QED
    BY <2>1, <2>2
<1>6. ASSUME Once(q) PROVE Once(t) /\ ~Says(t, Head(q)[1])
  <2>1. Once(t)
    BY <1>1, <1>4, <1>6 DEF Once
  <2>2. ~Says(t, Head(q)[1])
    BY <1>1, <1>2, <1>4, <1>6 DEF Once, Says
  <2>3. QED
    BY <2>1, <2>2
<1>7. QED
  BY <1>1, <1>5, <1>6 DEF t

\* One answer alone.
LEMMA SingleSays ==
    ASSUME NEW a \in Answers
    PROVE  /\ <<a>> \in Seq(Answers) /\ Once(<<a>>)
           /\ \A id : Says(<<a>>, id) <=> a[1] = id
           /\ \A id : Accepts(<<a>>, id) <=> a = <<id, TRUE>>
<1>1. /\ <<a>> \in Seq(Answers) /\ Len(<<a>>) = 1 /\ <<a>>[1] = a
      /\ DOMAIN <<a>> = {1}
  OBVIOUS
<1> DEFINE q == <<a>>
<1>2. q \in Seq(Answers) /\ Len(q) = 1 /\ q[1] = a /\ DOMAIN q = {1}
  BY <1>1
<1> HIDE DEF q
<1>3. Once(q)
  BY <1>2 DEF Once
<1>4. \A id : Says(q, id) <=> a[1] = id
  BY <1>2 DEF Says
<1>5. \A id : Accepts(q, id) <=> a = <<id, TRUE>>
  BY <1>2 DEF Accepts, ToSet
<1>6. QED
  BY <1>2, <1>3, <1>4, <1>5 DEF q

\* The parts of a pair.
LEMMA ProductParts ==
    ASSUME NEW A, NEW B, NEW d \in A \X B
    PROVE  d = <<d[1], d[2]>> /\ d[1] \in A /\ d[2] \in B
OBVIOUS

\* The parts of a pair that is written out.
LEMMA PairParts ==
    ASSUME NEW x, NEW y
    PROVE  <<x, y>>[1] = x /\ <<x, y>>[2] = y
OBVIOUS

\* prune's denials of what is overdue: one for each offer of the session.
LEMMA DenialsSay ==
    ASSUME NEW s, overdue \subseteq Ids
    PROVE  /\ Denials(s) \in Seq(Answers) /\ Once(Denials(s))
           /\ \A id : Says(Denials(s), id) <=> id \in OverdueOf(s)
           /\ \A id : ~Accepts(Denials(s), id)
<1> DEFINE D == OverdueOf(s) \X {FALSE}
           n == Cardinality(D)
           q == SetToSeq(D)
<1>1. IsFiniteSet(D)
  <2>1. IsFiniteSet(OverdueOf(s)) /\ OverdueOf(s) \subseteq Ids
    BY FiniteAssumption, FS_Subset DEF OverdueOf
  <2>2. IsFiniteSet({FALSE})
    BY FS_Singleton
  <2>3. QED
    BY <2>1, <2>2, FS_Product
<1>2. /\ \A d \in D : d = <<d[1], FALSE>> /\ d[1] \in OverdueOf(s) /\ d[2] = FALSE
      /\ \A id \in OverdueOf(s) : <<id, FALSE>> \in D
      /\ D \subseteq Answers
  <2>1. OverdueOf(s) \subseteq Ids
    BY DEF OverdueOf
  <2>2. D \subseteq Answers
    BY <2>1 DEF Answers
  <2>3. ASSUME NEW d \in D
        PROVE  d = <<d[1], FALSE>> /\ d[1] \in OverdueOf(s) /\ d[2] = FALSE
    <3>1. d = <<d[1], d[2]>> /\ d[1] \in OverdueOf(s) /\ d[2] \in {FALSE}
      BY ProductParts, ZenonT(30)
    <3>2. d[2] = FALSE
      BY <3>1, Zenon
    <3>3. QED
      BY <3>1, <3>2, Zenon
  <2>4. \A id \in OverdueOf(s) : <<id, FALSE>> \in D
    OBVIOUS
  <2>5. QED
    BY <2>2, <2>3, <2>4
<1> HIDE DEF D
<1>3. n \in Nat /\ n = Cardinality(D) /\ ExistsBijection(1..n, D)
  BY <1>1, FS_CardinalityType
<1> HIDE DEF n
<1>4. PICK f \in Bijection(1..n, D) : TRUE
  BY <1>3 DEF ExistsBijection
<1>5. f \in [1..n -> D] /\ IsInjective(f)
  <2>1. f \in [1..n -> D] /\ \A a, b \in 1..n : f[a] = f[b] => a = b
    BY Fun_BijectionProperties, <1>4
  <2>2. QED
    BY <2>1 DEF IsInjective
<1>6. q \in [1..n -> D] /\ IsInjective(q)
  BY <1>5 DEF SetToSeq, n
<1> HIDE DEF q
<1>7. \A d \in D : \E i \in 1..n : q[i] = d
  <2>1. q \in Injection(1..n, D)
    BY <1>6 DEF Injection
  <2>2. Cardinality(1..n) = n
    BY <1>3, FS_Interval
  <2>3. q \in Surjection(1..n, D)
    BY <1>1, <1>3, <2>1, <2>2, FS_Injection
  <2>4. QED
    BY <2>3 DEF Surjection
<1>8. q \in Seq(D) /\ Len(q) = n /\ DOMAIN q = 1..n
  BY <1>3, <1>6
<1>9. q \in Seq(Answers)
  BY <1>2, <1>8, SeqMonotonic
<1>10. \A i \in 1..n : q[i][1] \in OverdueOf(s) /\ q[i][2] = FALSE
                       /\ q[i] = <<q[i][1], FALSE>>
  BY <1>2, <1>6
<1>11. Once(q)
  <2> SUFFICES ASSUME NEW i \in 1..n, NEW j \in 1..n, q[i][1] = q[j][1] PROVE i = j
    BY <1>8 DEF Once
  <2>1. q[i] = q[j]
    BY <1>10
  <2>2. QED
    BY <1>6, <1>8, <2>1 DEF IsInjective
<1>12. ASSUME NEW id PROVE Says(q, id) <=> id \in OverdueOf(s)
  <2>1. ASSUME Says(q, id) PROVE id \in OverdueOf(s)
    BY <1>8, <1>10, <2>1 DEF Says
  <2>2. ASSUME id \in OverdueOf(s) PROVE Says(q, id)
    <3>1. <<id, FALSE>> \in D
      BY <1>2, <2>2
    <3>2. PICK i \in 1..n : q[i] = <<id, FALSE>>
      BY <1>7, <3>1
    <3>3. QED
      BY <1>8, <3>2 DEF Says
  <2>3. QED
    BY <2>1, <2>2
<1>13. ASSUME NEW id PROVE ~Accepts(q, id)
  <2> SUFFICES ASSUME NEW i \in 1..n, q[i] = <<id, TRUE>> PROVE FALSE
    BY <1>8 DEF Accepts, ToSet
  <2>1. q[i][2] = TRUE
    OBVIOUS
  <2>2. q[i][2] = FALSE
    BY <1>10
  <2>3. QED
    BY <2>1, <2>2, Zenon
<1>14. QED
  BY <1>9, <1>11, <1>12, <1>13 DEF D, n, q, Denials

-----------------------------------------------------------------------------
(***************************************************************************)
(* The invariant.                                                          *)
(***************************************************************************)
Moving(s, id) == moving[s] # None /\ moving[s].id = id

\* An offer waits for the panel, has an answer on its way, is being opened, or
\* was told its answer: one at a time, and only if it was made.
OfferInv(s, id) ==
    /\ pending[id] = s => ~Says(cmds[s], id) /\ opening[s] # id /\ told[<<s, id>>] = 0
    /\ Says(cmds[s], id) => opening[s] # id /\ told[<<s, id>>] = 0
    /\ opening[s] = id => told[<<s, id>>] = 0
    /\ <<s, id>> \notin offered =>
          /\ pending[id] # s /\ ~Says(cmds[s], id) /\ opening[s] # id
          /\ told[<<s, id>>] = 0

\* Only what was told its answer is received, moved or kept: one at a time.
FileInv(s, id) ==
    /\ Held(s, id) => told[<<s, id>>] = 1 /\ ~Moving(s, id) /\ <<s, id>> \notin kept
    /\ Moving(s, id) => told[<<s, id>>] = 1 /\ <<s, id>> \notin kept
    /\ <<s, id>> \in kept => told[<<s, id>>] = 1

\* A .part file has one writer, or none and was left by a replaced transfer.
PartInv(id) ==
    /\ \A s, t \in Writers(id) : s = t
    /\ Writers(id) # {} => id \in parts
    /\ id \in parts \ orphans => Writers(id) # {}

\* No offer was kept in two places.
PlaceInv ==
    /\ \A d \in Destinations : files[d] # None => files[d] \in kept
    /\ \A d, e \in Destinations : files[d] # None /\ files[d] = files[e] => d = e

TransferInv ==
    /\ TypeOK
    /\ \A s \in Sessions : Once(cmds[s])
    /\ \A s \in Sessions, id \in Ids : OfferInv(s, id) /\ FileInv(s, id)
    /\ \A id \in Ids : PartInv(id)
    /\ PlaceInv

\* None is none of the values it stands for the absence of.
LEMMA NoneApart ==
    /\ None \notin Sessions /\ None \notin Ids /\ None \notin Offers
    /\ None \notin Receipts /\ None \notin Moves
BY NoneAssumption

\* A step that leaves the files and their transfers alone.
LEMMA FilesUntouched ==
    ASSUME TransferInv, UNCHANGED <<transfer, moving, parts, files, orphans, kept>>,
           \A o \in Offers : told[o] = 1 => told'[o] = 1
    PROVE  /\ \A s \in Sessions, id \in Ids : FileInv(s, id)'
           /\ \A id \in Ids : PartInv(id)'
           /\ PlaceInv'
<1>1. ASSUME NEW s \in Sessions, NEW id \in Ids PROVE FileInv(s, id)'
  <2>1. <<s, id>> \in Offers /\ FileInv(s, id)
    BY DEF TransferInv, Offers
  <2>2. QED
    BY <2>1 DEF FileInv, Held, Moving
<1>2. ASSUME NEW id \in Ids PROVE PartInv(id)'
  <2>1. PartInv(id) /\ Writers(id)' = Writers(id)
    BY DEF TransferInv, Writers, Held
  <2>2. QED
    BY <2>1 DEF PartInv
<1>3. PlaceInv'
  BY DEF TransferInv, PlaceInv
<1>4. QED
  BY <1>1, <1>2, <1>3

\* A step that leaves the offers and their answers alone.
LEMMA OffersUntouched ==
    ASSUME TransferInv, UNCHANGED <<pending, cmds, opening, told, offered>>
    PROVE  /\ \A s \in Sessions : Once(cmds[s])'
           /\ \A s \in Sessions, id \in Ids : OfferInv(s, id)'
BY DEF TransferInv, OfferInv

\* Answers reach a queue whole, behind what it holds, or not at all.
LEMMA RouteQueues ==
    ASSUME TransferInv, NEW answers, NEW room,
           \A s \in Sessions : answers[s] \in Seq(Answers) /\ Once(answers[s]),
           \A s \in Sessions, id \in Ids : Says(answers[s], id) => pending[id] = s,
           Route(answers, room)
    PROVE  /\ cmds' \in [Sessions -> Seq(Answers)]
           /\ lost' \subseteq Offers
           /\ \A s \in Sessions :
                /\ cmds'[s] \in {cmds[s], cmds[s] \o answers[s]}
                /\ Once(cmds'[s])
                /\ \A id : Says(cmds'[s], id) => Says(cmds[s], id) \/ Says(answers[s], id)
<1>1. lost' \subseteq Offers
  BY DEF Route, TransferInv, TypeOK
<1>2. ASSUME NEW s \in Sessions
      PROVE  /\ cmds'[s] \in Seq(Answers)
             /\ cmds'[s] \in {cmds[s], cmds[s] \o answers[s]}
             /\ Once(cmds'[s])
             /\ \A id : Says(cmds'[s], id) => Says(cmds[s], id) \/ Says(answers[s], id)
  <2>1. cmds[s] \in Seq(Answers) /\ Once(cmds[s])
    BY DEF TransferInv, TypeOK
  <2>2. CASE cmds'[s] = cmds[s]
    BY <2>1, <2>2
  <2>3. CASE cmds'[s] = cmds[s] \o answers[s]
    <3>1. \A id \in Ids : ~(Says(cmds[s], id) /\ Says(answers[s], id))
      BY DEF TransferInv, OfferInv
    <3>2. Once(cmds'[s]) /\ cmds'[s] \in Seq(Answers)
      BY <2>1, <2>3, <3>1, ConcatOnce, ConcatProperties
    <3>3. \A id : Says(cmds'[s], id) => Says(cmds[s], id) \/ Says(answers[s], id)
      BY <2>1, <2>3, ConcatSays
    <3>4. QED
      BY <2>3, <3>2, <3>3
  <2>4. QED
    BY <2>2, <2>3 DEF Route
<1>3. cmds' \in [Sessions -> Seq(Answers)]
  <2>1. cmds' = [s \in Sessions |-> cmds'[s]]
    BY DEF Route
  <2>2. QED
    BY <1>2, <2>1
<1>4. QED
  BY <1>1, <1>2, <1>3

\* What prune does to the offers that wait.
LEMMA PrunedOffers ==
    ASSUME TypeOK
    PROVE  /\ Pruned \in [Ids -> Sessions \union {None}]
           /\ \A id \in Ids : Pruned[id] \in {None, pending[id]}
           /\ \A s \in Sessions :
                /\ Denials(s) \in Seq(Answers) /\ Once(Denials(s))
                /\ \A id : ~Accepts(Denials(s), id)
                /\ \A id \in Ids : Says(Denials(s), id) <=>
                                     pending[id] = s /\ Pruned[id] # s
<1>1. overdue \subseteq Ids
  BY DEF TypeOK
<1>2. ASSUME NEW s \in Sessions, NEW id \in Ids
      PROVE  id \in OverdueOf(s) <=> pending[id] = s /\ Pruned[id] # s
  BY NoneApart DEF OverdueOf, Pruned
<1>3. QED
  BY <1>1, <1>2, DenialsSay DEF Pruned, TypeOK

\* Answers are routed, each to the session whose offer waits no more; a new
\* offer waits or was denied.
LEMMA RoutedOffers ==
    ASSUME TransferInv, NEW answers, NEW room, Route(answers, room),
           \A s \in Sessions : answers[s] \in Seq(Answers) /\ Once(answers[s]),
           \A s \in Sessions, id \in Ids :
              Says(answers[s], id) => pending[id] = s /\ pending'[id] # s,
           opening' = opening,
           offered \subseteq offered',
           \A s \in Sessions, id \in Ids :
              \/ /\ pending'[id] = s => pending[id] = s
                 /\ told'[<<s, id>>] = told[<<s, id>>]
              \/ /\ <<s, id>> \in offered' \ offered
                 /\ \/ pending'[id] # s
                    \/ told'[<<s, id>>] = told[<<s, id>>]
    PROVE  /\ \A s \in Sessions : Once(cmds[s])'
           /\ \A s \in Sessions, id \in Ids : OfferInv(s, id)'
<1>1. \A s \in Sessions : Once(cmds[s])'
  BY RouteQueues
<1>2. ASSUME NEW s \in Sessions, NEW id \in Ids PROVE OfferInv(s, id)'
  <2>1. OfferInv(s, id)
    BY DEF TransferInv
  <2>2. Says(cmds'[s], id) => Says(cmds[s], id) \/ (pending[id] = s /\ pending'[id] # s)
    BY RouteQueues
  <2>3. QED
    BY <2>1, <2>2 DEF OfferInv
<1>3. QED
  BY <1>1, <1>2

\* The panel's page asks for the list.
LEMMA ListKeeps ==
    ASSUME TransferInv, NEW room \in SUBSET Sessions, List(room)
    PROVE  TransferInv'
<1> DEFINE answers == [s \in Sessions |-> Denials(s)]
<1>1. TypeOK /\ pending' = Pruned /\ Route(answers, room)
  BY DEF List, TransferInv
<1>2. /\ \A s \in Sessions : answers[s] \in Seq(Answers) /\ Once(answers[s])
      /\ \A s \in Sessions, id \in Ids :
           Says(answers[s], id) => pending[id] = s /\ pending'[id] # s
      /\ \A s \in Sessions, id \in Ids : pending'[id] = s => pending[id] = s
  BY <1>1, PrunedOffers, NoneApart
<1>3. UNCHANGED <<transfer, moving, parts, files, orphans, kept, opening, told, offered>>
  BY DEF List, sessionVars, pumpVars, diskVars
<1> HIDE DEF answers
<1>4. TypeOK'
  BY <1>1, <1>2, PrunedOffers, RouteQueues
     DEF List, TypeOK, sessionVars, pumpVars, diskVars
<1>5. /\ \A s \in Sessions : Once(cmds[s])'
      /\ \A s \in Sessions, id \in Ids : OfferInv(s, id)'
  BY <1>1, <1>2, <1>3, RoutedOffers
<1>6. QED
  BY <1>3, <1>4, <1>5, FilesUntouched DEF TransferInv

\* What the panel's answer sends.
LEMMA AnswersSay ==
    ASSUME TransferInv, NEW id \in Ids, NEW accept \in BOOLEAN, Pruned[id] # None,
           NEW s \in Sessions
    PROVE  LET q == IF s = pending[id] THEN Append(Denials(s), <<id, accept>>)
                    ELSE Denials(s)
           IN  /\ q \in Seq(Answers) /\ Once(q)
               /\ \A i \in Ids : Says(q, i) <=>
                    pending[i] = s /\ (i = id \/ Pruned[i] # s)
               /\ \A i \in Ids : Accepts(q, i) <=> i = id /\ pending[id] = s /\ accept
<1>1. /\ Denials(s) \in Seq(Answers) /\ Once(Denials(s))
      /\ \A i : ~Accepts(Denials(s), i)
      /\ \A i \in Ids : Says(Denials(s), i) <=> pending[i] = s /\ Pruned[i] # s
      /\ Pruned[id] = pending[id]
  BY PrunedOffers DEF TransferInv
<1>2. CASE s # pending[id]
  BY <1>1, <1>2
<1>3. CASE s = pending[id]
  <2> DEFINE a == <<id, accept>>
             q == Append(Denials(s), a)
  <2>1. a \in Answers /\ a[1] = id
    BY DEF Answers
  <2>2. \A i : a = <<i, TRUE>> <=> i = id /\ accept
    OBVIOUS
  <2>3. /\ <<a>> \in Seq(Answers) /\ Once(<<a>>)
        /\ \A i : Says(<<a>>, i) <=> i = id
        /\ \A i : Accepts(<<a>>, i) <=> i = id /\ accept
    BY <2>1, <2>2, SingleSays
  <2>4. q = Denials(s) \o <<a>>
    BY <1>1, <2>1, AppendIsConcat
  <2>5. q \in Seq(Answers)
    BY <1>1, <2>1, AppendProperties
  <2>6. Once(q)
    BY <1>1, <1>3, <2>3, <2>4, ConcatOnce
  <2>7. ASSUME NEW i \in Ids
        PROVE  /\ Says(q, i) <=> Says(Denials(s), i) \/ i = id
               /\ Accepts(q, i) <=> i = id /\ accept
    <3>1. /\ Says(Denials(s) \o <<a>>, i) <=> Says(Denials(s), i) \/ Says(<<a>>, i)
          /\ Accepts(Denials(s) \o <<a>>, i) <=>
                Accepts(Denials(s), i) \/ Accepts(<<a>>, i)
      BY <1>1, <2>3, ConcatSays
    <3>2. QED
      BY <1>1, <2>3, <2>4, <3>1, Zenon
  <2> HIDE DEF q
  <2>8. /\ \A i \in Ids : Says(q, i) <=> pending[i] = s /\ (i = id \/ Pruned[i] # s)
        /\ \A i \in Ids : Accepts(q, i) <=> i = id /\ pending[id] = s /\ accept
    BY <1>1, <1>3, <2>7
  <2>9. QED
    BY <1>3, <2>5, <2>6, <2>8 DEF q
<1>4. QED
  BY <1>2, <1>3

\* The panel decides.
LEMMA AnswerKeeps ==
    ASSUME TransferInv, NEW id \in Ids, NEW accept \in BOOLEAN,
           NEW room \in SUBSET Sessions, Answer(id, accept, room)
    PROVE  TransferInv'
<1> DEFINE answers == [s \in Sessions |->
                         IF s = pending[id] THEN Append(Denials(s), <<id, accept>>)
                         ELSE Denials(s)]
<1>1. /\ TypeOK /\ Pruned[id] # None /\ pending' = [Pruned EXCEPT ![id] = None]
      /\ Route(answers, room)
  BY DEF Answer, TransferInv
<1>2. /\ \A s \in Sessions : answers[s] \in Seq(Answers) /\ Once(answers[s])
      /\ \A s \in Sessions, i \in Ids :
           Says(answers[s], i) <=> pending[i] = s /\ (i = id \/ Pruned[i] # s)
  BY <1>1, AnswersSay
<1>3. /\ UNCHANGED <<transfer, moving, parts, files, orphans, kept, opening, told, offered>>
      /\ UNCHANGED <<flag, sup, pump>> /\ overdue' = {}
  BY DEF Answer, sessionVars, pumpVars, diskVars
<1> HIDE DEF answers
<1>4. /\ \A s \in Sessions, i \in Ids : pending'[i] = s => pending[i] = s
      /\ \A s \in Sessions, i \in Ids :
           Says(answers[s], i) => pending[i] = s /\ pending'[i] # s
  BY <1>1, <1>2, PrunedOffers, NoneApart
<1>5. TypeOK'
  <2>1. pending' \in [Ids -> Sessions \union {None}]
    BY <1>1, PrunedOffers
  <2>2. cmds' \in [Sessions -> Seq(Answers)] /\ lost' \subseteq Offers
    BY <1>1, <1>2, <1>4, RouteQueues
  <2>3. QED
    BY <1>1, <1>3, <2>1, <2>2 DEF TypeOK
<1>6. /\ \A s \in Sessions : Once(cmds[s])'
      /\ \A s \in Sessions, i \in Ids : OfferInv(s, i)'
  BY <1>1, <1>2, <1>3, <1>4, RoutedOffers
<1>7. QED
  BY <1>3, <1>5, <1>6, FilesUntouched DEF TransferInv

\* An offer that was not answered is told its answer.
LEMMA TellOnce ==
    ASSUME TypeOK, NEW s \in Sessions, NEW id \in Ids, told[<<s, id>>] = 0,
           Tell(<<s, id>>)
    PROVE  /\ told' \in [Offers -> 0..1]
           /\ \A t \in Sessions, i \in Ids :
                told'[<<t, i>>] = IF t = s /\ i = id THEN 1 ELSE told[<<t, i>>]
           /\ \A o \in Offers : told[o] = 1 => told'[o] = 1
<1>1. <<s, id>> \in Offers /\ told \in [Offers -> 0..1]
  BY DEF Offers, TypeOK
<1>2. told' = [told EXCEPT ![<<s, id>>] = told[<<s, id>>] + 1]
  BY DEF Tell
<1>3. told' = [told EXCEPT ![<<s, id>>] = 1]
  BY <1>2
<1>4. ASSUME NEW t \in Sessions, NEW i \in Ids
      PROVE  told'[<<t, i>>] = IF t = s /\ i = id THEN 1 ELSE told[<<t, i>>]
  <2>1. <<t, i>> \in Offers /\ (<<t, i>> = <<s, id>> <=> t = s /\ i = id)
    BY DEF Offers
  <2>2. QED
    BY <1>1, <1>3, <2>1
<1>5. QED
  BY <1>1, <1>3, <1>4

\* OFFER_TTL passes.
LEMMA ExpireKeeps ==
    ASSUME TransferInv, NEW id \in Ids, Expire(id)
    PROVE  TransferInv'
<1>1. /\ UNCHANGED <<transfer, moving, parts, files, orphans, kept, pending, cmds,
                     opening, told, offered>>
      /\ UNCHANGED <<flag, sup, pump, lost>>
      /\ pending[id] # None /\ overdue' = overdue \union {id}
  BY DEF Expire, sessionVars, pumpVars, diskVars, history
<1>2. TypeOK'
  BY <1>1 DEF TransferInv, TypeOK
<1>3. QED
  BY <1>1, <1>2, FilesUntouched, OffersUntouched DEF TransferInv

\* An offer is denied on the spot.
LEMMA DenyOfferKeeps ==
    ASSUME TransferInv, NEW s \in Sessions, NEW id \in Ids, DenyOffer(s, id)
    PROVE  TransferInv'
<1>1. /\ UNCHANGED <<transfer, moving, parts, files, orphans, kept, pending, cmds,
                     opening>>
      /\ UNCHANGED <<overdue, flag, sup, pump, lost>>
      /\ <<s, id>> \notin offered /\ offered' = offered \union {<<s, id>>}
      /\ Tell(<<s, id>>)
  BY DEF DenyOffer, OfferNow, managerVars, sessionVars, pumpVars, diskVars
<1>2. TypeOK /\ OfferInv(s, id) /\ <<s, id>> \in Offers
  BY DEF TransferInv, Offers
<1>3. /\ told[<<s, id>>] = 0 /\ pending[id] # s
      /\ ~Says(cmds[s], id) /\ opening[s] # id
  BY <1>1, <1>2 DEF OfferInv
<1>4. /\ told' \in [Offers -> 0..1]
      /\ \A t \in Sessions, i \in Ids :
           told'[<<t, i>>] = IF t = s /\ i = id THEN 1 ELSE told[<<t, i>>]
      /\ \A o \in Offers : told[o] = 1 => told'[o] = 1
  BY <1>1, <1>2, <1>3, TellOnce
<1>5. TypeOK'
  BY <1>1, <1>2, <1>4 DEF TypeOK
<1>6. ASSUME NEW t \in Sessions, NEW i \in Ids PROVE OfferInv(t, i)'
  <2>1. OfferInv(t, i)
    BY DEF TransferInv
  <2>2. QED
    BY <1>1, <1>3, <1>4, <2>1 DEF OfferInv
<1>7. QED
  BY <1>1, <1>4, <1>5, <1>6, FilesUntouched DEF TransferInv

\* register refuses an id that is pending.
LEMMA DuplicateOfferKeeps ==
    ASSUME TransferInv, NEW s \in Sessions, NEW id \in Ids,
           NEW room \in SUBSET Sessions, DuplicateOffer(s, id, room)
    PROVE  TransferInv'
<1> DEFINE answers == [t \in Sessions |-> Denials(t)]
<1>1. /\ UNCHANGED <<transfer, moving, parts, files, orphans, kept, opening>>
      /\ UNCHANGED <<flag, sup, pump>>
      /\ <<s, id>> \notin offered /\ offered' = offered \union {<<s, id>>}
      /\ Tell(<<s, id>>) /\ Route(answers, room)
      /\ pending' = Pruned /\ overdue' = {}
  BY DEF DuplicateOffer, OfferNow, sessionVars, pumpVars, diskVars
<1>2. TypeOK /\ OfferInv(s, id) /\ <<s, id>> \in Offers
  BY DEF TransferInv, Offers
<1>3. told[<<s, id>>] = 0 /\ pending[id] # s
  BY <1>1, <1>2 DEF OfferInv
<1>4. /\ told' \in [Offers -> 0..1]
      /\ \A t \in Sessions, i \in Ids :
           told'[<<t, i>>] = IF t = s /\ i = id THEN 1 ELSE told[<<t, i>>]
      /\ \A o \in Offers : told[o] = 1 => told'[o] = 1
  BY <1>1, <1>2, <1>3, TellOnce
<1>5. /\ \A t \in Sessions : answers[t] \in Seq(Answers) /\ Once(answers[t])
      /\ \A t \in Sessions, i \in Ids :
           Says(answers[t], i) => pending[i] = t /\ pending'[i] # t
      /\ \A t \in Sessions, i \in Ids : pending'[i] = t => pending[i] = t
      /\ pending' \in [Ids -> Sessions \union {None}]
  BY <1>1, <1>2, PrunedOffers, NoneApart
<1> HIDE DEF answers
<1>6. TypeOK'
  <2>1. cmds' \in [Sessions -> Seq(Answers)] /\ lost' \subseteq Offers
    BY <1>1, <1>5, RouteQueues
  <2>2. QED
    BY <1>1, <1>2, <1>4, <1>5, <2>1 DEF TypeOK
<1>7. /\ \A t \in Sessions : Once(cmds[t])'
      /\ \A t \in Sessions, i \in Ids : OfferInv(t, i)'
  <2>1. ASSUME NEW t \in Sessions, NEW i \in Ids
        PROVE  \/ /\ pending'[i] = t => pending[i] = t
                  /\ told'[<<t, i>>] = told[<<t, i>>]
               \/ <<t, i>> \in offered' \ offered /\ pending'[i] # t
    BY <1>1, <1>3, <1>4, <1>5
  <2>2. offered \subseteq offered'
    BY <1>1
  <2>3. QED
    BY <1>1, <1>5, <2>1, <2>2, RoutedOffers
<1>8. QED
  BY <1>1, <1>4, <1>6, <1>7, FilesUntouched DEF TransferInv

\* The offer is registered and waits.
LEMMA RegisterOfferKeeps ==
    ASSUME TransferInv, NEW s \in Sessions, NEW id \in Ids,
           NEW room \in SUBSET Sessions, RegisterOffer(s, id, room)
    PROVE  TransferInv'
<1> DEFINE answers == [t \in Sessions |-> Denials(t)]
<1>1. /\ UNCHANGED <<transfer, moving, parts, files, orphans, kept, opening, told>>
      /\ UNCHANGED <<flag, sup>>
      /\ <<s, id>> \notin offered /\ offered' = offered \union {<<s, id>>}
      /\ Route(answers, room) /\ Pruned[id] = None
      /\ pending' = [Pruned EXCEPT ![id] = s] /\ overdue' = {}
      /\ pump[s] = "reading" /\ pump' = [pump EXCEPT ![s] = "registered"]
  BY DEF RegisterOffer, OfferNow, Receives, sessionVars, diskVars
<1>2. TypeOK /\ OfferInv(s, id) /\ <<s, id>> \in Offers
  BY DEF TransferInv, Offers
<1>3. pending[id] # s
  BY <1>1, <1>2 DEF OfferInv
<1>4. pending' \in [Ids -> Sessions \union {None}]
  BY <1>1, <1>2, PrunedOffers
<1>5. /\ \A t \in Sessions : answers[t] \in Seq(Answers) /\ Once(answers[t])
      /\ \A t \in Sessions, i \in Ids :
           Says(answers[t], i) <=> pending[i] = t /\ Pruned[i] # t
  BY <1>2, PrunedOffers
<1> HIDE DEF answers
<1>6. /\ \A t \in Sessions, i \in Ids :
           Says(answers[t], i) => pending[i] = t /\ pending'[i] # t
      /\ \A t \in Sessions, i \in Ids :
           pending'[i] = t => pending[i] = t \/ (t = s /\ i = id)
  BY <1>1, <1>2, <1>3, <1>5, PrunedOffers, NoneApart
<1>7. TypeOK'
  <2>1. cmds' \in [Sessions -> Seq(Answers)] /\ lost' \subseteq Offers
    BY <1>1, <1>5, <1>6, RouteQueues
  <2>2. QED
    BY <1>1, <1>2, <1>4, <2>1 DEF TypeOK
<1>8. /\ \A t \in Sessions : Once(cmds[t])'
      /\ \A t \in Sessions, i \in Ids : OfferInv(t, i)'
  <2>1. offered \subseteq offered' /\ <<s, id>> \in offered' \ offered
    BY <1>1
  <2>2. QED
    BY <1>1, <1>5, <1>6, <2>1, RoutedOffers
<1>9. QED
  BY <1>1, <1>7, <1>8, FilesUntouched DEF TransferInv

-----------------------------------------------------------------------------
(***************************************************************************)
(* A complete file finds a name.                                           *)
(***************************************************************************)
LEMMA LeastNumber ==
    ASSUME NEW N \in Nat, NEW T \in SUBSET (1..N), T # {}
    PROVE  \E m \in T : \A n \in T : m <= n
<1> DEFINE R == StrictSubsetOrdering(Nat)
           D == {1..d : d \in T}
<1>1. IsWellFoundedOn(R, FiniteSubsetsOf(Nat))
  BY FS_StrictSubsetOrderingWellFounded
<1>2. D \subseteq FiniteSubsetsOf(Nat) /\ D # {}
  <2>1. ASSUME NEW d \in T PROVE 1..d \in SUBSET Nat /\ IsFiniteSet(1..d)
    BY FS_Interval
  <2>2. QED
    BY <2>1 DEF FiniteSubsetsOf
<1>3. \E x \in D : \A y \in D : ~(<<y, x>> \in R)
  BY <1>1, <1>2, WFMin
<1>4. PICK m \in T : \A n \in T : <<1..n, 1..m>> \notin R
  BY <1>3
<1>5. ASSUME NEW n \in T, n < m PROVE FALSE
  <2>1. n \in Nat /\ m \in Nat /\ m \in 1..m /\ m \notin 1..n /\ 1..n \subseteq 1..m
    BY <1>5
  <2>2. <<1..n, 1..m>> \in R
    BY <2>1 DEF StrictSubsetOrdering
  <2>3. QED
    BY <1>4, <2>2
<1>6. QED
  BY <1>5

\* There is a name for each offer, so one is free for the next to be kept.
LEMMA FreePlace ==
    ASSUME TransferInv, NEW o \in Offers, o \notin kept
    PROVE  (CHOOSE d \in Destinations :
              /\ files[d] = None
              /\ \A e \in Destinations : e < d => files[e] # None) \in Destinations
<1> DEFINE N == Cardinality(Offers)
           T == {d \in Destinations : files[d] = None}
<1>1. IsFiniteSet(Offers) /\ N \in Nat
  BY FiniteAssumption, FS_Product, FS_CardinalityType DEF Offers
<1>2. T # {}
  <2> SUFFICES ASSUME \A d \in Destinations : files[d] # None PROVE FALSE
    OBVIOUS
  <2>1. files \in [Destinations -> Offers \ {o}]
    BY DEF TransferInv, TypeOK, PlaceInv
  <2>2. IsInjective(files)
    BY <2>1 DEF TransferInv, PlaceInv, IsInjective
  <2>3. files \in Injection(Destinations, Offers \ {o})
    BY <2>1, <2>2 DEF Injection
  <2>4. IsFiniteSet(Offers \ {o}) /\ Cardinality(Offers \ {o}) = N - 1
    BY <1>1, FS_RemoveElement
  <2>5. Cardinality(Destinations) = N
    BY <1>1, FS_Interval DEF Destinations
  <2>6. Cardinality(Destinations) <= Cardinality(Offers \ {o})
    BY <2>3, <2>4, FS_Injection
  <2>7. QED
    BY <1>1, <2>4, <2>5, <2>6
<1>3. PICK m \in T : \A n \in T : m <= n
  BY <1>1, <1>2, LeastNumber DEF Destinations
<1>4. \A e \in Destinations : e < m => files[e] # None
  BY <1>1, <1>3 DEF Destinations
<1>5. QED
  BY <1>3, <1>4

-----------------------------------------------------------------------------
(***************************************************************************)
(* Receiving files.                                                        *)
(***************************************************************************)
\* A session's transfer is given up, with its .part file.
LEMMA DiscardKeeps ==
    ASSUME TransferInv, NEW s \in Sessions, Discard(s),
           UNCHANGED <<moving, files, orphans, kept, told>>
    PROVE  /\ transfer' \in [Sessions -> Receipts \union {None}]
           /\ transfer'[s] = None
           /\ \A t \in Sessions : sup[t] # "running" => transfer'[t] = None
           /\ \A t \in Sessions \ {s} : transfer'[t] = transfer[t]
           /\ parts' \subseteq Ids
           /\ \A t \in Sessions, id \in Ids : FileInv(t, id)'
           /\ \A id \in Ids : PartInv(id)'
           /\ PlaceInv'
<1>1. /\ TypeOK
      /\ transfer' = [transfer EXCEPT ![s] = None]
      /\ parts' = IF transfer[s] = None THEN parts ELSE parts \ {transfer[s].id}
  BY DEF Discard, TransferInv
<1>2. /\ transfer' \in [Sessions -> Receipts \union {None}]
      /\ \A t \in Sessions : transfer'[t] = IF t = s THEN None ELSE transfer[t]
      /\ parts' \subseteq Ids
  BY <1>1 DEF TypeOK
<1>3. ASSUME NEW id \in Ids
      PROVE  /\ \A t \in Sessions : Held(t, id)' <=> Held(t, id) /\ t # s
             /\ \A t \in Sessions : Moving(t, id)' <=> Moving(t, id)
  BY <1>2 DEF Held, Moving
<1>4. ASSUME NEW t \in Sessions, NEW id \in Ids PROVE FileInv(t, id)'
  <2>1. FileInv(t, id)
    BY DEF TransferInv
  <2>2. QED
    BY <1>3, <2>1 DEF FileInv
<1>5. ASSUME NEW id \in Ids PROVE PartInv(id)'
  <2>1. PartInv(id) /\ FileInv(s, id)
    BY DEF TransferInv
  <2>2. CASE Held(s, id)
    <3>1. Writers(id) = {s} /\ ~Moving(s, id)
      BY <2>1, <2>2 DEF PartInv, FileInv, Writers
    <3>2. Writers(id)' = {}
      BY <1>3, <3>1 DEF Writers, Moving
    <3>3. id \notin parts'
      BY <1>1, <2>2 DEF Held
    <3>4. QED
      BY <3>2, <3>3 DEF PartInv
  <2>3. CASE ~Held(s, id)
    <3>1. Writers(id)' = Writers(id)
      BY <1>3, <2>3 DEF Writers, Moving
    <3>2. id \in parts' <=> id \in parts
      BY <1>1, <2>3 DEF Held
    <3>3. QED
      BY <2>1, <3>1, <3>2 DEF PartInv
  <2>4. QED
    BY <2>2, <2>3
<1>6. PlaceInv'
  BY DEF TransferInv, PlaceInv
<1>7. QED
  BY <1>1, <1>2, <1>4, <1>5, <1>6 DEF TypeOK

\* The flag is raised.
LEMMA RaiseFlagKeeps ==
    ASSUME TransferInv, NEW s \in Sessions, RaiseFlag(s)
    PROVE  TransferInv'
<1>1. /\ UNCHANGED <<transfer, moving, parts, files, orphans, kept, pending, cmds,
                     opening, told, offered>>
      /\ UNCHANGED <<overdue, sup, lost>>
      /\ pump[s] = "registered" /\ pump' = [pump EXCEPT ![s] = "reading"]
      /\ flag' = [flag EXCEPT ![s] = TRUE]
  BY DEF RaiseFlag, managerVars, diskVars, history
<1>2. TypeOK'
  BY <1>1 DEF TransferInv, TypeOK
<1>3. QED
  BY <1>1, <1>2, FilesUntouched, OffersUntouched DEF TransferInv

\* A chunk is written: the transfer stays the same one.
LEMMA ChunkReceipt ==
    ASSUME TransferInv, NEW s \in Sessions, NEW id \in Ids, NEW good \in BOOLEAN,
           Chunk(s, id, good)
    PROVE  /\ transfer' \in [Sessions -> Receipts \union {None}]
           /\ \A t \in Sessions : transfer'[t] = None <=> transfer[t] = None
           /\ \A t \in Sessions, i \in Ids : Held(t, i)' <=> Held(t, i)
<1>1. /\ transfer[s] # None /\ transfer[s].received < Size
      /\ transfer' = [transfer EXCEPT ![s].received = @ + 1,
                                      ![s].good = @ /\ good]
  BY DEF Chunk, Held
<1> DEFINE r == transfer[s]
           new == [r EXCEPT !.received = r.received + 1, !.good = r.good /\ good]
<1>2. TypeOK /\ r \in Receipts
  BY <1>1 DEF TransferInv, TypeOK
<1>3. new \in Receipts /\ new.id = r.id
  <2>1. r.received \in 0..Size /\ r.received < Size
    BY <1>1, <1>2 DEF Receipts
  <2>2. r.received + 1 \in 0..Size
    BY <2>1, SizeAssumption
  <2>3. (r.good /\ good) \in BOOLEAN
    BY <1>2 DEF Receipts
  <2>4. QED
    BY <1>2, <2>2, <2>3 DEF Receipts
<1>4. transfer' = [transfer EXCEPT ![s] = new]
  BY <1>1, <1>2 DEF TypeOK
<1> HIDE DEF new
<1>5. /\ transfer' \in [Sessions -> Receipts \union {None}]
      /\ transfer'[s] # None /\ transfer'[s].id = transfer[s].id
      /\ \A t \in Sessions \ {s} : transfer'[t] = transfer[t]
  BY <1>2, <1>3, <1>4, NoneApart DEF TypeOK
<1>6. ASSUME NEW t \in Sessions, NEW i \in Ids PROVE Held(t, i)' <=> Held(t, i)
  BY <1>1, <1>5 DEF Held
<1>7. QED
  BY <1>1, <1>5, <1>6

\* So everything that depends on which transfer it is stays.
LEMMA ChunkKeeps ==
    ASSUME TransferInv, NEW s \in Sessions, NEW id \in Ids, NEW good \in BOOLEAN,
           Chunk(s, id, good)
    PROVE  TransferInv'
<1>1. UNCHANGED <<moving, parts, files, orphans, kept, pending, cmds, opening,
                  told, offered, overdue, sup, lost, flag, pump>>
  BY DEF Chunk, managerVars, pumpVars, diskVars, history
<1>2. /\ transfer' \in [Sessions -> Receipts \union {None}]
      /\ \A t \in Sessions : transfer'[t] = None <=> transfer[t] = None
      /\ \A t \in Sessions, i \in Ids : Held(t, i)' <=> Held(t, i)
  BY ChunkReceipt
<1>3. TypeOK'
  BY <1>1, <1>2 DEF TransferInv, TypeOK
<1>4. ASSUME NEW t \in Sessions, NEW i \in Ids PROVE FileInv(t, i)'
  <2>1. FileInv(t, i) /\ (Held(t, i)' <=> Held(t, i))
    BY <1>2 DEF TransferInv
  <2>2. QED
    BY <1>1, <2>1 DEF FileInv, Moving
<1>5. ASSUME NEW i \in Ids PROVE PartInv(i)'
  <2>1. PartInv(i) /\ Writers(i)' = Writers(i)
    BY <1>1, <1>2 DEF TransferInv, Writers
  <2>2. QED
    BY <1>1, <2>1 DEF PartInv
<1>6. PlaceInv'
  BY <1>1 DEF TransferInv, PlaceInv
<1>7. QED
  BY <1>1, <1>3, <1>4, <1>5, <1>6, OffersUntouched DEF TransferInv

\* The transfer is given up, on a chunk out of order or an abort.
LEMMA GiveUpKeeps ==
    ASSUME TransferInv, NEW s \in Sessions, Discard(s),
           UNCHANGED <<managerVars, cmds, flag, sup, opening, pumpVars, files, history>>
    PROVE  TransferInv'
<1>1. /\ UNCHANGED <<moving, files, orphans, kept, pending, cmds, opening, told, offered>>
      /\ UNCHANGED <<overdue, flag, sup, pump, lost>>
  BY DEF managerVars, pumpVars, history
<1>2. TypeOK'
  <2>1. /\ transfer' \in [Sessions -> Receipts \union {None}]
        /\ \A t \in Sessions : sup[t] # "running" => transfer'[t] = None
        /\ parts' \subseteq Ids
    BY <1>1, DiscardKeeps
  <2>2. QED
    BY <1>1, <2>1 DEF TransferInv, TypeOK
<1>3. QED
  BY <1>1, <1>2, DiscardKeeps, OffersUntouched DEF TransferInv

\* The file is complete and about to be moved, or given up.
LEMMA EndKeeps ==
    ASSUME TransferInv, NEW s \in Sessions, NEW id \in Ids, End(s, id)
    PROVE  TransferInv'
<1>1. CASE ~(transfer[s].received = Size /\ transfer[s].good)
  <2>1. /\ Discard(s)
        /\ UNCHANGED <<managerVars, cmds, flag, sup, opening, pumpVars, files, history>>
    BY <1>1 DEF End
  <2>2. QED
    BY <2>1, GiveUpKeeps
<1>2. CASE transfer[s].received = Size /\ transfer[s].good
  <2> DEFINE to == CHOOSE d \in Destinations :
                     /\ files[d] = None
                     /\ \A e \in Destinations : e < d => files[e] # None
             new == [id |-> id, to |-> to]
  <2>1. /\ UNCHANGED <<parts, files, orphans, kept, pending, cmds, opening, told, offered>>
        /\ UNCHANGED <<overdue, flag, sup, lost>>
        /\ Held(s, id) /\ pump[s] = "reading"
        /\ transfer' = [transfer EXCEPT ![s] = None]
        /\ moving' = [moving EXCEPT ![s] = new]
        /\ pump' = [pump EXCEPT ![s] = "moving"]
    BY <1>2 DEF End, Receives, managerVars, history
  <2>2. TypeOK /\ FileInv(s, id) /\ <<s, id>> \in Offers
    BY DEF TransferInv, Offers
  <2>3. new \in Moves /\ new # None /\ new.id = id
    <3>1. to \in Destinations
      BY <2>1, <2>2, FreePlace DEF FileInv
    <3> HIDE DEF to
    <3>2. new \in Moves
      BY <3>1 DEF Moves
    <3>3. QED
      BY <3>2, NoneApart
  <2> HIDE DEF new
  <2>4. /\ transfer' \in [Sessions -> Receipts \union {None}]
        /\ moving' \in [Sessions -> Moves \union {None}]
        /\ \A t \in Sessions : transfer'[t] = IF t = s THEN None ELSE transfer[t]
        /\ \A t \in Sessions : moving'[t] = IF t = s THEN new ELSE moving[t]
    BY <2>1, <2>2, <2>3 DEF TypeOK
  <2>5. TypeOK'
    BY <2>1, <2>2, <2>3, <2>4 DEF TypeOK
  <2>6. moving[s] = None
    BY <2>1, <2>2 DEF TypeOK
  <2>7. ASSUME NEW t \in Sessions, NEW i \in Ids
        PROVE  /\ Held(t, i)' <=> Held(t, i) /\ ~(t = s /\ i = id)
               /\ Moving(t, i)' <=> Moving(t, i) \/ (t = s /\ i = id)
    <3>1. Held(t, i)' <=> Held(t, i) /\ ~(t = s /\ i = id)
      BY <2>1, <2>4 DEF Held
    <3>2. Moving(t, i)' <=> Moving(t, i) \/ (t = s /\ i = id)
      BY <2>3, <2>4, <2>6 DEF Moving
    <3>3. QED
      BY <3>1, <3>2
  <2>8. ASSUME NEW t \in Sessions, NEW i \in Ids PROVE FileInv(t, i)'
    <3>1. FileInv(t, i)
      BY DEF TransferInv
    <3>2. QED
      BY <2>1, <2>2, <2>7, <3>1 DEF FileInv
  <2>9. ASSUME NEW i \in Ids PROVE PartInv(i)'
    <3>1. PartInv(i)
      BY DEF TransferInv
    <3>2. ASSUME NEW t \in Sessions
          PROVE  Held(t, i)' \/ Moving(t, i)' <=> Held(t, i) \/ Moving(t, i)
      BY <2>1, <2>7
    <3>3. Writers(i)' = Writers(i)
      BY <3>2 DEF Writers, Moving
    <3>4. QED
      BY <2>1, <3>1, <3>3 DEF PartInv
  <2>10. PlaceInv'
    BY <2>1 DEF TransferInv, PlaceInv
  <2>11. QED
    BY <2>1, <2>5, <2>8, <2>9, <2>10, OffersUntouched DEF TransferInv
<1>3. QED
  BY <1>1, <1>2

\* The file is moved to its destination, or the move fails: either way its
\* .part file is gone.
LEMMA MoveKeeps ==
    ASSUME TransferInv, NEW s \in Sessions, NEW ok \in BOOLEAN, Move(s, ok)
    PROVE  TransferInv'
<1> DEFINE id == moving[s].id
           to == moving[s].to
<1>1. /\ UNCHANGED <<transfer, orphans, pending, cmds, opening, told, offered>>
      /\ UNCHANGED <<overdue, flag, sup, lost>>
      /\ pump[s] = "moving"
      /\ moving' = [moving EXCEPT ![s] = None]
      /\ pump' = [pump EXCEPT ![s] = "reading"]
      /\ parts' = parts \ {id}
      /\ ok => /\ files' = [files EXCEPT ![to] = <<s, id>>]
               /\ kept' = kept \union {<<s, id>>}
      /\ ~ok => UNCHANGED <<files, kept>>
  BY DEF Move, managerVars, sessionVars
<1>2. TypeOK /\ moving[s] # None /\ moving[s] \in Moves
  BY <1>1 DEF TransferInv, TypeOK
<1>3. id \in Ids /\ to \in Destinations /\ <<s, id>> \in Offers /\ Moving(s, id)
  BY <1>2 DEF Moves, Offers, Moving
<1>4. FileInv(s, id) /\ <<s, id>> \notin kept /\ ~Held(s, id) /\ told[<<s, id>>] = 1
  BY <1>3 DEF TransferInv, FileInv
<1> HIDE DEF id, to
<1>5. /\ moving' \in [Sessions -> Moves \union {None}]
      /\ \A t \in Sessions : moving'[t] = IF t = s THEN None ELSE moving[t]
  BY <1>1, <1>2 DEF TypeOK
<1>6. /\ files' \in [Destinations -> Offers \union {None}]
      /\ kept' \subseteq Offers
      /\ \A o : o \in kept' <=> o \in kept \/ (ok /\ o = <<s, id>>)
      /\ \A d \in Destinations :
           files'[d] = IF ok /\ d = to THEN <<s, id>> ELSE files[d]
  BY <1>1, <1>2, <1>3 DEF TypeOK
<1>7. TypeOK'
  BY <1>1, <1>2, <1>5, <1>6 DEF TypeOK
<1>8. ASSUME NEW t \in Sessions, NEW i \in Ids
      PROVE  /\ Held(t, i)' <=> Held(t, i)
             /\ Moving(t, i)' <=> Moving(t, i) /\ ~(t = s /\ i = id)
  BY <1>1, <1>5 DEF Held, Moving, id
<1>9. ASSUME NEW t \in Sessions, NEW i \in Ids PROVE FileInv(t, i)'
  <2>1. FileInv(t, i) /\ (<<t, i>> = <<s, id>> => t = s /\ i = id)
    BY DEF TransferInv
  <2>2. QED
    BY <1>1, <1>4, <1>6, <1>8, <2>1 DEF FileInv
<1>10. ASSUME NEW i \in Ids PROVE PartInv(i)'
  <2>1. PartInv(i)
    BY DEF TransferInv
  <2>2. CASE i = id
    <3>1. Writers(i) = {s}
      BY <1>3, <2>1, <2>2 DEF PartInv, Writers, Moving
    <3>2. Writers(i)' = {}
      BY <1>4, <1>8, <2>2, <3>1 DEF Writers, Moving
    <3>3. QED
      BY <1>1, <2>2, <3>2 DEF PartInv
  <2>3. CASE i # id
    <3>1. Writers(i)' = Writers(i)
      BY <1>8, <2>3 DEF Writers, Moving
    <3>2. QED
      BY <1>1, <2>1, <2>3, <3>1 DEF PartInv
  <2>4. QED
    BY <2>2, <2>3
<1>11. PlaceInv'
  BY <1>3, <1>4, <1>6 DEF TransferInv, PlaceInv
<1>12. QED
  BY <1>1, <1>7, <1>9, <1>10, <1>11, OffersUntouched DEF TransferInv

-----------------------------------------------------------------------------
(***************************************************************************)
(* The supervisor.                                                         *)
(***************************************************************************)
\* What taking an answer does to the queues: the offer it answers is in the
\* queue no more.
LEMMA TakenQueue ==
    ASSUME TransferInv, NEW s \in Sessions, cmds[s] # <<>>,
           cmds' = [cmds EXCEPT ![s] = Tail(@)]
    PROVE  /\ Head(cmds[s]) \in Answers /\ Head(cmds[s])[1] \in Ids
           /\ Head(cmds[s])[2] \in BOOLEAN
           /\ Head(cmds[s]) = <<Head(cmds[s])[1], Head(cmds[s])[2]>>
           /\ cmds' \in [Sessions -> Seq(Answers)]
           /\ \A t \in Sessions : Once(cmds'[t])
           /\ \A t \in Sessions, i \in Ids :
                Says(cmds'[t], i) <=> /\ Says(cmds[t], i)
                                      /\ ~(t = s /\ i = Head(cmds[s])[1])
           /\ Says(cmds[s], Head(cmds[s])[1])
           /\ \A t \in Sessions, i \in Ids :
                (t # s \/ i # Head(cmds[s])[1]) =>
                   (Accepts(cmds'[t], i) <=> Accepts(cmds[t], i))
           /\ Accepts(cmds[s], Head(cmds[s])[1]) <=> Head(cmds[s])[2]
<1> DEFINE a == Head(cmds[s])
<1>1. /\ cmds[s] \in Seq(Answers) /\ Once(cmds[s])
      /\ \A t \in Sessions : cmds'[t] = IF t = s THEN Tail(cmds[s]) ELSE cmds[t]
  BY DEF TransferInv, TypeOK
<1>2. /\ a \in Answers /\ Tail(cmds[s]) \in Seq(Answers)
      /\ \A i : Says(cmds[s], i) <=> a[1] = i \/ Says(Tail(cmds[s]), i)
      /\ \A i : Accepts(cmds[s], i) <=> a = <<i, TRUE>> \/ Accepts(Tail(cmds[s]), i)
      /\ Once(Tail(cmds[s])) /\ ~Says(Tail(cmds[s]), a[1])
  BY <1>1, TailSays
<1>3. a[1] \in Ids /\ a[2] \in BOOLEAN /\ a = <<a[1], a[2]>>
  BY <1>2, ProductParts DEF Answers
<1>4. ~Accepts(Tail(cmds[s]), a[1])
  BY <1>2, AcceptsSays
<1> HIDE DEF a
<1>5. cmds' \in [Sessions -> Seq(Answers)]
  BY <1>2 DEF TransferInv, TypeOK
<1>6. \A t \in Sessions : Once(cmds'[t])
  BY <1>1, <1>2 DEF TransferInv
<1>7. \A t \in Sessions, i \in Ids :
        Says(cmds'[t], i) <=> Says(cmds[t], i) /\ ~(t = s /\ i = a[1])
  BY <1>1, <1>2
<1>8. ASSUME NEW t \in Sessions, NEW i \in Ids, t # s \/ i # a[1]
      PROVE  Accepts(cmds'[t], i) <=> Accepts(cmds[t], i)
  <2>1. CASE t # s
    BY <1>1, <2>1
  <2>2. CASE t = s /\ i # a[1]
    <3>1. a # <<i, TRUE>>
      <4>1. <<i, TRUE>>[1] = i
        BY PairParts
      <4>2. QED
        BY <2>2, <4>1, Zenon
    <3>2. QED
      BY <1>1, <1>2, <2>2, <3>1
  <2>3. QED
    BY <1>8, <2>1, <2>2
<1>9. Accepts(cmds[s], a[1]) <=> a[2]
  <2>1. Accepts(cmds[s], a[1]) <=> a = <<a[1], TRUE>>
    BY <1>2, <1>4
  <2>2. a = <<a[1], TRUE>> => a[2] = TRUE
    BY PairParts, Zenon
  <2>3. a[2] = TRUE => a = <<a[1], TRUE>>
    BY <1>3, Zenon
  <2>4. a[2] = TRUE <=> a[2]
    BY <1>3, Zenon
  <2>5. QED
    BY <2>1, <2>2, <2>3, <2>4, Zenon
<1>10. Says(cmds[s], a[1])
  BY <1>2
<1>11. QED
  BY <1>2, <1>3, <1>5, <1>6, <1>7, <1>8, <1>9, <1>10, Zenon DEF a

\* AnswerFileOffer: a denial is told, an acceptance about to be opened.
LEMMA TakeAnswerKeeps ==
    ASSUME TransferInv, NEW s \in Sessions, TakeAnswer(s)
    PROVE  TransferInv'
<1> DEFINE id == Head(cmds[s])[1]
           accept == Head(cmds[s])[2]
<1>1. /\ UNCHANGED <<transfer, moving, parts, files, orphans, kept, pending, offered>>
      /\ UNCHANGED <<overdue, sup, pump, lost>>
      /\ sup[s] = "running" /\ opening[s] = None /\ cmds[s] # <<>>
      /\ cmds' = [cmds EXCEPT ![s] = Tail(@)]
      /\ flag' = [flag EXCEPT ![s] = FALSE]
      /\ accept => opening' = [opening EXCEPT ![s] = id] /\ told' = told
      /\ ~accept => opening' = opening /\ Tell(<<s, id>>)
  BY DEF TakeAnswer, managerVars, pumpVars, diskVars
<1>2. /\ id \in Ids /\ cmds' \in [Sessions -> Seq(Answers)]
      /\ \A t \in Sessions : Once(cmds'[t])
      /\ \A t \in Sessions, i \in Ids :
           Says(cmds'[t], i) <=> Says(cmds[t], i) /\ ~(t = s /\ i = id)
      /\ Says(cmds[s], id)
  BY <1>1, TakenQueue
<1> HIDE DEF id, accept
<1>3. /\ TypeOK /\ OfferInv(s, id) /\ told[<<s, id>>] = 0 /\ pending[id] # s
      /\ <<s, id>> \in offered
  BY <1>2 DEF TransferInv, OfferInv
<1>4. CASE accept
  <2>1. /\ opening' \in [Sessions -> Ids \union {None}]
        /\ \A t \in Sessions : opening'[t] = IF t = s THEN id ELSE opening[t]
    <3>1. opening' = [opening EXCEPT ![s] = id]
      BY <1>1, <1>4
    <3>2. QED
      BY <1>2, <1>3, <3>1 DEF TypeOK
  <2>2. TypeOK'
    BY <1>1, <1>2, <1>3, <1>4, <2>1 DEF TypeOK
  <2>3. ASSUME NEW t \in Sessions, NEW i \in Ids PROVE OfferInv(t, i)'
    <3>1. OfferInv(t, i)
      BY DEF TransferInv
    <3>2. opening'[t] = i <=> opening[t] = i \/ (t = s /\ i = id)
      BY <1>1, <2>1, NoneApart
    <3>3. QED
      BY <1>1, <1>2, <1>3, <1>4, <3>1, <3>2 DEF OfferInv
  <2>4. QED
    BY <1>1, <1>2, <1>4, <2>2, <2>3, FilesUntouched DEF TransferInv
<1>5. CASE ~accept
  <2>1. /\ told' \in [Offers -> 0..1]
        /\ \A t \in Sessions, i \in Ids :
             told'[<<t, i>>] = IF t = s /\ i = id THEN 1 ELSE told[<<t, i>>]
        /\ \A o \in Offers : told[o] = 1 => told'[o] = 1
    BY <1>1, <1>2, <1>3, <1>5, TellOnce
  <2>2. TypeOK'
    BY <1>1, <1>2, <1>3, <1>5, <2>1 DEF TypeOK
  <2>3. ASSUME NEW t \in Sessions, NEW i \in Ids PROVE OfferInv(t, i)'
    <3>1. OfferInv(t, i)
      BY DEF TransferInv
    <3>2. opening'[s] # id
      BY <1>1, <1>2, <1>5, NoneApart
    <3>3. QED
      BY <1>1, <1>2, <1>3, <1>5, <2>1, <3>1, <3>2 DEF OfferInv
  <2>4. QED
    BY <1>1, <1>2, <1>5, <2>1, <2>2, <2>3, FilesUntouched DEF TransferInv
<1>6. QED
  BY <1>4, <1>5

\* The .part file is opened, and takes the place of the one before.
LEMMA OpenKeeps ==
    ASSUME TransferInv, NEW s \in Sessions, Open(s)
    PROVE  TransferInv'
<1> DEFINE id == opening[s]
           new == [id |-> id, received |-> 0, good |-> TRUE]
<1>1. /\ UNCHANGED <<moving, files, kept, pending, cmds, offered>>
      /\ UNCHANGED <<overdue, flag, sup, pump, lost>>
      /\ id # None /\ id \notin parts
      /\ opening' = [opening EXCEPT ![s] = None]
      /\ parts' = parts \union {id}
      /\ transfer' = [transfer EXCEPT ![s] = new]
      /\ orphans' = IF transfer[s] = None THEN orphans
                    ELSE orphans \union {transfer[s].id}
      /\ Tell(<<s, id>>)
  BY DEF Open, managerVars, pumpVars
<1>2. TypeOK /\ id \in Ids /\ sup[s] = "running"
  BY <1>1 DEF TransferInv, TypeOK
<1>3. new \in Receipts /\ new # None /\ new.id = id
  <2>1. new \in Receipts
    BY <1>2, SizeAssumption DEF Receipts
  <2>2. QED
    BY <2>1, NoneApart
<1>4. /\ told[<<s, id>>] = 0 /\ pending[id] # s /\ ~Says(cmds[s], id)
      /\ <<s, id>> \in offered
  BY <1>2 DEF TransferInv, OfferInv
<1> HIDE DEF new
<1>5. /\ told' \in [Offers -> 0..1]
      /\ \A t \in Sessions, i \in Ids :
           told'[<<t, i>>] = IF t = s /\ i = id THEN 1 ELSE told[<<t, i>>]
  BY <1>1, <1>2, <1>4, TellOnce
<1>6. /\ transfer' \in [Sessions -> Receipts \union {None}]
      /\ opening' \in [Sessions -> Ids \union {None}]
      /\ \A t \in Sessions : transfer'[t] = IF t = s THEN new ELSE transfer[t]
      /\ \A t \in Sessions : opening'[t] = IF t = s THEN None ELSE opening[t]
  BY <1>1, <1>2, <1>3 DEF TypeOK
<1>7. orphans' \subseteq Ids /\ parts' \subseteq Ids
  <2>1. transfer[s] # None => transfer[s].id \in Ids
    BY <1>2 DEF TypeOK, Receipts
  <2>2. QED
    BY <1>1, <1>2, <2>1 DEF TypeOK
<1>8. TypeOK'
  <2>1. \A t \in Sessions : sup'[t] # "running" => transfer'[t] = None /\ opening'[t] = None
    BY <1>1, <1>2, <1>6 DEF TypeOK
  <2>2. QED
    BY <1>1, <1>2, <1>5, <1>6, <1>7, <2>1 DEF TypeOK
<1> HIDE DEF id
<1>9. ASSUME NEW t \in Sessions, NEW i \in Ids PROVE OfferInv(t, i)'
  <2>1. OfferInv(t, i)
    BY DEF TransferInv
  <2>2. opening'[t] = i <=> opening[t] = i /\ t # s
    BY <1>6, NoneApart
  <2>3. opening[s] = i => i = id
    BY DEF id
  <2>4. QED
    BY <1>1, <1>2, <1>4, <1>5, <2>1, <2>2, <2>3 DEF OfferInv
<1>10. Writers(id) = {} /\ \A t \in Sessions : ~Held(t, id) /\ ~Moving(t, id)
  BY <1>1, <1>2 DEF TransferInv, PartInv, Writers, Moving
<1>11. ASSUME NEW t \in Sessions, NEW i \in Ids
       PROVE  /\ Held(t, i)' <=> IF t = s THEN i = id ELSE Held(t, i)
              /\ Moving(t, i)' <=> Moving(t, i)
  BY <1>1, <1>3, <1>6 DEF Held, Moving
<1>12. ASSUME NEW t \in Sessions, NEW i \in Ids PROVE FileInv(t, i)'
  <2>1. FileInv(t, i) /\ FileInv(s, id)
    BY <1>2 DEF TransferInv
  <2>2. <<s, id>> \notin kept
    BY <1>4, <2>1 DEF FileInv
  <2>3. QED
    BY <1>1, <1>4, <1>5, <1>10, <1>11, <2>1, <2>2 DEF FileInv
<1>13. ASSUME NEW i \in Ids PROVE PartInv(i)'
  <2>1. PartInv(i)
    BY DEF TransferInv
  <2>2. CASE i = id
    <3>1. Writers(i)' = {s}
      BY <1>10, <1>11, <2>2 DEF Writers, Moving
    <3>2. QED
      BY <1>1, <2>2, <3>1 DEF PartInv
  <2>3. CASE i # id /\ Held(s, i)
    <3>1. FileInv(s, i) /\ Writers(i) = {s}
      BY <2>1, <2>3 DEF TransferInv, PartInv, Writers
    <3>2. Writers(i)' = {}
      BY <1>11, <2>3, <3>1 DEF Writers, Moving, FileInv
    <3>3. i \in orphans'
      BY <1>1, <2>3 DEF Held
    <3>4. QED
      BY <3>2, <3>3 DEF PartInv
  <2>4. CASE i # id /\ ~Held(s, i)
    <3>1. Writers(i)' = Writers(i)
      BY <1>11, <2>4 DEF Writers, Moving
    <3>2. /\ i \in parts' <=> i \in parts
          /\ i \in orphans => i \in orphans'
      BY <1>1, <2>4
    <3>3. QED
      BY <2>1, <3>1, <3>2 DEF PartInv
  <2>5. QED
    BY <2>2, <2>3, <2>4
<1>14. PlaceInv'
  BY <1>1 DEF TransferInv, PlaceInv
<1>15. QED
  BY <1>1, <1>8, <1>9, <1>12, <1>13, <1>14 DEF TransferInv

\* The .part file cannot be created: the viewer is told.
LEMMA OpenFailsKeeps ==
    ASSUME TransferInv, NEW s \in Sessions, OpenFails(s)
    PROVE  TransferInv'
<1> DEFINE id == opening[s]
<1>1. /\ UNCHANGED <<transfer, moving, parts, files, orphans, kept, pending, cmds, offered>>
      /\ UNCHANGED <<overdue, flag, sup, pump, lost>>
      /\ id # None
      /\ opening' = [opening EXCEPT ![s] = None]
      /\ Tell(<<s, id>>)
  BY DEF OpenFails, managerVars, pumpVars, diskVars
<1>2. TypeOK /\ id \in Ids
  BY <1>1 DEF TransferInv, TypeOK
<1>3. told[<<s, id>>] = 0 /\ pending[id] # s /\ ~Says(cmds[s], id) /\ <<s, id>> \in offered
  BY <1>2 DEF TransferInv, OfferInv
<1>4. /\ told' \in [Offers -> 0..1]
      /\ \A t \in Sessions, i \in Ids :
           told'[<<t, i>>] = IF t = s /\ i = id THEN 1 ELSE told[<<t, i>>]
      /\ \A o \in Offers : told[o] = 1 => told'[o] = 1
  BY <1>1, <1>2, <1>3, TellOnce
<1>5. /\ opening' \in [Sessions -> Ids \union {None}]
      /\ \A t \in Sessions : opening'[t] = IF t = s THEN None ELSE opening[t]
  BY <1>1, <1>2 DEF TypeOK
<1>6. TypeOK'
  BY <1>1, <1>2, <1>4, <1>5 DEF TypeOK
<1> HIDE DEF id
<1>7. ASSUME NEW t \in Sessions, NEW i \in Ids PROVE OfferInv(t, i)'
  <2>1. OfferInv(t, i)
    BY DEF TransferInv
  <2>2. opening'[t] = i <=> opening[t] = i /\ t # s
    BY <1>5, NoneApart
  <2>3. QED
    BY <1>1, <1>2, <1>3, <1>4, <2>1, <2>2 DEF OfferInv
<1>8. QED
  BY <1>1, <1>4, <1>6, <1>7, FilesUntouched, OffersUntouched DEF TransferInv

\* The session is over, and drops all offers of the device.
LEMMA LeaveKeeps ==
    ASSUME TransferInv, NEW s \in Sessions, Leave(s)
    PROVE  TransferInv'
<1>1. /\ UNCHANGED <<moving, files, orphans, kept, cmds, opening, told, offered>>
      /\ UNCHANGED <<flag, pump>>
      /\ Discard(s) /\ opening[s] = None
      /\ pending' = [id \in Ids |-> None] /\ overdue' = {}
      /\ sup' = [sup EXCEPT ![s] = "leaving"]
  BY DEF Leave, pumpVars
<1>2. lost' \subseteq Offers
  <2>1. lost \subseteq Offers
    BY DEF TransferInv, TypeOK
  <2>2. ASSUME NEW id \in Ids, pending[id] \notin {None, s} PROVE <<pending[id], id>> \in Offers
    BY <2>2 DEF TransferInv, TypeOK, Offers
  <2>3. QED
    BY <2>1, <2>2 DEF Leave
<1>3. TypeOK'
  <2>1. /\ transfer' \in [Sessions -> Receipts \union {None}]
        /\ transfer'[s] = None
        /\ \A t \in Sessions : sup[t] # "running" => transfer'[t] = None
        /\ parts' \subseteq Ids
    BY <1>1, DiscardKeeps
  <2>2. TypeOK
    BY DEF TransferInv
  <2>3. /\ sup' \in [Sessions -> {"running", "leaving", "ended"}]
        /\ \A t \in Sessions : sup'[t] # "running" => transfer'[t] = None /\ opening[t] = None
    BY <1>1, <2>1, <2>2 DEF TypeOK
  <2>4. QED
    BY <1>1, <1>2, <2>1, <2>2, <2>3 DEF TypeOK
<1>4. ASSUME NEW t \in Sessions, NEW i \in Ids PROVE OfferInv(t, i)'
  BY <1>1, NoneApart DEF TransferInv, OfferInv
<1>5. QED
  BY <1>1, <1>3, <1>4, DiscardKeeps DEF TransferInv

\* The command queue goes with the supervisor.
LEMMA AbortPumpKeeps ==
    ASSUME TransferInv, NEW s \in Sessions, AbortPump(s)
    PROVE  TransferInv'
<1>1. /\ UNCHANGED <<transfer, moving, parts, files, orphans, kept, pending, opening,
                     told, offered>>
      /\ UNCHANGED <<overdue, flag, pump, lost>>
      /\ sup[s] = "leaving" /\ sup' = [sup EXCEPT ![s] = "ended"]
      /\ cmds' = [cmds EXCEPT ![s] = <<>>]
  BY DEF AbortPump, managerVars, pumpVars, diskVars, history
<1>2. /\ <<>> \in Seq(Answers) /\ Once(<<>>)
      /\ \A id : ~Says(<<>>, id)
  BY EmptySeq DEF Once, Says
<1>3. /\ cmds' \in [Sessions -> Seq(Answers)]
      /\ \A t \in Sessions : cmds'[t] = IF t = s THEN <<>> ELSE cmds[t]
  BY <1>1, <1>2 DEF TransferInv, TypeOK
<1>4. TypeOK'
  <2>1. TypeOK
    BY DEF TransferInv
  <2>2. sup' \in [Sessions -> {"running", "leaving", "ended"}]
    BY <1>1, <2>1 DEF TypeOK
  <2>3. \A t \in Sessions : sup'[t] # "running" => sup[t] # "running"
    BY <1>1, <2>1 DEF TypeOK
  <2>4. QED
    BY <1>1, <1>3, <2>1, <2>2, <2>3 DEF TypeOK
<1>5. /\ \A t \in Sessions : Once(cmds'[t])
      /\ \A t \in Sessions : \A i : Says(cmds'[t], i) => Says(cmds[t], i)
  BY <1>2, <1>3 DEF TransferInv
<1>6. ASSUME NEW t \in Sessions, NEW i \in Ids PROVE OfferInv(t, i)'
  BY <1>1, <1>5 DEF TransferInv, OfferInv
<1>7. QED
  BY <1>1, <1>4, <1>5, <1>6, FilesUntouched DEF TransferInv

-----------------------------------------------------------------------------
(***************************************************************************)
(* The theorems.                                                           *)
(***************************************************************************)
LEMMA InitHolds == Init => TransferInv
<1> SUFFICES ASSUME Init PROVE TransferInv
  OBVIOUS
<1>1. <<>> \in Seq(Answers) /\ Once(<<>>) /\ \A id : ~Says(<<>>, id)
  BY EmptySeq DEF Once, Says
<1>2. TypeOK
  BY <1>1, SizeAssumption DEF Init, TypeOK
<1>3. \A s \in Sessions, id \in Ids : OfferInv(s, id) /\ FileInv(s, id)
  <2> SUFFICES ASSUME NEW s \in Sessions, NEW id \in Ids
               PROVE  OfferInv(s, id) /\ FileInv(s, id)
    OBVIOUS
  <2>1. /\ pending[id] = None /\ cmds[s] = <<>> /\ opening[s] = None
        /\ told[<<s, id>>] = 0
        /\ ~Held(s, id) /\ ~Moving(s, id) /\ kept = {}
    BY DEF Init, Held, Moving, Offers
  <2>2. OfferInv(s, id)
    BY <1>1, <2>1, NoneApart DEF OfferInv
  <2>3. FileInv(s, id)
    BY <2>1 DEF FileInv
  <2>4. QED
    BY <2>2, <2>3
<1>4. \A id \in Ids : PartInv(id)
  <2>1. ASSUME NEW id \in Ids PROVE Writers(id) = {}
    BY DEF Init, Writers, Held
  <2>2. QED
    BY <2>1 DEF Init, PartInv
<1>5. PlaceInv
  BY DEF Init, PlaceInv
<1>6. QED
  BY <1>1, <1>2, <1>3, <1>4, <1>5 DEF TransferInv, Init

\* Every step keeps the invariant.
LEMMA NextKeeps ==
    ASSUME TransferInv, [Next]_vars
    PROVE  TransferInv'
<1>1. CASE Panel
  BY <1>1, ListKeeps, AnswerKeeps DEF Panel, Lists
<1>2. ASSUME NEW id \in Ids, Expire(id) PROVE TransferInv'
  BY <1>2, ExpireKeeps
<1>3. ASSUME NEW s \in Sessions, Viewer(s) PROVE TransferInv'
  <2>1. ASSUME NEW id \in Ids, DenyOffer(s, id) \/ End(s, id) PROVE TransferInv'
    BY <2>1, DenyOfferKeeps, EndKeeps
  <2>2. ASSUME NEW id \in Ids, Abort(s, id) PROVE TransferInv'
    BY <2>2, GiveUpKeeps DEF Abort
  <2>3. ASSUME NEW id \in Ids, NEW room \in SUBSET Sessions,
               DuplicateOffer(s, id, room) \/ RegisterOffer(s, id, room)
        PROVE  TransferInv'
    BY <2>3, DuplicateOfferKeeps, RegisterOfferKeeps
  <2>4. ASSUME NEW id \in Ids, NEW good \in BOOLEAN, Chunk(s, id, good)
        PROVE  TransferInv'
    BY <2>4, ChunkKeeps
  <2>5. CASE BadChunk(s)
    BY <2>5, GiveUpKeeps DEF BadChunk
  <2>6. QED
    BY <1>3, <2>1, <2>2, <2>3, <2>4, <2>5 DEF Viewer
<1>4. ASSUME NEW s \in Sessions, Supervisor(s) PROVE TransferInv'
  BY <1>4, TakeAnswerKeeps, OpenKeeps, OpenFailsKeeps DEF Supervisor
<1>5. ASSUME NEW s \in Sessions, Pump(s) PROVE TransferInv'
  BY <1>5, RaiseFlagKeeps, MoveKeeps DEF Pump
<1>6. ASSUME NEW s \in Sessions, Leave(s) \/ AbortPump(s) PROVE TransferInv'
  BY <1>6, LeaveKeeps, AbortPumpKeeps
<1>7. CASE UNCHANGED vars
  <2>1. /\ UNCHANGED <<transfer, moving, parts, files, orphans, kept, pending, cmds,
                       opening, told, offered>>
        /\ UNCHANGED <<overdue, flag, sup, pump, lost>>
    BY <1>7 DEF vars, managerVars, sessionVars, pumpVars, diskVars, history
  <2>2. TypeOK'
    BY <2>1 DEF TransferInv, TypeOK
  <2>3. QED
    BY <2>1, <2>2, FilesUntouched, OffersUntouched DEF TransferInv
<1>8. QED
  BY <1>1, <1>2, <1>3, <1>4, <1>5, <1>6, <1>7 DEF Next

\* The invariant holds at every moment.
LEMMA TransferInvariant == Spec => []TransferInv
BY InitHolds, NextKeeps, PTL DEF Spec

\* Every variable keeps its type; with it, an offer is told at most one answer:
\* never a denial after an acceptance, nor the panel's answer and the expiry's.
THEOREM TypeCorrect == Spec => []TypeOK
<1>1. TransferInv => TypeOK
  BY DEF TransferInv
<1>2. QED
  BY <1>1, TransferInvariant, PTL

\* No two sessions write to one .part file, and one that nobody writes to was
\* left by a transfer that the next one replaced.
THEOREM PartsOwnedAlways == Spec => []PartsOwned
<1>1. TransferInv => PartsOwned
  <2> SUFFICES ASSUME TransferInv, NEW id \in Ids
               PROVE  /\ Cardinality(Writers(id)) <= 1
                      /\ Writers(id) # {} => id \in parts
                      /\ id \in parts \ orphans => Writers(id) # {}
    BY DEF PartsOwned
  <2>1. PartInv(id)
    BY DEF TransferInv
  <2>2. CASE Writers(id) = {}
    BY <2>1, <2>2, FS_EmptySet DEF PartInv
  <2>3. CASE Writers(id) # {}
    <3>1. PICK s : Writers(id) = {s}
      BY <2>1, <2>3 DEF PartInv
    <3>2. Cardinality(Writers(id)) = 1
      BY <3>1, FS_Singleton
    <3>3. QED
      BY <2>1, <3>2 DEF PartInv
  <2>4. QED
    BY <2>2, <2>3
<1>2. QED
  BY <1>1, TransferInvariant, PTL

-----------------------------------------------------------------------------
(***************************************************************************)
(* The offers live as FileDrop says.                                       *)
(***************************************************************************)
\* Where an offer stands at each stage of its life.
Places(s, id) ==
    /\ Life(s, id) \in {"new", "waiting", "accepted", "receiving", "complete",
                        "stored", "closed"}
    /\ Life(s, id) = "new" <=> <<s, id>> \notin offered
    /\ Life(s, id) = "waiting" <=> pending[id] = s
    /\ Life(s, id) = "accepted" <=> opening[s] = id \/ Accepts(cmds[s], id)
    /\ Life(s, id) = "receiving" <=> Held(s, id)
    /\ Life(s, id) = "complete" <=> Moving(s, id)
    /\ Life(s, id) = "stored" <=> <<s, id>> \in kept

PlacesInv == \A s \in Sessions, id \in Ids : Places(s, id)

\* No offer stands in two places.
LEMMA OnePlace == TransferInv => PlacesInv
<1> SUFFICES ASSUME TransferInv, NEW s \in Sessions, NEW id \in Ids
             PROVE  Places(s, id)
  BY DEF PlacesInv
<1>1. OfferInv(s, id) /\ FileInv(s, id)
  BY DEF TransferInv
<1>2. Accepts(cmds[s], id) => Says(cmds[s], id)
  BY AcceptsSays DEF TransferInv, TypeOK
<1>3. Life(s, id) =
        IF <<s, id>> \in kept THEN "stored"
        ELSE IF Moving(s, id) THEN "complete"
        ELSE IF Held(s, id) THEN "receiving"
        ELSE IF opening[s] = id \/ Accepts(cmds[s], id) THEN "accepted"
        ELSE IF pending[id] = s THEN "waiting"
        ELSE IF <<s, id>> \in offered THEN "closed"
        ELSE "new"
  BY Zenon DEF Life, Moving, Accepts
<1>4. QED
  BY <1>1, <1>2, <1>3 DEF OfferInv, FileInv, Places

\* The same of the next state.
LEMMA OnePlaceNext == TransferInv' => PlacesInv'
BY OnePlace, PTL

\* The stages of all offers, as FileDrop has them.
Lives == [o \in Offers |-> Life(o[1], o[2])]

\* An offer moves on, and others are over.
LEMMA Advances ==
    ASSUME NEW s \in Sessions, NEW id \in Ids, NEW from, NEW to, NEW S,
           Life(s, id) = from,
           \A t \in Sessions, i \in Ids :
              Life(t, i)' = IF t = s /\ i = id THEN to
                            ELSE IF <<t, i>> \in S THEN "closed" ELSE Life(t, i)
    PROVE  Drop!Advance(<<s, id>>, from, to, S)
<1>1. Lives[<<s, id>>] = from
  BY DEF Lives, Offers
<1>2. Lives' = [p \in Offers |-> IF p = <<s, id>> THEN to
                                 ELSE IF p \in S THEN "closed" ELSE Lives[p]]
  BY DEF Lives, Offers
<1>3. QED
  BY <1>1, <1>2 DEF Drop!Advance, Drop!Offers, Lives, Offers

\* Offers that wait, were accepted or are received lapse.
LEMMA Lapses ==
    ASSUME NEW S \in SUBSET Offers,
           \A t \in Sessions, i \in Ids :
              /\ <<t, i>> \in S => Life(t, i) \in {"waiting", "accepted", "receiving"}
              /\ Life(t, i)' = IF <<t, i>> \in S THEN "closed" ELSE Life(t, i)
    PROVE  Drop!Next \/ UNCHANGED Lives
<1>1. Lives' = [p \in Offers |-> IF p \in S THEN "closed" ELSE Lives[p]]
  BY DEF Lives, Offers
<1>2. CASE S = {}
  BY <1>1, <1>2 DEF Lives
<1>3. CASE S # {}
  <2>1. \A p \in S : Lives[p] \in {"waiting", "accepted", "receiving"}
    BY DEF Lives, Offers
  <2>2. S \subseteq Drop!At("waiting") \union Drop!At("accepted")
                    \union Drop!At("receiving")
    BY <2>1 DEF Drop!At, Drop!Offers, Lives, Offers
  <2>3. Drop!Lapse
    BY <1>1, <1>3, <2>2 DEF Drop!Lapse, Drop!Offers, Lives, Offers
  <2>4. QED
    BY <2>3 DEF Drop!Next
<1>4. QED
  BY <1>2, <1>3

\* No offer moves.
LEMMA Stays ==
    ASSUME \A t \in Sessions, i \in Ids : Life(t, i)' = Life(t, i)
    PROVE  UNCHANGED Lives
BY DEF Lives, Offers

\* A step that leaves all variables of the offers' places alone.
LEMMA PlacesUntouched ==
    ASSUME TransferInv, TransferInv',
           UNCHANGED <<pending, cmds, opening, moving, kept, offered>>,
           \A t \in Sessions, i \in Ids : Held(t, i)' <=> Held(t, i)
    PROVE  UNCHANGED Lives
<1>1. PlacesInv /\ PlacesInv'
  BY OnePlace, OnePlaceNext
<1>2. ASSUME NEW t \in Sessions, NEW i \in Ids PROVE Life(t, i)' = Life(t, i)
  <2>1. Places(t, i) /\ Places(t, i)'
    BY <1>1 DEF PlacesInv
  <2>2. /\ Moving(t, i)' <=> Moving(t, i)
        /\ Accepts(cmds[t], i)' <=> Accepts(cmds[t], i)
    BY DEF Moving
  <2>3. Held(t, i)' <=> Held(t, i)
    OBVIOUS
  <2>4. QED
    BY <2>1, <2>2, <2>3 DEF Places
<1>3. QED
  BY <1>2, Stays

\* The offers that prune denies.
Pruning == {<<pending[id], id>> : id \in overdue}

\* They are those that wait until they are pruned.
LEMMA PruningWaits ==
    ASSUME TransferInv
    PROVE  /\ Pruning \in SUBSET Offers
           /\ \A t \in Sessions, i \in Ids :
                /\ <<t, i>> \in Pruning <=> pending[i] = t /\ Pruned[i] # t
                /\ <<t, i>> \in Pruning => Life(t, i) = "waiting"
<1>1. TypeOK /\ PlacesInv
  BY OnePlace DEF TransferInv
<1>2. Pruning \in SUBSET Offers
  BY <1>1, NoneApart DEF TypeOK, Pruning, Offers
<1>3. ASSUME NEW t \in Sessions, NEW i \in Ids
      PROVE  <<t, i>> \in Pruning <=> pending[i] = t /\ Pruned[i] # t
  BY <1>1, NoneApart DEF TypeOK, Pruning, Pruned
<1>4. QED
  BY <1>1, <1>2, <1>3 DEF PlacesInv, Places

\* Denials alone, routed, accept nothing.
LEMMA DenialsAccept ==
    ASSUME TransferInv, NEW room, Route([s \in Sessions |-> Denials(s)], room)
    PROVE  \A t \in Sessions, i \in Ids : Accepts(cmds'[t], i) <=> Accepts(cmds[t], i)
<1> SUFFICES ASSUME NEW t \in Sessions, NEW i \in Ids
             PROVE  Accepts(cmds'[t], i) <=> Accepts(cmds[t], i)
  OBVIOUS
<1>1. cmds[t] \in Seq(Answers) /\ Denials(t) \in Seq(Answers) /\ ~Accepts(Denials(t), i)
  BY PrunedOffers DEF TransferInv, TypeOK
<1>2. cmds'[t] \in {cmds[t], cmds[t] \o Denials(t)}
  BY DEF Route
<1>3. Accepts(cmds[t] \o Denials(t), i) <=> Accepts(cmds[t], i)
  BY <1>1, ConcatSays
<1>4. QED
  BY <1>2, <1>3

\* The list is asked for: what is overdue lapses.
LEMMA ListLapses ==
    ASSUME TransferInv, TransferInv', NEW room \in SUBSET Sessions, List(room)
    PROVE  Drop!Next \/ UNCHANGED Lives
<1>1. /\ UNCHANGED <<opening, moving, kept, offered, transfer>>
      /\ pending' = Pruned
      /\ Route([s \in Sessions |-> Denials(s)], room)
  BY DEF List, sessionVars, pumpVars
<1>2. PlacesInv /\ PlacesInv'
  BY OnePlace, OnePlaceNext
<1>3. \A t \in Sessions, i \in Ids : Accepts(cmds'[t], i) <=> Accepts(cmds[t], i)
  BY <1>1, DenialsAccept
<1>4. ASSUME NEW t \in Sessions, NEW i \in Ids
      PROVE  Life(t, i)' = IF <<t, i>> \in Pruning THEN "closed" ELSE Life(t, i)
  <2>1. /\ <<t, i>> \in Pruning <=> pending[i] = t /\ Pruned[i] # t
        /\ <<t, i>> \in Pruning => Life(t, i) = "waiting"
    BY PruningWaits
  <2>2. Pruned[i] \in {None, pending[i]}
    BY PrunedOffers DEF TransferInv
  <2>3. pending'[i] = t <=> pending[i] = t /\ <<t, i>> \notin Pruning
    BY <1>1, <2>1, <2>2, NoneApart
  <2>4. QED
    BY <1>1, <1>2, <1>3, <2>1, <2>3 DEF PlacesInv, Places, Moving, Held
<1>5. QED
  BY <1>4, PruningWaits, Lapses

\* The panel decides: what is overdue lapses, and the offer is accepted, unless
\* it is refused or its session does not hear of it.
LEMMA AnswerMoves ==
    ASSUME TransferInv, TransferInv', NEW id \in Ids, NEW accept \in BOOLEAN,
           NEW room \in SUBSET Sessions, Answer(id, accept, room)
    PROVE  Drop!Next \/ UNCHANGED Lives
<1> DEFINE answers == [t \in Sessions |->
                         IF t = pending[id] THEN Append(Denials(t), <<id, accept>>)
                         ELSE Denials(t)]
<1>1. /\ UNCHANGED <<opening, moving, kept, offered, transfer>>
      /\ Pruned[id] # None
      /\ pending' = [Pruned EXCEPT ![id] = None]
      /\ Route(answers, room)
  BY DEF Answer, sessionVars, pumpVars
<1>2. PlacesInv /\ PlacesInv' /\ TypeOK
  BY OnePlace, OnePlaceNext DEF TransferInv
<1>3. PICK s \in Sessions :
         s = pending[id] /\ Pruned[id] = s /\ Life(s, id) = "waiting"
  <2>1. Pruned[id] = pending[id] /\ pending[id] \in Sessions
    BY <1>1, <1>2 DEF Pruned, TypeOK
  <2>2. QED
    BY <1>2, <2>1 DEF PlacesInv, Places
<1>4. ASSUME NEW t \in Sessions
      PROVE  /\ cmds[t] \in Seq(Answers) /\ answers[t] \in Seq(Answers)
             /\ \A i \in Ids : Accepts(answers[t], i) <=> i = id /\ s = t /\ accept
  BY <1>1, <1>2, <1>3, AnswersSay DEF TypeOK
<1>5. \A t \in Sessions : cmds'[t] \in {cmds[t], cmds[t] \o answers[t]}
  BY <1>1 DEF Route
<1> HIDE DEF answers
<1>6. ASSUME NEW t \in Sessions, NEW i \in Ids
      PROVE  /\ Accepts(cmds[t], i) => Accepts(cmds'[t], i)
             /\ Accepts(cmds'[t], i) => \/ Accepts(cmds[t], i)
                                        \/ i = id /\ s = t
  <2>1. Accepts(cmds[t] \o answers[t], i) <=>
            Accepts(cmds[t], i) \/ (i = id /\ s = t /\ accept)
    BY <1>4, ConcatSays
  <2>2. QED
    BY <1>5, <2>1
<1>7. ASSUME NEW t \in Sessions, NEW i \in Ids
      PROVE  pending'[i] = t <=> /\ pending[i] = t
                                 /\ <<t, i>> \notin Pruning \union {<<s, id>>}
  <2>1. <<t, i>> \in Pruning <=> pending[i] = t /\ Pruned[i] # t
    BY PruningWaits
  <2>2. Pruned \in [Ids -> Sessions \union {None}] /\ Pruned[i] \in {None, pending[i]}
    BY <1>2, PrunedOffers
  <2>3. pending'[i] = IF i = id THEN None ELSE Pruned[i]
    BY <1>1, <2>2
  <2>4. i = id => pending[i] = s
    BY <1>3
  <2>5. QED
    BY <2>1, <2>2, <2>3, <2>4, NoneApart
<1>8. ASSUME NEW t \in Sessions, NEW i \in Ids, <<t, i>> \in Pruning
      PROVE  Life(t, i) = "waiting" /\ ~(t = s /\ i = id)
  BY <1>3, <1>8, PruningWaits
<1>9. ASSUME NEW t \in Sessions, NEW i \in Ids, ~(t = s /\ i = id)
      PROVE  Life(t, i)' = IF <<t, i>> \in Pruning THEN "closed" ELSE Life(t, i)
  BY <1>1, <1>2, <1>6, <1>7, <1>8, <1>9 DEF PlacesInv, Places, Moving, Held
<1>10. CASE Accepts(cmds'[s], id)
  <2>1. Life(s, id)' = "accepted"
    BY <1>2, <1>3, <1>10 DEF PlacesInv, Places
  <2>2. Drop!Advance(<<s, id>>, "waiting", "accepted", Pruning)
    BY <1>3, <1>9, <2>1, Advances
  <2>3. Pruning \in Drop!Lapsed /\ <<s, id>> \in Drop!Offers
    BY <1>3, PruningWaits DEF Drop!Lapsed, Drop!At, Drop!Offers, Offers
  <2>4. Drop!Accept(<<s, id>>)
    BY <2>2, <2>3 DEF Drop!Accept
  <2>5. QED
    BY <2>3, <2>4 DEF Drop!Next
<1>11. CASE ~Accepts(cmds'[s], id)
  <2> DEFINE S == Pruning \union {<<s, id>>}
  <2>1. Life(s, id)' = "closed"
    BY <1>1, <1>2, <1>3, <1>7, <1>11 DEF PlacesInv, Places, Moving, Held
  <2>2. S \in SUBSET Offers
    BY <1>3, PruningWaits DEF Offers
  <2>3. ASSUME NEW t \in Sessions, NEW i \in Ids
        PROVE  /\ <<t, i>> \in S => Life(t, i) \in {"waiting", "accepted", "receiving"}
               /\ Life(t, i)' = IF <<t, i>> \in S THEN "closed" ELSE Life(t, i)
    BY <1>3, <1>8, <1>9, <2>1
  <2>4. QED
    BY <2>2, <2>3, Lapses
<1>12. QED
  BY <1>10, <1>11

\* An offer that is made is new.
LEMMA OfferedNew ==
    ASSUME TransferInv, TransferInv', NEW s \in Sessions, NEW id \in Ids,
           OfferNow(s, id), UNCHANGED <<opening, transfer, moving, kept>>
    PROVE  /\ <<s, id>> \in Offers /\ Life(s, id) = "new" /\ pending[id] # s
           /\ <<s, id>> \notin Pruning
           /\ ~Accepts(cmds'[s], id) /\ pending'[id] # s => Life(s, id)' = "closed"
           /\ pending'[id] = s => Life(s, id)' = "waiting"
           /\ \A t \in Sessions, i \in Ids :
                <<t, i>> \in offered' <=> <<t, i>> \in offered \/ (t = s /\ i = id)
<1>1. PlacesInv /\ PlacesInv' /\ OfferInv(s, id)
  BY OnePlace, OnePlaceNext DEF TransferInv
<1>2. <<s, id>> \notin offered /\ offered' = offered \union {<<s, id>>}
  BY DEF OfferNow
<1>3. pending[id] # s /\ Life(s, id) = "new"
  BY <1>1, <1>2 DEF OfferInv, PlacesInv, Places
<1>4. <<s, id>> \notin Pruning
  BY <1>3, PruningWaits
<1>5. ~Accepts(cmds'[s], id) /\ pending'[id] # s => Life(s, id)' = "closed"
  BY <1>1, <1>2, <1>3 DEF PlacesInv, Places, Moving, Held
<1>6. pending'[id] = s => Life(s, id)' = "waiting"
  BY <1>1 DEF PlacesInv, Places
<1>7. QED
  BY <1>2, <1>3, <1>4, <1>5, <1>6 DEF Offers

\* An offer is denied on the spot.
LEMMA DenyOfferMoves ==
    ASSUME TransferInv, TransferInv', NEW s \in Sessions, NEW id \in Ids,
           DenyOffer(s, id)
    PROVE  Drop!Next \/ UNCHANGED Lives
<1>1. /\ UNCHANGED <<opening, transfer, moving, kept, pending, cmds>>
      /\ OfferNow(s, id)
  BY DEF DenyOffer, managerVars, sessionVars, pumpVars
<1>2. /\ <<s, id>> \in Offers /\ Life(s, id) = "new" /\ pending[id] # s
      /\ ~Accepts(cmds'[s], id) /\ pending'[id] # s => Life(s, id)' = "closed"
      /\ \A t \in Sessions, i \in Ids :
           <<t, i>> \in offered' <=> <<t, i>> \in offered \/ (t = s /\ i = id)
  BY <1>1, OfferedNew
<1>3. PlacesInv /\ PlacesInv'
  BY OnePlace, OnePlaceNext
<1>4. Life(s, id)' = "closed"
  BY <1>1, <1>2, <1>3 DEF PlacesInv, Places
<1>5. ASSUME NEW t \in Sessions, NEW i \in Ids, ~(t = s /\ i = id)
      PROVE  Life(t, i)' = Life(t, i)
  <2>1. Places(t, i) /\ Places(t, i)'
    BY <1>3 DEF PlacesInv
  <2>2. /\ Moving(t, i)' <=> Moving(t, i)
        /\ Held(t, i)' <=> Held(t, i)
        /\ Accepts(cmds[t], i)' <=> Accepts(cmds[t], i)
    BY <1>1 DEF Moving, Held
  <2>3. <<t, i>> \in offered' <=> <<t, i>> \in offered
    BY <1>2, <1>5
  <2>4. QED
    BY <1>1, <2>1, <2>2, <2>3 DEF Places
<1>6. Drop!Advance(<<s, id>>, "new", "closed", {})
  BY <1>2, <1>4, <1>5, Advances
<1>7. {} \in Drop!Lapsed /\ <<s, id>> \in Drop!Offers
  BY <1>2 DEF Drop!Lapsed, Drop!Offers, Offers
<1>8. QED
  BY <1>6, <1>7 DEF Drop!Refuse, Drop!Next

\* register prunes, and takes the offer or refuses it.
LEMMA RegisteredMoves ==
    ASSUME TransferInv, TransferInv', NEW s \in Sessions, NEW id \in Ids,
           NEW room \in SUBSET Sessions,
           DuplicateOffer(s, id, room) \/ RegisterOffer(s, id, room)
    PROVE  Drop!Next \/ UNCHANGED Lives
<1>1. /\ UNCHANGED <<opening, transfer, moving, kept>>
      /\ OfferNow(s, id)
      /\ Route([t \in Sessions |-> Denials(t)], room)
      /\ \/ pending' = Pruned
         \/ pending' = [Pruned EXCEPT ![id] = s] /\ Pruned[id] = None
  <2>1. CASE DuplicateOffer(s, id, room)
    BY <2>1 DEF DuplicateOffer, sessionVars, pumpVars
  <2>2. CASE RegisterOffer(s, id, room)
    BY <2>2 DEF RegisterOffer, sessionVars
  <2>3. QED
    BY <2>1, <2>2
<1>2. /\ <<s, id>> \in Offers /\ Life(s, id) = "new" /\ pending[id] # s
      /\ <<s, id>> \notin Pruning
      /\ ~Accepts(cmds'[s], id) /\ pending'[id] # s => Life(s, id)' = "closed"
      /\ pending'[id] = s => Life(s, id)' = "waiting"
      /\ \A t \in Sessions, i \in Ids :
           <<t, i>> \in offered' <=> <<t, i>> \in offered \/ (t = s /\ i = id)
  BY <1>1, OfferedNew
<1>3. PlacesInv /\ PlacesInv' /\ TypeOK
  BY OnePlace, OnePlaceNext DEF TransferInv
<1>4. \A t \in Sessions, i \in Ids : Accepts(cmds'[t], i) <=> Accepts(cmds[t], i)
  BY <1>1, DenialsAccept
<1>5. ASSUME NEW t \in Sessions, NEW i \in Ids, ~(t = s /\ i = id)
      PROVE  /\ pending'[i] = t <=> pending[i] = t /\ <<t, i>> \notin Pruning
             /\ <<t, i>> \in Pruning => Life(t, i) = "waiting"
  <2>1. /\ <<t, i>> \in Pruning <=> pending[i] = t /\ Pruned[i] # t
        /\ <<t, i>> \in Pruning => Life(t, i) = "waiting"
    BY PruningWaits
  <2>2. Pruned \in [Ids -> Sessions \union {None}] /\ Pruned[i] \in {None, pending[i]}
    BY <1>3, PrunedOffers
  <2>3. pending'[i] = t <=> Pruned[i] = t
    <3>1. CASE pending' = Pruned
      BY <3>1
    <3>2. CASE pending' = [Pruned EXCEPT ![id] = s] /\ i # id
      BY <2>2, <3>2
    <3>3. CASE pending' = [Pruned EXCEPT ![id] = s] /\ Pruned[id] = None /\ i = id
      <4>1. pending'[i] = s /\ s # t /\ Pruned[i] = None
        BY <1>5, <2>2, <3>3
      <4>2. QED
        BY <3>3, <4>1, NoneApart
    <3>4. QED
      BY <1>1, <3>1, <3>2, <3>3
  <2>4. QED
    BY <2>1, <2>2, <2>3, NoneApart
<1>6. ASSUME NEW t \in Sessions, NEW i \in Ids, ~(t = s /\ i = id)
      PROVE  Life(t, i)' = IF <<t, i>> \in Pruning THEN "closed" ELSE Life(t, i)
  BY <1>1, <1>2, <1>3, <1>4, <1>5, <1>6 DEF PlacesInv, Places, Moving, Held
<1>7. Pruning \in Drop!Lapsed /\ <<s, id>> \in Drop!Offers
  <2>1. \A p \in Pruning : p \in Offers /\ Lives[p] = "waiting"
    BY PruningWaits DEF Lives, Offers
  <2>2. QED
    BY <1>2, <2>1 DEF Drop!Lapsed, Drop!At, Drop!Offers, Lives, Offers
<1>8. CASE pending'[id] = s
  <2>1. Drop!Advance(<<s, id>>, "new", "waiting", Pruning)
    BY <1>2, <1>6, <1>8, Advances
  <2>2. QED
    BY <1>7, <2>1 DEF Drop!Offer, Drop!Next
<1>9. CASE pending'[id] # s
  <2>1. Life(s, id)' = "closed"
    BY <1>2, <1>3, <1>4, <1>9 DEF PlacesInv, Places
  <2>2. Drop!Advance(<<s, id>>, "new", "closed", Pruning)
    BY <1>2, <1>6, <2>1, Advances
  <2>3. QED
    BY <1>7, <2>2 DEF Drop!Refuse, Drop!Next
<1>10. QED
  BY <1>8, <1>9

\* The transfer a session receives, if any, is given up.
LEMMA GiveUpMoves ==
    ASSUME TransferInv, TransferInv', NEW s \in Sessions, Discard(s),
           UNCHANGED <<managerVars, cmds, flag, sup, opening, pumpVars, files, history>>
    PROVE  Drop!Next \/ UNCHANGED Lives
<1>1. /\ UNCHANGED <<pending, cmds, opening, moving, kept, offered>>
      /\ transfer' = [transfer EXCEPT ![s] = None]
  BY DEF managerVars, pumpVars, history, Discard
<1>2. PlacesInv /\ PlacesInv' /\ TypeOK
  BY OnePlace, OnePlaceNext DEF TransferInv
<1>3. \A t \in Sessions, i \in Ids : Held(t, i)' <=> Held(t, i) /\ t # s
  BY <1>1, <1>2 DEF TypeOK, Held
<1>4. CASE transfer[s] = None
  BY <1>1, <1>3, <1>4, PlacesUntouched DEF Held
<1>5. CASE transfer[s] # None
  <2>1. PICK id \in Ids : Held(s, id)
    BY <1>2, <1>5 DEF TypeOK, Receipts, Held
  <2>2. ASSUME NEW t \in Sessions, NEW i \in Ids
        PROVE  Life(t, i)' = IF t = s /\ i = id THEN "closed" ELSE Life(t, i)
    <3>1. Held(s, i) <=> i = id
      BY <2>1 DEF Held
    <3>2. Places(t, i) /\ Places(t, i)'
      BY <1>2 DEF PlacesInv
    <3>3. /\ Moving(t, i)' <=> Moving(t, i)
          /\ Accepts(cmds[t], i)' <=> Accepts(cmds[t], i)
      BY <1>1 DEF Moving
    <3>4. Held(t, i)' <=> Held(t, i) /\ t # s
      BY <1>3
    <3>5. QED
      BY <1>1, <3>1, <3>2, <3>3, <3>4 DEF Places
  <2>3. Life(s, id) = "receiving" /\ <<s, id>> \in Drop!Offers
    BY <1>2, <2>1 DEF PlacesInv, Places, Drop!Offers
  <2>4. Drop!Advance(<<s, id>>, "receiving", "closed", {})
    BY <2>2, <2>3, Advances
  <2>5. QED
    BY <2>3, <2>4 DEF Drop!GiveUp, Drop!Next
<1>6. QED
  BY <1>4, <1>5

\* The received file is complete, or given up.
LEMMA EndMoves ==
    ASSUME TransferInv, TransferInv', NEW s \in Sessions, NEW id \in Ids, End(s, id)
    PROVE  Drop!Next \/ UNCHANGED Lives
<1>1. CASE ~(transfer[s].received = Size /\ transfer[s].good)
  <2>1. /\ Discard(s)
        /\ UNCHANGED <<managerVars, cmds, flag, sup, opening, pumpVars, files, history>>
    BY <1>1 DEF End
  <2>2. QED
    BY <2>1, GiveUpMoves
<1>2. CASE transfer[s].received = Size /\ transfer[s].good
  <2>1. /\ UNCHANGED <<pending, cmds, opening, kept, offered>>
        /\ Held(s, id) /\ pump[s] = "reading"
        /\ transfer' = [transfer EXCEPT ![s] = None]
        /\ \E to : moving' = [moving EXCEPT ![s] = [id |-> id, to |-> to]]
        /\ pump' = [pump EXCEPT ![s] = "moving"]
    BY <1>2 DEF End, Receives, managerVars, history
  <2>2. PlacesInv /\ PlacesInv' /\ TypeOK /\ TypeOK'
    BY OnePlace, OnePlaceNext DEF TransferInv
  <2>3. Moving(s, id)'
    <3>1. moving'[s].id = id /\ pump'[s] = "moving"
      BY <2>1, <2>2 DEF TypeOK
    <3>2. moving'[s] # None
      BY <2>2, <3>1 DEF TypeOK
    <3>3. QED
      BY <3>1, <3>2 DEF Moving
  <2>4. Life(s, id) = "receiving" /\ Life(s, id)' = "complete"
    BY <2>1, <2>2, <2>3 DEF PlacesInv, Places
  <2>5. ASSUME NEW t \in Sessions, NEW i \in Ids, ~(t = s /\ i = id)
        PROVE  Life(t, i)' = Life(t, i)
    <3>1. Places(t, i) /\ Places(t, i)'
      BY <2>2 DEF PlacesInv
    <3>2. t = s => ~Moving(t, i) /\ ~Moving(t, i)' /\ ~Held(t, i) /\ ~Held(t, i)'
      <4>1. moving[s] = None /\ transfer'[s] = None
        BY <2>1, <2>2 DEF TypeOK
      <4>2. QED
        BY <2>1, <2>3, <2>5, <4>1 DEF Moving, Held
    <3>3. t # s => /\ Moving(t, i)' <=> Moving(t, i)
                   /\ Held(t, i)' <=> Held(t, i)
      BY <2>1, <2>2 DEF TypeOK, Moving, Held
    <3>4. Accepts(cmds[t], i)' <=> Accepts(cmds[t], i)
      BY <2>1
    <3>5. QED
      BY <2>1, <3>1, <3>2, <3>3, <3>4 DEF Places
  <2>6. Drop!Advance(<<s, id>>, "receiving", "complete", {})
    BY <2>4, <2>5, Advances
  <2>7. <<s, id>> \in Drop!Offers
    BY DEF Drop!Offers
  <2>8. QED
    BY <2>6, <2>7 DEF Drop!Complete, Drop!Next
<1>3. QED
  BY <1>1, <1>2

\* The file is moved to its destination, or the move fails.
LEMMA MoveMoves ==
    ASSUME TransferInv, TransferInv', NEW s \in Sessions, NEW ok \in BOOLEAN,
           Move(s, ok)
    PROVE  Drop!Next \/ UNCHANGED Lives
<1>1. /\ UNCHANGED <<pending, cmds, opening, transfer, offered>>
      /\ pump[s] = "moving"
      /\ moving' = [moving EXCEPT ![s] = None]
      /\ kept' = IF ok THEN kept \union {<<s, moving[s].id>>} ELSE kept
  BY DEF Move, managerVars, sessionVars
<1>2. PlacesInv /\ PlacesInv' /\ TypeOK
  BY OnePlace, OnePlaceNext DEF TransferInv
<1>3. PICK id \in Ids : Moving(s, id)
  BY <1>1, <1>2 DEF TypeOK, Moves, Moving
<1>4. /\ kept' = IF ok THEN kept \union {<<s, id>>} ELSE kept
      /\ \A i \in Ids : Moving(s, i) <=> i = id
  BY <1>1, <1>3 DEF Moving
<1>5. \A t \in Sessions, i \in Ids : Moving(t, i)' <=> Moving(t, i) /\ t # s
  BY <1>1, <1>2 DEF TypeOK, Moving
<1>6. Life(s, id) = "complete" /\ <<s, id>> \in Drop!Offers
  BY <1>2, <1>3 DEF PlacesInv, Places, Drop!Offers
<1>7. Life(s, id)' = IF ok THEN "stored" ELSE "closed"
  <2>1. Places(s, id) /\ Places(s, id)' /\ ~Moving(s, id)'
    BY <1>2, <1>5 DEF PlacesInv
  <2>2. /\ Held(s, id)' <=> Held(s, id)
        /\ Accepts(cmds[s], id)' <=> Accepts(cmds[s], id)
    BY <1>1 DEF Held
  <2>3. QED
    BY <1>1, <1>4, <1>6, <2>1, <2>2 DEF Places
<1>8. ASSUME NEW t \in Sessions, NEW i \in Ids, ~(t = s /\ i = id)
      PROVE  Life(t, i)' = Life(t, i)
  <2>1. Places(t, i) /\ Places(t, i)'
    BY <1>2 DEF PlacesInv
  <2>2. /\ Held(t, i)' <=> Held(t, i)
        /\ Accepts(cmds[t], i)' <=> Accepts(cmds[t], i)
    BY <1>1 DEF Held
  <2>3. Moving(t, i)' <=> Moving(t, i)
    BY <1>4, <1>5, <1>8
  <2>4. <<t, i>> \in kept' <=> <<t, i>> \in kept
    BY <1>4, <1>8
  <2>5. QED
    BY <1>1, <2>1, <2>2, <2>3, <2>4 DEF Places
<1>9. CASE ok
  <2>1. Drop!Advance(<<s, id>>, "complete", "stored", {})
    BY <1>6, <1>7, <1>8, <1>9, Advances
  <2>2. QED
    BY <1>6, <2>1 DEF Drop!Keep, Drop!Next
<1>10. CASE ~ok
  <2>1. Drop!Advance(<<s, id>>, "complete", "closed", {})
    BY <1>6, <1>7, <1>8, <1>10, Advances
  <2>2. QED
    BY <1>6, <2>1 DEF Drop!GiveUp, Drop!Next
<1>11. QED
  BY <1>9, <1>10

\* An answer is taken: a denied offer is over already, an accepted one is still
\* accepted while it is being opened.
LEMMA TakeAnswerMoves ==
    ASSUME TransferInv, TransferInv', NEW s \in Sessions, TakeAnswer(s)
    PROVE  UNCHANGED Lives
<1>1. /\ UNCHANGED <<pending, transfer, moving, kept, offered>>
      /\ opening[s] = None /\ cmds[s] # <<>>
      /\ cmds' = [cmds EXCEPT ![s] = Tail(@)]
      /\ opening' = IF Head(cmds[s])[2] THEN [opening EXCEPT ![s] = Head(cmds[s])[1]]
                    ELSE opening
  BY DEF TakeAnswer, managerVars, pumpVars
<1>2. PlacesInv /\ PlacesInv' /\ TypeOK
  BY OnePlace, OnePlaceNext DEF TransferInv
<1>3. /\ Head(cmds[s])[1] \in Ids
      /\ \A t \in Sessions, i \in Ids :
           (t # s \/ i # Head(cmds[s])[1]) =>
              (Accepts(cmds'[t], i) <=> Accepts(cmds[t], i))
      /\ \A t \in Sessions, i \in Ids :
           Says(cmds'[t], i) <=> Says(cmds[t], i) /\ ~(t = s /\ i = Head(cmds[s])[1])
      /\ Accepts(cmds[s], Head(cmds[s])[1]) <=> Head(cmds[s])[2]
  BY <1>1, TakenQueue
<1>4. PICK id \in Ids : id = Head(cmds[s])[1]
  BY <1>3
<1>5. cmds'[s] \in Seq(Answers) /\ ~Accepts(cmds'[s], id)
  <2>1. cmds'[s] \in Seq(Answers)
    BY DEF TransferInv, TypeOK
  <2>2. ~Says(cmds'[s], id)
    BY <1>3, <1>4
  <2>3. QED
    BY <2>1, <2>2, AcceptsSays
<1>6. ASSUME NEW t \in Sessions, NEW i \in Ids
      PROVE  opening[t] = i \/ Accepts(cmds[t], i)
                <=> opening'[t] = i \/ Accepts(cmds'[t], i)
  <2>1. CASE Head(cmds[s])[2]
    <3>1. opening'[t] = IF t = s THEN id ELSE opening[t]
      BY <1>1, <1>2, <1>4, <2>1 DEF TypeOK
    <3>2. Accepts(cmds[s], id)
      BY <1>3, <1>4, <2>1
    <3>3. QED
      BY <1>1, <1>3, <1>4, <1>5, <3>1, <3>2, NoneApart
  <2>2. CASE ~Head(cmds[s])[2]
    BY <1>1, <1>3, <1>4, <1>5, <2>2
  <2>3. QED
    BY <2>1, <2>2
<1>7. ASSUME NEW t \in Sessions, NEW i \in Ids PROVE Life(t, i)' = Life(t, i)
  <2>1. Places(t, i) /\ Places(t, i)'
    BY <1>2 DEF PlacesInv
  <2>2. /\ Held(t, i)' <=> Held(t, i)
        /\ Moving(t, i)' <=> Moving(t, i)
    BY <1>1 DEF Held, Moving
  <2>3. QED
    BY <1>1, <1>6, <2>1, <2>2 DEF Places
<1>8. QED
  BY <1>7, Stays

\* The offer is received from here on; what the session received before is over.
LEMMA OpenMoves ==
    ASSUME TransferInv, TransferInv', NEW s \in Sessions, Open(s)
    PROVE  Drop!Next \/ UNCHANGED Lives
<1>1. /\ UNCHANGED <<pending, cmds, moving, kept, offered>>
      /\ opening[s] # None
      /\ opening' = [opening EXCEPT ![s] = None]
      /\ transfer' = [transfer EXCEPT ![s] =
                        [id |-> opening[s], received |-> 0, good |-> TRUE]]
  BY DEF Open, managerVars, pumpVars
<1>2. PlacesInv /\ PlacesInv' /\ TypeOK /\ TypeOK'
  BY OnePlace, OnePlaceNext DEF TransferInv
<1>3. PICK id \in Ids : opening[s] = id
  BY <1>1, <1>2 DEF TypeOK
<1>4. ASSUME NEW t \in Sessions, NEW i \in Ids
      PROVE  /\ Held(t, i)' <=> IF t = s THEN i = id ELSE Held(t, i)
             /\ opening'[t] = i <=> opening[t] = i /\ t # s
  <2>1. /\ transfer'[s] = [id |-> id, received |-> 0, good |-> TRUE]
        /\ t # s => transfer'[t] = transfer[t]
        /\ opening'[t] = IF t = s THEN None ELSE opening[t]
    BY <1>1, <1>2, <1>3 DEF TypeOK
  <2>2. transfer'[s] # None /\ transfer'[s].id = id
    <3>1. transfer'[s] \in Receipts
      BY <1>3, <2>1, SizeAssumption DEF Receipts
    <3>2. transfer'[s].id = id
      BY <2>1
    <3>3. QED
      BY <3>1, <3>2, NoneApart
  <2>3. Held(t, i)' <=> IF t = s THEN i = id ELSE Held(t, i)
    BY <2>1, <2>2 DEF Held
  <2>4. QED
    BY <2>1, <2>3, NoneApart
<1> DEFINE S == {p \in Drop!At("receiving") : p[1] = s}
<1>5. ASSUME NEW t \in Sessions, NEW i \in Ids
      PROVE  <<t, i>> \in S <=> t = s /\ Held(t, i)
  <2>1. <<t, i>> \in S <=> Life(t, i) = "receiving" /\ t = s
    BY DEF Drop!At, Drop!Offers, Offers
  <2>2. QED
    BY <1>2, <2>1 DEF PlacesInv, Places
<1> HIDE DEF S
<1>6. Life(s, id) = "accepted" /\ Life(s, id)' = "receiving"
  BY <1>2, <1>3, <1>4 DEF PlacesInv, Places
<1>7. ASSUME NEW t \in Sessions, NEW i \in Ids, ~(t = s /\ i = id)
      PROVE  Life(t, i)' = IF <<t, i>> \in S THEN "closed" ELSE Life(t, i)
  <2>1. Places(t, i) /\ Places(t, i)'
    BY <1>2 DEF PlacesInv
  <2>2. /\ Moving(t, i)' <=> Moving(t, i)
        /\ Accepts(cmds[t], i)' <=> Accepts(cmds[t], i)
    BY <1>1 DEF Moving
  <2>3. /\ Held(t, i)' <=> Held(t, i) /\ t # s
        /\ opening'[t] = i <=> opening[t] = i
    BY <1>3, <1>4, <1>7
  <2>4. <<t, i>> \in S <=> t = s /\ Held(t, i)
    BY <1>5
  <2>5. QED
    BY <1>1, <2>1, <2>2, <2>3, <2>4 DEF Places
<1>8. Drop!Advance(<<s, id>>, "accepted", "receiving", S)
  BY <1>6, <1>7, Advances
<1>9. <<s, id>> \in Drop!Offers /\ <<s, id>>[1] = s
  BY DEF Drop!Offers
<1>10. Drop!Start(<<s, id>>)
  BY <1>8, <1>9 DEF Drop!Start, S
<1>11. QED
  BY <1>9, <1>10 DEF Drop!Next

\* The .part file cannot be created: the offer is over.
LEMMA OpenFailsMoves ==
    ASSUME TransferInv, TransferInv', NEW s \in Sessions, OpenFails(s)
    PROVE  Drop!Next \/ UNCHANGED Lives
<1>1. /\ UNCHANGED <<pending, cmds, moving, kept, offered, transfer>>
      /\ opening[s] # None
      /\ opening' = [opening EXCEPT ![s] = None]
  BY DEF OpenFails, managerVars, pumpVars
<1>2. PlacesInv /\ PlacesInv' /\ TypeOK
  BY OnePlace, OnePlaceNext DEF TransferInv
<1>3. PICK id \in Ids : opening[s] = id
  BY <1>1, <1>2 DEF TypeOK
<1>4. Life(s, id) = "accepted" /\ <<s, id>> \in Drop!Offers /\ ~Accepts(cmds[s], id)
  <2>1. ~Says(cmds[s], id)
    BY <1>3 DEF TransferInv, OfferInv
  <2>2. ~Accepts(cmds[s], id)
    BY <1>2, <2>1, AcceptsSays DEF TypeOK
  <2>3. QED
    BY <1>2, <1>3, <2>2 DEF PlacesInv, Places, Drop!Offers
<1>5. ASSUME NEW t \in Sessions, NEW i \in Ids
      PROVE  Life(t, i)' = IF t = s /\ i = id THEN "closed" ELSE Life(t, i)
  <2>1. Places(t, i) /\ Places(t, i)'
    BY <1>2 DEF PlacesInv
  <2>2. /\ Moving(t, i)' <=> Moving(t, i)
        /\ Held(t, i)' <=> Held(t, i)
        /\ Accepts(cmds[t], i)' <=> Accepts(cmds[t], i)
    BY <1>1 DEF Moving, Held
  <2>3. opening'[t] = i <=> opening[t] = i /\ ~(t = s /\ i = id)
    BY <1>1, <1>2, <1>3, NoneApart DEF TypeOK
  <2>4. QED
    BY <1>1, <1>4, <2>1, <2>2, <2>3 DEF Places
<1>6. Drop!Advance(<<s, id>>, "accepted", "closed", {})
  BY <1>4, <1>5, Advances
<1>7. QED
  BY <1>4, <1>6 DEF Drop!GiveUp, Drop!Next

-----------------------------------------------------------------------------
(***************************************************************************)
(* Sessions that end.                                                      *)
(***************************************************************************)
\* All offers of the device that wait lapse, and what the session receives.
LEMMA LeaveLapses ==
    ASSUME TransferInv, TransferInv', NEW s \in Sessions, Leave(s)
    PROVE  Drop!Next \/ UNCHANGED Lives
<1>1. /\ UNCHANGED <<cmds, opening, moving, kept, offered>>
      /\ transfer' = [transfer EXCEPT ![s] = None]
      /\ pending' = [id \in Ids |-> None]
  BY DEF Leave, Discard, pumpVars
<1>2. PlacesInv /\ PlacesInv' /\ TypeOK
  BY OnePlace, OnePlaceNext DEF TransferInv
<1> DEFINE S == {o \in Offers : \/ Lives[o] = "waiting"
                                \/ Lives[o] = "receiving" /\ o[1] = s}
<1>3. ASSUME NEW t \in Sessions, NEW i \in Ids
      PROVE  <<t, i>> \in S <=> \/ Life(t, i) = "waiting"
                                \/ Life(t, i) = "receiving" /\ t = s
  BY DEF Lives, Offers
<1>4. S \in SUBSET Offers
  OBVIOUS
<1> HIDE DEF S
<1>5. ASSUME NEW t \in Sessions, NEW i \in Ids
      PROVE  /\ <<t, i>> \in S => Life(t, i) \in {"waiting", "accepted", "receiving"}
             /\ Life(t, i)' = IF <<t, i>> \in S THEN "closed" ELSE Life(t, i)
  <2>1. Places(t, i) /\ Places(t, i)'
    BY <1>2 DEF PlacesInv
  <2>2. /\ Moving(t, i)' <=> Moving(t, i)
        /\ Held(t, i)' <=> Held(t, i) /\ t # s
        /\ Accepts(cmds[t], i)' <=> Accepts(cmds[t], i)
    BY <1>1, <1>2 DEF TypeOK, Moving, Held
  <2>3. pending'[i] # t
    BY <1>1, NoneApart
  <2>4. <<t, i>> \in S <=> \/ Life(t, i) = "waiting"
                           \/ Life(t, i) = "receiving" /\ t = s
    BY <1>3
  <2>5. QED
    BY <1>1, <2>1, <2>2, <2>3, <2>4 DEF Places
<1>6. QED
  BY <1>4, <1>5, Lapses

\* The acceptances in the queue go with it.
LEMMA AbortPumpLapses ==
    ASSUME TransferInv, TransferInv', NEW s \in Sessions, AbortPump(s)
    PROVE  Drop!Next \/ UNCHANGED Lives
<1>1. /\ UNCHANGED <<pending, opening, transfer, moving, kept, offered>>
      /\ sup[s] = "leaving"
      /\ cmds' = [cmds EXCEPT ![s] = <<>>]
  BY DEF AbortPump, managerVars, pumpVars, diskVars, history
<1>2. PlacesInv /\ PlacesInv' /\ TypeOK
  BY OnePlace, OnePlaceNext DEF TransferInv
<1>3. opening[s] = None
  BY <1>1, <1>2 DEF TypeOK
<1>4. \A i : ~Accepts(<<>>, i)
  BY DEF Accepts, ToSet
<1> DEFINE S == {o \in Offers : o[1] = s /\ Accepts(cmds[s], o[2])}
<1>5. ASSUME NEW t \in Sessions, NEW i \in Ids
      PROVE  <<t, i>> \in S <=> t = s /\ Accepts(cmds[t], i)
  BY DEF Offers
<1>6. S \in SUBSET Offers
  OBVIOUS
<1> HIDE DEF S
<1>7. ASSUME NEW t \in Sessions, NEW i \in Ids
      PROVE  /\ <<t, i>> \in S => Life(t, i) \in {"waiting", "accepted", "receiving"}
             /\ Life(t, i)' = IF <<t, i>> \in S THEN "closed" ELSE Life(t, i)
  <2>1. Places(t, i) /\ Places(t, i)'
    BY <1>2 DEF PlacesInv
  <2>2. /\ Moving(t, i)' <=> Moving(t, i)
        /\ Held(t, i)' <=> Held(t, i)
    BY <1>1 DEF Moving, Held
  <2>3. Accepts(cmds[t], i)' <=> Accepts(cmds[t], i) /\ t # s
    BY <1>1, <1>2, <1>4 DEF TypeOK
  <2>4. <<t, i>> \in S <=> t = s /\ Accepts(cmds[t], i)
    BY <1>5
  <2>5. t = s => opening[t] # i
    BY <1>3, NoneApart
  <2>6. QED
    BY <1>1, <2>1, <2>2, <2>3, <2>4, <2>5 DEF Places
<1>8. QED
  BY <1>6, <1>7, Lapses

-----------------------------------------------------------------------------
\* Before the first offer, all are new.
LEMMA InitNew == Init => Drop!Init
<1> SUFFICES ASSUME Init PROVE Drop!Init
  OBVIOUS
<1>1. PlacesInv /\ offered = {}
  BY InitHolds, OnePlace DEF Init
<1>2. \A t \in Sessions, i \in Ids : Life(t, i) = "new"
  BY <1>1 DEF PlacesInv, Places
<1>3. QED
  BY <1>2 DEF Drop!Init, Drop!Offers, Offers

\* Every step is a step of FileDrop or moves no offer.
LEMMA NextMoves ==
    ASSUME TransferInv, TransferInv', [Next]_vars
    PROVE  Drop!Next \/ UNCHANGED Lives
<1>1. CASE Panel
  BY <1>1, ListLapses, AnswerMoves DEF Panel, Lists
<1>2. ASSUME NEW id \in Ids, Expire(id) PROVE UNCHANGED Lives
  <2>1. UNCHANGED <<pending, cmds, opening, moving, kept, offered, transfer>>
    BY <1>2 DEF Expire, sessionVars, pumpVars, history
  <2>2. QED
    BY <2>1, PlacesUntouched DEF Held
<1>3. ASSUME NEW s \in Sessions, Viewer(s) PROVE Drop!Next \/ UNCHANGED Lives
  <2>1. ASSUME NEW id \in Ids, DenyOffer(s, id) \/ End(s, id)
        PROVE  Drop!Next \/ UNCHANGED Lives
    BY <2>1, DenyOfferMoves, EndMoves
  <2>2. ASSUME NEW id \in Ids, Abort(s, id) PROVE Drop!Next \/ UNCHANGED Lives
    BY <2>2, GiveUpMoves DEF Abort
  <2>3. ASSUME NEW id \in Ids, NEW room \in SUBSET Sessions,
               DuplicateOffer(s, id, room) \/ RegisterOffer(s, id, room)
        PROVE  Drop!Next \/ UNCHANGED Lives
    BY <2>3, RegisteredMoves
  <2>4. ASSUME NEW id \in Ids, NEW good \in BOOLEAN, Chunk(s, id, good)
        PROVE  UNCHANGED Lives
    <3>1. UNCHANGED <<pending, cmds, opening, moving, kept, offered>>
      BY <2>4 DEF Chunk, managerVars, pumpVars, history
    <3>2. QED
      BY <2>4, <3>1, ChunkReceipt, PlacesUntouched
  <2>5. CASE BadChunk(s)
    BY <2>5, GiveUpMoves DEF BadChunk
  <2>6. QED
    BY <1>3, <2>1, <2>2, <2>3, <2>4, <2>5 DEF Viewer
<1>4. ASSUME NEW s \in Sessions, Supervisor(s) PROVE Drop!Next \/ UNCHANGED Lives
  BY <1>4, TakeAnswerMoves, OpenMoves, OpenFailsMoves DEF Supervisor
<1>5. ASSUME NEW s \in Sessions, Pump(s) PROVE Drop!Next \/ UNCHANGED Lives
  <2>1. CASE RaiseFlag(s)
    <3>1. UNCHANGED <<pending, cmds, opening, moving, kept, offered, transfer>>
      BY <2>1 DEF RaiseFlag, managerVars, history
    <3>2. QED
      BY <3>1, PlacesUntouched DEF Held
  <2>2. QED
    BY <1>5, <2>1, MoveMoves DEF Pump
<1>6. ASSUME NEW s \in Sessions, Leave(s) \/ AbortPump(s)
      PROVE  Drop!Next \/ UNCHANGED Lives
  BY <1>6, LeaveLapses, AbortPumpLapses
<1>7. CASE UNCHANGED vars
  <2>1. UNCHANGED <<pending, cmds, opening, moving, kept, offered, transfer>>
    BY <1>7 DEF vars, managerVars, sessionVars, pumpVars, history
  <2>2. QED
    BY <2>1, PlacesUntouched DEF Held
<1>8. QED
  BY <1>1, <1>2, <1>3, <1>4, <1>5, <1>6, <1>7 DEF Next

\* "Nothing touches the disk without an explicit per-transfer accept": the
\* transfers implement FileDrop.
THEOREM FileDropImplemented == Spec => DropSpec
<1>1. TransferInv /\ TransferInv' /\ [Next]_vars => [Drop!Next]_Lives
  BY NextMoves
<1>2. Drop!Spec <=> Drop!Init /\ [][Drop!Next]_Lives
  BY DEF Drop!Spec, Lives
<1>3. QED
  BY <1>1, <1>2, InitNew, TransferInvariant, PTL DEF Spec, DropSpec

-----------------------------------------------------------------------------
(***************************************************************************)
(* No offer is forgotten.                                                  *)
(***************************************************************************)
\* The offer waits, is answered in the queue, or is being opened.
Placed(s, id) == pending[id] = s \/ Says(cmds[s], id) \/ opening[s] = id

\* An offer that is owed an answer.
Owed(s, id) ==
    /\ <<s, id>> \in offered /\ <<s, id>> \notin lost
    /\ told[<<s, id>>] = 0 /\ sup[s] = "running"

PlacedInv == \A s \in Sessions, id \in Ids : Owed(s, id) => Placed(s, id)

\* An answer that is routed is in its session's queue or lost.
LEMMA RouteReaches ==
    ASSUME TransferInv, NEW answers, NEW room, Route(answers, room),
           NEW s \in Sessions, NEW id \in Ids, answers[s] \in Seq(Answers)
    PROVE  /\ Says(cmds[s], id) => Says(cmds'[s], id)
           /\ Says(answers[s], id) => Says(cmds'[s], id) \/ <<s, id>> \in lost'
           /\ <<s, id>> \in lost => <<s, id>> \in lost'
<1> DEFINE reached == {t \in room : sup[t] # "ended"}
<1>1. /\ cmds'[s] = IF s \in reached THEN cmds[s] \o answers[s] ELSE cmds[s]
      /\ lost \subseteq lost'
      /\ cmds[s] \in Seq(Answers)
  BY DEF Route, TransferInv, TypeOK
<1>2. CASE s \in reached
  <2>1. cmds'[s] = cmds[s] \o answers[s]
    BY <1>1, <1>2
  <2>2. Says(cmds[s] \o answers[s], id) <=> Says(cmds[s], id) \/ Says(answers[s], id)
    BY <1>1, ConcatSays
  <2>3. Says(cmds'[s], id) <=> Says(cmds[s], id) \/ Says(answers[s], id)
    BY <2>1, <2>2
  <2>4. QED
    BY <1>1, <2>3, Zenon
<1>3. CASE s \notin reached
  <2>1. cmds'[s] = cmds[s]
    BY <1>1, <1>3
  <2>2. ASSUME Says(answers[s], id) PROVE <<s, id>> \in lost'
    <3>1. PICK i \in 1..Len(answers[s]) : answers[s][i][1] = id
      BY <2>2 DEF Says
    <3>2. answers[s][i] \in Answers /\ i \in DOMAIN answers[s]
      BY <3>1, LenProperties, ElementOfSeq
    <3>3. /\ answers[s][i] = <<answers[s][i][1], answers[s][i][2]>>
          /\ answers[s][i][2] \in BOOLEAN
      BY <3>2, ProductParts DEF Answers
    <3>4. \E b \in BOOLEAN : <<id, b>> \in ToSet(answers[s])
      <4>1. answers[s][i] \in ToSet(answers[s])
        BY <3>2 DEF ToSet
      <4>2. QED
        BY <3>1, <3>3, <4>1, Zenon
    <3>5. /\ <<s, id>> \in Offers /\ <<s, id>>[1] = s /\ <<s, id>>[2] = id
      BY PairParts DEF Offers
    <3> DEFINE gone == {o \in Offers : o[1] \notin reached /\
                          \E b \in BOOLEAN : <<o[2], b>> \in ToSet(answers[o[1]])}
    <3>6. <<s, id>> \in gone
      BY <1>3, <3>4, <3>5, Zenon
    <3>7. lost' = lost \union gone
      BY DEF Route
    <3>8. QED
      BY <3>6, <3>7
  <2>3. QED
    BY <1>1, <2>1, <2>2
<1>4. QED
  BY <1>2, <1>3

\* Routing: an offer that waits no more is answered, a new one waits or is denied.
LEMMA RoutedPlaced ==
    ASSUME TransferInv, PlacedInv, NEW answers, NEW room, Route(answers, room),
           \A s \in Sessions : answers[s] \in Seq(Answers),
           \A s \in Sessions, id \in Ids :
              pending[id] = s /\ pending'[id] # s => Says(answers[s], id),
           UNCHANGED <<opening, sup>>,
           \A s \in Sessions, id \in Ids :
              told'[<<s, id>>] = 0 =>
                 /\ told[<<s, id>>] = 0
                 /\ <<s, id>> \in offered' => <<s, id>> \in offered \/ pending'[id] = s
    PROVE  PlacedInv'
<1>1. ASSUME NEW s \in Sessions, NEW id \in Ids, Owed(s, id)'
      PROVE  Placed(s, id)'
  <2>1. /\ Says(cmds[s], id) => Says(cmds'[s], id)
        /\ Says(answers[s], id) => Says(cmds'[s], id)
        /\ <<s, id>> \notin lost
    BY <1>1, RouteReaches DEF Owed
  <2>2. CASE pending'[id] = s
    BY <2>2 DEF Placed
  <2>3. CASE pending'[id] # s
    <3>1. Owed(s, id)
      BY <1>1, <2>1, <2>3 DEF Owed
    <3>2. Placed(s, id)
      BY <3>1 DEF PlacedInv
    <3>3. QED
      BY <2>1, <2>3, <3>2 DEF Placed, Says
  <2>4. QED
    BY <2>2, <2>3
<1>2. QED
  BY <1>1 DEF PlacedInv

\* The panel's steps, and the pump's that reach the manager.
LEMMA RoutersPlace ==
    ASSUME TransferInv, PlacedInv, NEW room \in SUBSET Sessions,
           NEW s \in Sessions, NEW id \in Ids, NEW accept \in BOOLEAN,
           \/ List(room) \/ Answer(id, accept, room)
           \/ DuplicateOffer(s, id, room) \/ RegisterOffer(s, id, room)
    PROVE  PlacedInv'
<1> DEFINE denials == [t \in Sessions |-> Denials(t)]
<1>0. TypeOK /\ told \in [Offers -> 0..1] /\ pending \in [Ids -> Sessions \union {None}]
  BY DEF TransferInv, TypeOK
<1>1. /\ \A t \in Sessions : denials[t] \in Seq(Answers)
      /\ \A t \in Sessions, i \in Ids :
           Says(denials[t], i) <=> pending[i] = t /\ Pruned[i] # t
      /\ Pruned \in [Ids -> Sessions \union {None}]
      /\ \A i \in Ids : Pruned[i] \in {None, pending[i]}
  BY <1>0, PrunedOffers
<1>2. CASE List(room)
  <2>1. /\ Route(denials, room) /\ pending' = Pruned
        /\ UNCHANGED <<opening, sup, told, offered>>
    BY <1>2 DEF List, sessionVars
  <2> HIDE DEF denials
  <2>2. QED
    BY <1>1, <2>1, RoutedPlaced
<1>3. CASE Answer(id, accept, room)
  <2> DEFINE answers == [t \in Sessions |->
                           IF t = pending[id] THEN Append(Denials(t), <<id, accept>>)
                           ELSE Denials(t)]
  <2>1. /\ Route(answers, room) /\ pending' = [Pruned EXCEPT ![id] = None]
        /\ Pruned[id] # None
        /\ UNCHANGED <<opening, sup, told, offered>>
    BY <1>3 DEF Answer, sessionVars
  <2>2. /\ \A t \in Sessions : answers[t] \in Seq(Answers)
        /\ \A t \in Sessions, i \in Ids :
             Says(answers[t], i) <=> pending[i] = t /\ (i = id \/ Pruned[i] # t)
    BY <2>1, AnswersSay
  <2> HIDE DEF answers
  <2>3. \A t \in Sessions, i \in Ids :
          pending[i] = t /\ pending'[i] # t => Says(answers[t], i)
    BY <1>1, <2>1, <2>2
  <2>4. QED
    BY <2>1, <2>2, <2>3, RoutedPlaced
<1>4. CASE DuplicateOffer(s, id, room)
  <2>1. /\ Route(denials, room) /\ pending' = Pruned
        /\ UNCHANGED <<opening, sup>>
        /\ offered' = offered \union {<<s, id>>} /\ <<s, id>> \notin offered
        /\ Tell(<<s, id>>)
    BY <1>4 DEF DuplicateOffer, OfferNow, sessionVars
  <2>2. told[<<s, id>>] = 0
    BY <2>1 DEF TransferInv, OfferInv
  <2>3. \A t \in Sessions, i \in Ids :
          told'[<<t, i>>] = IF t = s /\ i = id THEN 1 ELSE told[<<t, i>>]
    BY <1>0, <2>1, <2>2, TellOnce
  <2>4. ASSUME NEW t \in Sessions, NEW i \in Ids, told'[<<t, i>>] = 0
        PROVE  /\ told[<<t, i>>] = 0
               /\ <<t, i>> \in offered' => <<t, i>> \in offered
    BY <2>1, <2>3, <2>4
  <2> HIDE DEF denials
  <2>5. QED
    BY <1>1, <2>1, <2>4, RoutedPlaced
<1>5. CASE RegisterOffer(s, id, room)
  <2>1. /\ Route(denials, room) /\ pending' = [Pruned EXCEPT ![id] = s]
        /\ Pruned[id] = None
        /\ UNCHANGED <<opening, sup, told>>
        /\ offered' = offered \union {<<s, id>>}
    BY <1>5 DEF RegisterOffer, OfferNow, sessionVars
  <2>2. \A t \in Sessions, i \in Ids :
          pending[i] = t /\ pending'[i] # t => Says(denials[t], i)
    BY <1>1, <2>1, NoneApart
  <2>3. ASSUME NEW t \in Sessions, NEW i \in Ids, <<t, i>> \in offered'
        PROVE  <<t, i>> \in offered \/ pending'[i] = t
    BY <1>1, <2>1, <2>3
  <2> HIDE DEF denials
  <2>4. QED
    BY <1>1, <2>1, <2>2, <2>3, RoutedPlaced
<1>6. QED
  BY <1>2, <1>3, <1>4, <1>5

\* Steps that leave the offers, or give one its answer.
LEMMA AnswersPlace ==
    ASSUME TransferInv, PlacedInv, NEW s \in Sessions, NEW id \in Ids,
           \/ DenyOffer(s, id) \/ Open(s) \/ OpenFails(s)
    PROVE  PlacedInv'
<1>0. TypeOK
  BY DEF TransferInv
<1>1. CASE DenyOffer(s, id)
  <2>1. /\ UNCHANGED <<pending, cmds, opening, sup, lost>>
        /\ offered' = offered \union {<<s, id>>} /\ <<s, id>> \notin offered
        /\ Tell(<<s, id>>)
    BY <1>1 DEF DenyOffer, OfferNow, managerVars, sessionVars
  <2>2. told[<<s, id>>] = 0
    BY <2>1 DEF TransferInv, OfferInv
  <2>3. \A t \in Sessions, i \in Ids :
          told'[<<t, i>>] = IF t = s /\ i = id THEN 1 ELSE told[<<t, i>>]
    BY <1>0, <2>1, <2>2, TellOnce
  <2>4. ASSUME NEW t \in Sessions, NEW i \in Ids, Owed(t, i)'
        PROVE  Owed(t, i)
    BY <2>1, <2>3, <2>4 DEF Owed
  <2>5. QED
    BY <2>1, <2>4 DEF PlacedInv, Placed
<1>2. CASE Open(s) \/ OpenFails(s)
  <2>1. /\ UNCHANGED <<pending, cmds, sup, lost, offered>>
        /\ opening[s] # None /\ Tell(<<s, opening[s]>>)
        /\ opening' = [opening EXCEPT ![s] = None]
    BY <1>2 DEF Open, OpenFails, managerVars
  <2>2. opening[s] \in Ids /\ opening \in [Sessions -> Ids \union {None}]
    BY <1>0, <2>1 DEF TypeOK
  <2>3. told[<<s, opening[s]>>] = 0
    BY <2>2 DEF TransferInv, OfferInv
  <2>4. \A t \in Sessions, i \in Ids :
          told'[<<t, i>>] = IF t = s /\ i = opening[s] THEN 1 ELSE told[<<t, i>>]
    BY <1>0, <2>1, <2>2, <2>3, TellOnce
  <2>5. ASSUME NEW t \in Sessions, NEW i \in Ids, Owed(t, i)'
        PROVE  Placed(t, i)'
    <3>1. Owed(t, i) /\ ~(t = s /\ i = opening[s])
      BY <2>1, <2>4, <2>5 DEF Owed
    <3>2. Placed(t, i)
      BY <3>1 DEF PlacedInv
    <3>3. opening[t] = i => opening'[t] = i
      BY <2>1, <2>2, <3>1
    <3>4. QED
      BY <2>1, <3>2, <3>3 DEF Placed
  <2>6. QED
    BY <2>5 DEF PlacedInv
<1>3. QED
  BY <1>1, <1>2

\* The supervisor takes an answer: it opens the file or tells the denial.
LEMMA TakePlaces ==
    ASSUME TransferInv, PlacedInv, NEW s \in Sessions, TakeAnswer(s)
    PROVE  PlacedInv'
<1> DEFINE id == Head(cmds[s])[1]
           accept == Head(cmds[s])[2]
<1>1. /\ UNCHANGED <<pending, offered, sup, lost>>
      /\ opening[s] = None /\ cmds[s] # <<>>
      /\ cmds' = [cmds EXCEPT ![s] = Tail(@)]
      /\ accept => opening' = [opening EXCEPT ![s] = id] /\ told' = told
      /\ ~accept => opening' = opening /\ Tell(<<s, id>>)
  BY DEF TakeAnswer, managerVars
<1>2. /\ id \in Ids
      /\ \A t \in Sessions, i \in Ids :
           Says(cmds'[t], i) <=> Says(cmds[t], i) /\ ~(t = s /\ i = id)
      /\ Says(cmds[s], id)
  BY <1>1, TakenQueue
<1> HIDE DEF id, accept
<1>3. /\ TypeOK /\ told[<<s, id>>] = 0
      /\ opening \in [Sessions -> Ids \union {None}]
  BY <1>2 DEF TransferInv, OfferInv, TypeOK
<1>4. ASSUME NEW t \in Sessions, NEW i \in Ids, Owed(t, i)'
      PROVE  Placed(t, i)'
  <2>1. CASE accept
    <3>1. Owed(t, i)
      BY <1>1, <1>4, <2>1 DEF Owed
    <3>2. Placed(t, i)
      BY <3>1 DEF PlacedInv
    <3>3. /\ opening[t] = i => opening'[t] = i
          /\ t = s /\ i = id => opening'[t] = i
      BY <1>1, <1>2, <1>3, <2>1, NoneApart
    <3>4. QED
      BY <1>1, <1>2, <3>2, <3>3 DEF Placed
  <2>2. CASE ~accept
    <3>1. \A u \in Sessions, j \in Ids :
            told'[<<u, j>>] = IF u = s /\ j = id THEN 1 ELSE told[<<u, j>>]
      BY <1>1, <1>2, <1>3, <2>2, TellOnce
    <3>2. Owed(t, i) /\ ~(t = s /\ i = id)
      BY <1>1, <1>4, <3>1 DEF Owed
    <3>3. Placed(t, i)
      BY <3>2 DEF PlacedInv
    <3>4. QED
      BY <1>1, <1>2, <2>2, <3>2, <3>3 DEF Placed
  <2>3. QED
    BY <2>1, <2>2
<1>5. QED
  BY <1>4 DEF PlacedInv

\* A session that ends loses the offers of the others with its own.
LEMMA LeavePlaces ==
    ASSUME TransferInv, PlacedInv, NEW s \in Sessions, Leave(s)
    PROVE  PlacedInv'
<1>0. sup \in [Sessions -> {"running", "leaving", "ended"}]
  BY DEF TransferInv, TypeOK
<1>1. /\ UNCHANGED <<cmds, opening, told, offered>>
      /\ sup' = [sup EXCEPT ![s] = "leaving"]
  BY DEF Leave
<1> DEFINE gone == {<<pending[id], id>> : id \in {i \in Ids : pending[i] \notin {None, s}}}
<1>2. lost' = lost \union gone
  BY DEF Leave
<1>3. ASSUME NEW t \in Sessions, NEW i \in Ids, Owed(t, i)'
      PROVE  Placed(t, i)'
  <2>1. t # s
    BY <1>0, <1>1, <1>3 DEF Owed
  <2>2. Owed(t, i) /\ <<t, i>> \notin gone
    BY <1>0, <1>1, <1>2, <1>3, <2>1 DEF Owed
  <2>3. pending[i] # t
    <3> SUFFICES ASSUME pending[i] = t PROVE FALSE
      OBVIOUS
    <3>1. pending[i] \notin {None, s}
      BY <2>1, NoneApart
    <3>2. <<pending[i], i>> \in gone
      BY <3>1
    <3>3. QED
      BY <2>2, <3>2
  <2>4. Placed(t, i)
    BY <2>2 DEF PlacedInv
  <2>5. QED
    BY <1>1, <2>3, <2>4 DEF Placed
<1>4. QED
  BY <1>3 DEF PlacedInv

\* Steps that touch no offer.
LEMMA OthersPlace ==
    ASSUME TransferInv, PlacedInv, NEW s \in Sessions, NEW id \in Ids,
           \/ Expire(id) \/ End(s, id) \/ Abort(s, id) \/ BadChunk(s)
           \/ \E good \in BOOLEAN : Chunk(s, id, good)
           \/ RaiseFlag(s) \/ \E ok \in BOOLEAN : Move(s, ok)
           \/ AbortPump(s) \/ UNCHANGED vars
    PROVE  PlacedInv'
<1>1. CASE AbortPump(s)
  <2>1. /\ UNCHANGED <<pending, opening, told, offered, lost>>
        /\ sup[s] = "leaving" /\ sup' = [sup EXCEPT ![s] = "ended"]
        /\ cmds' = [cmds EXCEPT ![s] = <<>>]
        /\ cmds \in [Sessions -> Seq(Answers)]
        /\ sup \in [Sessions -> {"running", "leaving", "ended"}]
    BY <1>1 DEF AbortPump, managerVars, history, TransferInv, TypeOK
  <2>2. ASSUME NEW t \in Sessions, NEW i \in Ids, Owed(t, i)'
        PROVE  Owed(t, i) /\ cmds'[t] = cmds[t]
    BY <2>1, <2>2 DEF Owed
  <2>3. QED
    BY <2>1, <2>2 DEF PlacedInv, Placed
<1>2. CASE UNCHANGED <<pending, cmds, opening, sup, told, offered, lost>>
  BY <1>2 DEF PlacedInv, Placed, Owed
<1>3. QED
  BY <1>1, <1>2
     DEF Expire, End, Abort, BadChunk, Chunk, RaiseFlag, Move, Discard, vars, managerVars,
         sessionVars, pumpVars, diskVars, history

\* Every step keeps every offer in its place.
LEMMA NextPlaces ==
    ASSUME TransferInv, PlacedInv, [Next]_vars
    PROVE  PlacedInv'
<1> SUFFICES ASSUME NEW u \in Sessions, NEW i \in Ids
             PROVE  PlacedInv'
  BY DEF PlacedInv
<1>1. CASE Panel
  <2>1. ASSUME NEW room \in SUBSET Sessions, List(room) PROVE PlacedInv'
    <3>1. TRUE \in BOOLEAN
      OBVIOUS
    <3>2. QED
      BY <2>1, <3>1, RoutersPlace
  <2>2. ASSUME NEW id \in Ids, NEW accept \in BOOLEAN, NEW room \in SUBSET Sessions,
               Answer(id, accept, room)
        PROVE  PlacedInv'
    BY <2>2, RoutersPlace
  <2>3. QED
    BY <1>1, <2>1, <2>2 DEF Panel, Lists
<1>2. ASSUME NEW id \in Ids, Expire(id) PROVE PlacedInv'
  BY <1>2, OthersPlace
<1>3. ASSUME NEW s \in Sessions, Viewer(s) PROVE PlacedInv'
  <2>1. ASSUME NEW id \in Ids, DenyOffer(s, id) PROVE PlacedInv'
    BY <2>1, AnswersPlace
  <2>2. ASSUME NEW id \in Ids, End(s, id) \/ Abort(s, id) PROVE PlacedInv'
    BY <2>2, OthersPlace
  <2>3. ASSUME NEW id \in Ids, NEW room \in SUBSET Sessions,
               DuplicateOffer(s, id, room) \/ RegisterOffer(s, id, room)
        PROVE  PlacedInv'
    <3>1. TRUE \in BOOLEAN
      OBVIOUS
    <3>2. QED
      BY <2>3, <3>1, RoutersPlace
  <2>4. ASSUME NEW id \in Ids, NEW good \in BOOLEAN, Chunk(s, id, good)
        PROVE  PlacedInv'
    BY <2>4, OthersPlace
  <2>5. CASE BadChunk(s)
    BY <2>5, OthersPlace
  <2>6. QED
    BY <1>3, <2>1, <2>2, <2>3, <2>4, <2>5 DEF Viewer
<1>4. ASSUME NEW s \in Sessions, Supervisor(s) PROVE PlacedInv'
  BY <1>4, TakePlaces, AnswersPlace DEF Supervisor
<1>5. ASSUME NEW s \in Sessions, Pump(s) PROVE PlacedInv'
  BY <1>5, OthersPlace DEF Pump
<1>6. ASSUME NEW s \in Sessions, Leave(s) \/ AbortPump(s) PROVE PlacedInv'
  BY <1>6, LeavePlaces, OthersPlace
<1>7. CASE UNCHANGED vars
  BY <1>7, OthersPlace
<1>8. QED
  BY <1>1, <1>2, <1>3, <1>4, <1>5, <1>6, <1>7 DEF Next

\* While its session runs, an offer that was neither answered nor lost waits for
\* the panel, has its answer in the session's queue or is being opened.
THEOREM OffersPlacedAlways == Spec => []OffersPlaced
<1>1. Init => PlacedInv
  BY DEF Init, PlacedInv, Owed
<1>2. TransferInv /\ PlacedInv /\ [Next]_vars => PlacedInv'
  BY NextPlaces
<1>3. PlacedInv => OffersPlaced
  BY DEF PlacedInv, OffersPlaced, Owed, Placed, Says
<1>4. QED
  BY <1>1, <1>2, <1>3, TransferInvariant, PTL DEF Spec
=============================================================================
