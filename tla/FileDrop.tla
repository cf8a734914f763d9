------------------------------- MODULE FileDrop -------------------------------
(***************************************************************************)
(* What the host promises of files a viewer drops on it: every offer takes *)
(* one way through its life, is received only once the panel accepted it,  *)
(* is stored only once it is complete, and never comes back.               *)
(***************************************************************************)
CONSTANTS Sessions, Ids

VARIABLE life  \* how far each offer has come

Offers == Sessions \X Ids

Stages == {"new", "waiting", "accepted", "receiving", "complete", "stored",
           "closed"}

At(stage) == {o \in Offers : life[o] = stage}

\* Offer o moves on, and the offers of S are over.
Advance(o, from, to, S) ==
    /\ life[o] = from
    /\ life' = [p \in Offers |-> IF p = o THEN to
                                 ELSE IF p \in S THEN "closed" ELSE life[p]]

\* What else is over at any time: offers that were not answered in time.
Lapsed == SUBSET At("waiting")

Offer(o) == \E S \in Lapsed : Advance(o, "new", "waiting", S)

Refuse(o) == \E S \in Lapsed : Advance(o, "new", "closed", S)

\* Only the panel does this.
Accept(o) == \E S \in Lapsed : Advance(o, "waiting", "accepted", S)

\* A session receives one file at a time: the one before is given up.
Start(o) == Advance(o, "accepted", "receiving",
                    {p \in At("receiving") : p[1] = o[1]})

Complete(o) == Advance(o, "receiving", "complete", {})

Keep(o) == Advance(o, "complete", "stored", {})

GiveUp(o) == \E from \in {"accepted", "receiving", "complete"} :
                Advance(o, from, "closed", {})

\* Offers lapse, by themselves or as their sessions end.
Lapse == \E S \in SUBSET (At("waiting") \union At("accepted") \union At("receiving")) :
            /\ S # {}
            /\ life' = [p \in Offers |-> IF p \in S THEN "closed" ELSE life[p]]

Init == life = [o \in Offers |-> "new"]

Next ==
    \/ \E o \in Offers : \/ Offer(o) \/ Refuse(o) \/ Accept(o) \/ Start(o)
                         \/ Complete(o) \/ Keep(o) \/ GiveUp(o)
    \/ Lapse

Spec == Init /\ [][Next]_life
=============================================================================
