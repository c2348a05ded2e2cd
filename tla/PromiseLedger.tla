--------------------------- MODULE PromiseLedger ---------------------------
(***************************************************************************)
(* What the reservation ledger promises to the rest of the system: every   *)
(* operation on stock and promises happens at one instant, and none of     *)
(* them leaves a promise without the kilos that cover it.                  *)
(***************************************************************************)
EXTENDS Availability

VARIABLE db

\* disponible >= reservado, for every item and every aggregate.
Sound(d) ==
  /\ \A i \in Items : ItemAvailable(d, i) >= 0
  /\ \A s \in Specs : Available(d, s) >= 0

Init ==
  /\ Sound(db)
  /\ \A h \in Holders : db.promises[h].state = "NONE"

\* Kilos, status and promises that a step leaves alone.
SameKg(I)       == \A i \in Items \ I : db'.kg[i] = db.kg[i]
SameStatus(C)   == \A c \in Coils \ C : db'.status[c] = db.status[c]
SamePromises(H) == \A h \in Holders \ H : db'.promises[h] = db.promises[h]

\* A line promises what is available, and nothing more.
Promise(h) ==
  /\ db.promises[h].state # "ACTIVE" /\ db'.promises[h].state = "ACTIVE"
  /\ IF For[h] \in Specs THEN db'.promises[h].qty <= Available(db, For[h])
                         ELSE db'.promises[h].qty <= ItemAvailable(db, For[h])
  /\ SameKg({}) /\ SameStatus({}) /\ SamePromises({h})

\* The line no longer promises anything.
Forget(h) ==
  /\ db.promises[h].state = "ACTIVE"
  /\ db'.promises[h].state \in {"RELEASED", "EXPIRED"}
  /\ SameKg({}) /\ SameStatus({}) /\ SamePromises({h})

\* Goods enter.
Enter(i) ==
  /\ db'.kg[i] >= db.kg[i] /\ SameKg({i})
  /\ i \in Coils => db'.status[i] = "OPEN"
  /\ SameStatus({i}) /\ SamePromises({})

\* Goods leave; the coil they empty leaves its aggregates.
Withdraw(i) ==
  /\ db'.kg[i] <= db.kg[i] /\ SameKg({i})
  /\ SameStatus({i}) /\ SamePromises({})

\* A coil joins or leaves its aggregates, and its kilos are counted.
Count(c) ==
  /\ (db.status[c] = "OPEN") # (db'.status[c] = "OPEN")
  /\ SameKg({c}) /\ SameStatus({c}) /\ SamePromises({})

\* What is delivered is taken from its promise, as far as it goes; a line without a live
\* promise is delivered out of what nobody is promised.
Deliver(h) ==
  LET delivered == db.kg[For[h]] - db'.kg[For[h]]
      promised  == db.promises[h].qty
  IN
  /\ delivered > 0
  /\ IF db.promises[h].state = "ACTIVE"
     THEN db'.promises[h].qty = IF promised > delivered THEN promised - delivered ELSE 0
     ELSE db'.promises[h].qty = promised /\ db'.promises[h].state = db.promises[h].state
  /\ SameKg({For[h]}) /\ SameStatus({For[h]}) /\ SamePromises({h})

\* It comes back, kilos and promise together.  A promise that was released is not
\* revived: its kilos may be somebody else's.
TakeBack(h) ==
  /\ db'.kg[For[h]] > db.kg[For[h]]
  /\ IF db.promises[h].state = "RELEASED" THEN db'.promises[h].state = "RELEASED"
     ELSE db'.promises[h].qty - db.promises[h].qty = db'.kg[For[h]] - db.kg[For[h]]
  /\ SameKg({For[h]}) /\ SameStatus({For[h]}) /\ SamePromises({h})

Next ==
  /\ \/ \E h \in Holders : Promise(h) \/ Forget(h)
     \/ \E h \in Holders : For[h] \in Items /\ (Deliver(h) \/ TakeBack(h))
     \/ \E i \in Items : Enter(i) \/ Withdraw(i)
     \/ \E c \in Coils : Count(c)
  /\ Sound(db')

Spec == Init /\ [][Next]_db
=============================================================================
