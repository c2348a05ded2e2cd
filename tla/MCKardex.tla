------------------------------ MODULE MCKardex ------------------------------
\* The items of the instances of Kardex, and with them the orders that move them,
\* each a world of its own: two production orders over one coil ("coil"), one order
\* over two coils ("coils"), and coils that are cut: one whose strips are mounted,
\* annulled and sealed again ("cut"), one that is scrapped and closed ("scrapped"),
\* and two that go to the cutter together ("sent").
EXTENDS Kardex

VARIABLES order, mount, closedBy, raw, made, movements, coil, cuts, splits, sent, mounted, world

\* A product over three days: what every date closes with.
Quantified ==
  [coil |-> FALSE, rows |-> 5, days |-> 1..3, costs |-> {60000}, replayed |-> 9,
   operations |-> {"return", "replace"}]

\* A product with entries at two costs, edited and adjusted.
Priced ==
  [coil |-> FALSE, rows |-> 4, days |-> 1..2, costs |-> {60000, 100000}, replayed |-> 9,
   operations |-> {"return", "replace", "adjust"}]

\* A product whose entries are recosted, each of them at most once.
Valued ==
  [coil |-> FALSE, rows |-> 4, days |-> 1..2, costs |-> {60000}, replayed |-> 9,
   operations |-> {"return", "replace", "recost", "adjust"}]

\* A coil, with its closings and a recost that can go over the limit.
Closed ==
  [coil |-> TRUE, rows |-> 5, days |-> 1..2, costs |-> {60000, 100000}, replayed |-> 2,
   operations |-> {"return", "replace", "recost"}]

Explored == {Quantified, Priced, Valued, Closed}

\* A product whose costs are adjusted.
Adjusted ==
  {[coil |-> FALSE, rows |-> 4, days |-> 1..2, costs |-> {60000}, replayed |-> 9,
    operations |-> {"adjust"}]}

\* A coil that is reopened with a date of its own.
Reopened ==
  {[coil |-> TRUE, rows |-> 5, days |-> 1..2, costs |-> {60000}, replayed |-> 9,
    operations |-> {"reopen", "recost"}]}

BothOrders == {"first", "second"}
OneOrder == {"first"}
OneCoil == {"left"}
BothCoils == {"left", "right"}

OnOneCoil == INSTANCE Production WITH
  Orders <- BothOrders, Coils <- OneCoil, Weight <- 3, Plan <- 2, MaxRows <- 7, rows <- movements
OnTwoCoils == INSTANCE Production WITH
  Orders <- OneOrder, Coils <- BothCoils, Weight <- 2, Plan <- 2, MaxRows <- 6, rows <- movements

Handled == {"mount", "annul", "film"}
Consumed == {"scrap", "close"}

Cut == INSTANCE Cutting WITH
  Bought <- 1, Weight <- 2, Kerf <- 1, MaxCoils <- 4, MaxRows <- 7, MaxSent <- 2,
  Rare <- Handled, ChildrenAtHome <- TRUE, rows <- cuts
Scrapped == INSTANCE Cutting WITH
  Bought <- 1, Weight <- 2, Kerf <- 1, MaxCoils <- 3, MaxRows <- 6, MaxSent <- 2,
  Rare <- Consumed, ChildrenAtHome <- TRUE, rows <- cuts
Together == INSTANCE Cutting WITH
  Bought <- 2, Weight <- 2, Kerf <- 1, MaxCoils <- 4, MaxRows <- 7, MaxSent <- 2,
  Rare <- {}, ChildrenAtHome <- TRUE, rows <- cuts

ASSUME Instances ==
  /\ OnOneCoil!ProductionAssumption /\ OnTwoCoils!ProductionAssumption
  /\ Cut!CuttingAssumption /\ Scrapped!CuttingAssumption /\ Together!CuttingAssumption

orderVars == <<order, mount, closedBy, raw, made, movements>>
cutVars == <<coil, cuts, splits, sent, mounted>>

\* A world that is not the one at work keeps its first state.
Kept == Init /\ item = Closed

WorldInit ==
  \/ world = "kardex" /\ Init /\ OnOneCoil!Init /\ Cut!Init
  \/ world = "coil" /\ Kept /\ OnOneCoil!Init /\ Cut!Init
  \/ world = "coils" /\ Kept /\ OnTwoCoils!Init /\ Cut!Init
  \/ world = "cut" /\ Kept /\ OnOneCoil!Init /\ Cut!Init
  \/ world = "scrapped" /\ Kept /\ OnOneCoil!Init /\ Scrapped!Init
  \/ world = "sent" /\ Kept /\ OnOneCoil!Init /\ Together!Init

WorldNext ==
  /\ UNCHANGED world
  /\ \/ world = "kardex" /\ Next /\ UNCHANGED <<orderVars, cutVars>>
     \/ world = "coil" /\ OnOneCoil!Next /\ UNCHANGED <<vars, cutVars>>
     \/ world = "coils" /\ OnTwoCoils!Next /\ UNCHANGED <<vars, cutVars>>
     \/ world = "cut" /\ Cut!Next /\ UNCHANGED <<vars, orderVars>>
     \/ world = "scrapped" /\ Scrapped!Next /\ UNCHANGED <<vars, orderVars>>
     \/ world = "sent" /\ Together!Next /\ UNCHANGED <<vars, orderVars>>

WorldSpec == WorldInit /\ [][WorldNext]_<<vars, orderVars, cutVars, world>>

\* Types of the kardex, of the production orders and of the coils that are cut.
TypesOK ==
  /\ TypeOK
  /\ world = "coil" => OnOneCoil!TypeOK
  /\ world = "coils" => OnTwoCoils!TypeOK
  /\ world = "cut" => Cut!TypeOK
  /\ world = "scrapped" => Scrapped!TypeOK
  /\ world = "sent" => Together!TypeOK

\* A coil is in one place: with one live order, or at one cutter, or at hand.
OneCustodian ==
  /\ world = "coil" => OnOneCoil!OneCustodian
  /\ world = "coils" => OnTwoCoils!OneCustodian
  /\ world = "cut" => Cut!OneCustodian
  /\ world = "scrapped" => Scrapped!OneCustodian
  /\ world = "sent" => Together!OneCustodian

\* What an order has of a coil and has not used is in the coil, and a coil that
\* anybody has still has its entry.
HeldIsThere ==
  /\ world = "coil" => OnOneCoil!HeldIsThere
  /\ world = "coils" => OnTwoCoils!HeldIsThere
  /\ world = "cut" => Cut!EntryHolds
  /\ world = "scrapped" => Scrapped!EntryHolds
  /\ world = "sent" => Together!EntryHolds

\* What an order says it used of a coil, or a cut took of it, left it once, and a
\* coil with its film on was not used (but see SealedIsUnused).
ConsumedIsOut ==
  /\ world = "coil" => OnOneCoil!ConsumedIsOut
  /\ world = "coils" => OnTwoCoils!ConsumedIsOut
  /\ world = "cut" => Cut!CutIsWhole /\ Cut!SealedIsUnused
  /\ world = "scrapped" => Scrapped!CutIsWhole
  /\ world = "sent" => Together!CutIsWhole /\ Together!SealedIsUnused

\* An empty coil is terminated, and reopened with what had emptied it.
EmptyIsTerminated ==
  /\ world = "coil" => OnOneCoil!EmptyIsTerminated
  /\ world = "coils" => OnTwoCoils!EmptyIsTerminated
  /\ world = "cut" => Cut!ClosedByStands
  /\ world = "scrapped" => Scrapped!ClosedByStands
  /\ world = "sent" => Together!ClosedByStands

\* The metres promised to a line were made for it and are here.
PromisedIsProduced ==
  /\ world = "coil" => OnOneCoil!PromisedIsProduced
  /\ world = "coils" => OnTwoCoils!PromisedIsProduced

\* A closing that nobody built on can be undone.
ClosingCanBeUndone ==
  /\ world = "coil" => OnOneCoil!ClosingCanBeUndone
  /\ world = "coils" => OnTwoCoils!ClosingCanBeUndone
=============================================================================
