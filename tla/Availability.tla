---------------------------- MODULE Availability ----------------------------
(***************************************************************************)
(* What the stock promises and what is left to promise (D-054, D-066,      *)
(* D-134): the pure reads of reserved-ledger.ts and raw-material.ts.       *)
(*                                                                         *)
(* A promise names an item (a coil sold whole, a product) or an aggregate: *)
(* "raw material of this line, colour and thickness", covered by every     *)
(* open coil that matches it.  Aggregates overlap: the thickness matches   *)
(* within a tolerance.                                                     *)
(*                                                                         *)
(* A stock d is a record: the status of the coils, the kilos (or units) of *)
(* each item, the liquidation of the last closing, and the promises.       *)
(***************************************************************************)
EXTENDS Integers, FiniteSets, FiniteSetsExt, Functions

CONSTANTS
  Coils, Products,
  Specs,      \* the aggregates: rows of raw_material_specs
  Matches,    \* Specs -> the coils whose attributes match
  Holders,    \* lines of orders and of quotations that may promise something
  For,        \* Holders -> the item or the aggregate the line promises
  Temporary,  \* the holders that are quotations: their promise expires
  MaxKg       \* bound: kilos of an item

Items == Coils \cup Products

\* What every instance satisfies.
AvailabilityAssumption ==
  /\ IsFiniteSet(Coils) /\ IsFiniteSet(Holders)
  /\ Coils \cap Products = {} /\ Specs \cap Items = {} /\ Holders \cap Items = {}
  /\ Matches \in [Specs -> SUBSET Coils]
  /\ For \in [Holders -> Items \cup Specs]
  /\ Temporary \subseteq Holders
  /\ MaxKg \in Nat

Active(d, x) == {h \in Holders : For[h] = x /\ d.promises[h].state = "ACTIVE"}

\* reservedByItem: firm promises plus temporary ones that have not expired.
Reserved(d, x) == SumFunctionOnSet([h \in Holders |-> d.promises[h].qty], Active(d, x))

\* The coils that cover an aggregate today.
Candidates(d, s) == {c \in Matches[s] : d.status[c] = "OPEN"}

\* What an item still has to promise.
ItemAvailable(d, i) == d.kg[i] - Reserved(d, i)

\* What an aggregate still has to promise: the kilos of its coils, minus those
\* promised coil by coil, minus those promised to the aggregate itself.
Available(d, s) ==
  LET coils == {c \in Candidates(d, s) : d.kg[c] > 0}
  IN  SumFunctionOnSet([c \in coils |-> ItemAvailable(d, c)], coils) - Reserved(d, s)

\* The aggregates with live promises that some of these coils match.
Affected(d, C) == {s \in Specs : Matches[s] \cap C # {} /\ Reserved(d, s) > 0}

\* assertRawMaterialInvariant: none of them is left short.
AggregatesHold(d, C) == \A s \in Affected(d, C) : Available(d, s) >= 0

\* The coils an operation over these coils can leave short of kilos.
LockSet(d, C) == C \cup UNION {Candidates(d, s) : s \in Affected(d, C)}
=============================================================================
