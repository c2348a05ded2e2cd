----------------------------- MODULE Production -----------------------------
(* Production orders of roofing (RoofingProductionService) over coils they   *)
(* share: mounting, reports, closing, and what undoes each of them, with the *)
(* dispatches of what was made and the scrap of the coils.  An operation     *)
(* locks its order, its promises, its coils and their balances before it     *)
(* decides (lockOrder, lockInOrder; LockOrder), so it is a step.             *)
(* A metre takes a kilo; the orders make one product, each for its own line. *)
EXTENDS Integers, Sequences, FiniteSets, FiniteSetsExt, SequencesExt

CONSTANTS
  Orders,   \* production orders, each born of the line of a sales order
  Coils,    \* coils that fit the product
  Weight,   \* kilos a coil came with
  Plan,     \* metres of each line, of its cutting plan, and kilos promised to it
  MaxRows   \* bound on the rows of the kardex

Product == "product"
Nobody  == "nobody"

\* What every instance satisfies.
ProductionAssumption ==
  /\ IsFiniteSet(Orders) /\ IsFiniteSet(Coils)
  /\ Product \notin Coils /\ Nobody \notin Orders
  /\ Weight \in Nat \ {0} /\ Plan \in Nat \ {0} /\ MaxRows \in Nat

VARIABLES
  order,     \* status, how many rows there were when it closed, and whether the
             \* closing recosted the entries of its reports
  mount,     \* production_order_consumptions: custody of a coil by an order
  closedBy,  \* status of a coil: what terminated it, an order or a scrap
  raw,       \* promise of kilos to the line of an order
  made,      \* promise of metres to it
  rows       \* inventory_movements of the coils and of the product

vars == <<order, mount, closedBy, raw, made, rows>>


Row(item, type, qty, ref, owner, reverses) ==
  [item |-> item, type |-> type, qty |-> qty, ref |-> ref, owner |-> owner,
   reverses |-> reverses]

Undo(i, type) == [rows[i] EXCEPT !.type = type, !.reverses = i]

Room(n) == Len(rows) + n <= MaxRows

\* liveMovements: neither a reversal nor reversed.
LiveRow(i) == rows[i].reverses = 0 /\ \A j \in DOMAIN rows : rows[j].reverses # i

QtyOf(rs, S) == SumFunctionOnSet([i \in DOMAIN rs |-> rs[i].qty], S)

Stock(rs, x) ==
  LET Of(type) == {i \in DOMAIN rs : rs[i].item = x /\ rs[i].type = type}
  IN  (IF x \in Coils THEN Weight ELSE 0) + QtyOf(rs, Of("IN")) - QtyOf(rs, Of("OUT"))

\* The OUT of the coil stands for its report; the IN of the product follows it.
Reports(o) ==
  {i \in DOMAIN rows : /\ rows[i].ref = "REPORT" /\ rows[i].owner = o
                       /\ rows[i].type = "OUT" /\ LiveRow(i)}
Produced(o) == QtyOf(rows, {i + 1 : i \in Reports(o)})

Dispatches(o) == {i \in DOMAIN rows : rows[i].ref = "SALE" /\ rows[i].owner = o /\ LiveRow(i)}
Dispatched(o) == QtyOf(rows, Dispatches(o))

IsLive(o) == order[o].status \in {"DRAFT", "IN_PROGRESS"}

NotMounted == [state |-> "none", assigned |-> 0, consumed |-> 0]
Has(m, o, c) == m[o][c].state = "live"
Left(o, c) == mount[o][c].assigned - mount[o][c].consumed

\* findLiveStripAssignments
Free(m, c) == \A o \in Orders : ~Has(m, o, c)

\* A coil is vigente, or somebody terminated it.
Cause(o, i) == [order |-> o, row |-> i]
Open == Cause(Nobody, 0)

\* autoTerminateEmptyCoils: those without a kilo and without a custodian.
Terminated(rs, m, S, cause) ==
  [c \in Coils |->
     IF c \in S /\ closedBy[c] = Open /\ Stock(rs, c) = 0 /\ Free(m, c) THEN cause
     ELSE closedBy[c]]

\* reopenAutoTerminatedCoils: those it terminated itself.
Reopened(S, cause) ==
  [c \in Coils |-> IF c \in S /\ closedBy[c] = cause THEN Open ELSE closedBy[c]]

-----------------------------------------------------------------------------
(* Promises.                                                                *)

Promise(qty, status) == [qty |-> qty, status |-> status]
NoPromise == Promise(0, "NONE")

\* Mutant: a promise that is over keeps its quantity (D-379).
ReducedQtyKept(p, q, over) ==
  CASE p.status # "ACTIVE" -> p
    [] p.status = "ACTIVE" /\ p.qty <= q -> Promise(p.qty, over)
    [] OTHER -> Promise(p.qty - q, "ACTIVE")

\* consumeReservationQty and reduceReservation: what is left, or over.
Reduced(p, q, over) ==
  CASE p.status # "ACTIVE" -> p
    [] p.status = "ACTIVE" /\ p.qty <= q -> Promise(0, over)
    [] OTHER -> Promise(p.qty - q, "ACTIVE")
Consumed(p, q) == Reduced(p, q, "CONSUMED")

Lowered(p, q) == Reduced(p, q, "RELEASED")

\* restoreReservationQty
Restored(p, q) ==
  IF p.status \in {"NONE", "RELEASED"} THEN p ELSE Promise(p.qty + q, "ACTIVE")

\* releaseRemainingReservation
Ended(p) == IF p.status = "ACTIVE" /\ p.qty > 0 THEN Promise(0, "RELEASED") ELSE p

\* upsertItemReservation, up to what the line is not yet promised.
Raised(p, q) ==
  LET held == IF p.status = "ACTIVE" THEN p.qty ELSE 0
      base == IF p.status = "RELEASED" THEN 0 ELSE p.qty
      more == Min({q, Plan - held})
  IN  IF more > 0 THEN Promise(base + more, "ACTIVE") ELSE p

PromisedOf(ps) ==
  SumFunctionOnSet([o \in Orders |-> ps[o].qty], {o \in Orders : ps[o].status = "ACTIVE"})

-----------------------------------------------------------------------------
(* Custody.                                                                 *)

\* recomputeStatus
StatusWith(m, o, reports) ==
  IF reports = {} /\ \A c \in Coils : ~Has(m, o, c) THEN "DRAFT" ELSE "IN_PROGRESS"

\* mountCoil: the whole coil, or part of it; the promises of others only warn.
MountCoil(o, c) ==
  /\ IsLive(o)
  /\ closedBy[c] = Open
  /\ Free(mount, c)
  /\ \E kg \in 1..Stock(rows, c) :
       mount' = [mount EXCEPT ![o][c] = [state |-> "live", assigned |-> kg, consumed |-> 0]]
  /\ order' = [order EXCEPT ![o].status = "IN_PROGRESS"]
  /\ UNCHANGED <<closedBy, raw, made, rows>>

\* Mutant: a coil is taken down although reports came out of it.
ReleaseCoilUsed(o, c) ==
  /\ IsLive(o) /\ Has(mount, o, c)
  /\ mount' = [mount EXCEPT ![o][c] = NotMounted]
  /\ order' = [order EXCEPT ![o].status = StatusWith(mount', o, Reports(o))]
  /\ closedBy' = Terminated(rows, mount', {c}, Cause(o, 0))
  /\ UNCHANGED <<raw, made, rows>>

\* releaseCoil: only while nothing came out of it.
ReleaseCoil(o, c) ==
  /\ IsLive(o) /\ Has(mount, o, c)
  /\ mount[o][c].consumed = 0
  /\ mount' = [mount EXCEPT ![o][c] = NotMounted]
  /\ order' = [order EXCEPT ![o].status = StatusWith(mount', o, Reports(o))]
  /\ closedBy' = Terminated(rows, mount', {c}, Cause(o, 0))
  /\ UNCHANGED <<raw, made, rows>>

-----------------------------------------------------------------------------
(* Reports.                                                                 *)

\* mountedKgForReport: what the metres take, up to what is mounted.
KilosFor(o, c, metres) == Min({metres, Left(o, c)})

\* reportInTx: kilos out of the coil, metres in; the promise moves with them.
Report(o, c) ==
  /\ Room(2)
  /\ order[o].status = "IN_PROGRESS" /\ Has(mount, o, c)
  /\ Left(o, c) > 0
  /\ \E metres \in 1..(Plan - Produced(o)) :
       LET kg == KilosFor(o, c, metres)
       IN  /\ raw' = [raw EXCEPT ![o] = Consumed(@, kg)]
           /\ made' = [made EXCEPT ![o] = Raised(@, metres)]
           /\ mount' = [mount EXCEPT ![o][c].consumed = @ + kg]
           /\ rows' = rows \o <<Row(c, "OUT", kg, "REPORT", o, 0),
                                Row(Product, "IN", metres, "REPORT", o, 0)>>
  /\ UNCHANGED <<order, closedBy>>

\* Nothing of the product left, nor was adjusted, after a row.
NothingLeftAfter(i) ==
  \A j \in DOMAIN rows :
    (j > i /\ rows[j].item = Product /\ LiveRow(j)) => rows[j].type = "IN"

\* reverseReport: the last one, while nothing of the product left after it.
ReverseReport(o) ==
  /\ Room(2)
  /\ order[o].status = "IN_PROGRESS" /\ Reports(o) # {}
  /\ LET i == Max(Reports(o))
         c == rows[i].item
     IN  /\ Has(mount, o, c)
         /\ NothingLeftAfter(i + 1)
         /\ made' = [made EXCEPT ![o] = Lowered(@, rows[i + 1].qty)]
         /\ Stock(rows, Product) - rows[i + 1].qty >= PromisedOf(made')
         /\ mount' = [mount EXCEPT ![o][c].consumed = @ - rows[i].qty]
         /\ rows' = rows \o <<Undo(i + 1, "OUT"), Undo(i, "IN")>>
         /\ order' = [order EXCEPT ![o].status = StatusWith(mount', o, Reports(o) \ {i})]
         /\ raw' = [raw EXCEPT ![o] = Restored(@, rows[i].qty)]
  /\ UNCHANGED closedBy

-----------------------------------------------------------------------------
(* Closing and reopening.                                                   *)

\* allocateRoofingScrap: kilos of each coil mounted; a coil without reports takes
\* what does not fit in those that have them.
Scraps(o) ==
  LET Used(c) == \E i \in Reports(o) : rows[i].item = c
      Mounted == {c \in Coils : Has(mount, o, c)}
  IN  {s \in [Coils -> 0..Weight] :
         /\ \A c \in Coils : s[c] <= IF c \in Mounted THEN Left(o, c) ELSE 0
         /\ (\E c \in Mounted : ~Used(c) /\ s[c] > 0) =>
              \A c \in Mounted : Used(c) => s[c] = Left(o, c)}

\* The OUT of each coil with scrap.
ScrapRows(o, s) ==
  LET cs == SetToSeq({c \in Coils : s[c] > 0})
  IN  [k \in DOMAIN cs |-> Row(cs[k], "OUT", s[cs[k]], "CLOSE", o, 0)]

\* Not the cause of a coil that is taken down, which is never empty.
ClosesAs(o) == Cause(o, 1)

\* closeInTx, with the plan complete: the scrap leaves its coils, the coils go
\* back, what is left of the promise of kilos ends, and the cost of the scrap goes
\* to the product in stock, or to the entries of the reports without any.
Close(o) ==
  /\ order[o].status = "IN_PROGRESS"
  /\ Reports(o) # {} /\ Produced(o) = Plan
  /\ \E s \in Scraps(o) :
       LET scrap == SumFunctionOnSet(s, Coils)
           outs == ScrapRows(o, s)
           stock == Stock(rows, Product)
           adjust == IF scrap > 0 /\ stock > 0
                     THEN <<Row(Product, "ADJUST", stock, "CLOSE", o, 0)>> ELSE <<>>
       IN  /\ Room(Len(outs) + Len(adjust))
           /\ rows' = rows \o outs \o adjust
           /\ raw' = [raw EXCEPT ![o] = Ended(Consumed(@, scrap))]
           /\ mount' = [mount EXCEPT ![o] = [c \in Coils |->
                          IF ~Has(mount, o, c) THEN mount[o][c]
                          ELSE [mount[o][c] EXCEPT !.state = "closed", !.consumed = @ + s[c]]]]
           /\ order' = [order EXCEPT ![o] =
                          [status |-> "CLOSED", rowsThen |-> Len(rows),
                           recosted |-> @.recosted \/ (scrap > 0 /\ stock = 0)]]
           /\ closedBy' = Terminated(rows', mount', {c \in Coils : Has(mount, o, c)}, ClosesAs(o))
  /\ UNCHANGED made

OwnRows(o) == {i \in DOMAIN rows : rows[i].ref = "CLOSE" /\ rows[i].owner = o}
Back(o) == {c \in Coils : mount[o][c].state = "closed"}

\* Mutant: only a row of the closing itself is measured from.
LastOwnAlone(o, c) ==
  LET own == {i \in OwnRows(o) : rows[i].item = c}
  IN  IF own = {} THEN 0 ELSE Max(own)

\* What follows on a coil is measured from the last row of the order on it, or
\* from its closing when there is none.
LastOwn(o, c) ==
  LET own == {i \in OwnRows(o) : rows[i].item = c}
  IN  IF own = {} THEN order[o].rowsThen ELSE Max(own)

\* Mutant: what moved on the coils since is not looked at.
CoilsUntouchedNever(o) == TRUE
CoilsUntouched(o) ==
  \A c \in Back(o), j \in DOMAIN rows :
    (rows[j].item = c /\ LiveRow(j)) => j <= LastOwn(o, c)

\* Mutant: who has the coils now is not looked at.
CoilsFreeAlways(o) == TRUE
CoilsFree(o) == \A c \in Back(o) : Free(mount, c)

\* Those it terminated are reopened with it.
CoilsOpen(o) == \A c \in Back(o) : Reopened(Back(o), ClosesAs(o))[c] = Open

LiveOwn(o) == {i \in OwnRows(o) : LiveRow(i)}

MayReopen(o) ==
  /\ order[o].status = "CLOSED"
  /\ ~order[o].recosted
  /\ \A i \in LiveOwn(o) : rows[i].item = Product => NothingLeftAfter(i)
  /\ CoilsFree(o) /\ CoilsOpen(o) /\ CoilsUntouched(o)

\* Mutant: the scrap comes back to the coil and not to the custody.
ReturnedNothing(o, c) == 0
Returned(o, c) == QtyOf(rows, {i \in LiveOwn(o) : rows[i].item = c})

\* reopen: the adjustment and the scrap are reversed and the coils come back.
Reopen(o) ==
  /\ MayReopen(o)
  /\ Room(Cardinality(LiveOwn(o)))
  /\ LET Undone(i) == Undo(i, IF rows[i].item = Product THEN "ADJUST" ELSE "IN")
         own == SetToSeq(LiveOwn(o))
     IN  rows' = rows \o [k \in DOMAIN own |-> Undone(own[k])]
  /\ mount' = [mount EXCEPT ![o] = [c \in Coils |->
                 IF c \notin Back(o) THEN mount[o][c]
                 ELSE [mount[o][c] EXCEPT !.state = "live", !.consumed = @ - Returned(o, c)]]]
  /\ order' = [order EXCEPT ![o].status = "IN_PROGRESS", ![o].rowsThen = 0]
  /\ closedBy' = Reopened(Back(o), ClosesAs(o))
  /\ UNCHANGED <<raw, made>>

\* cancel, with restoreReservationIfIdle: nothing was made, or it was undone.
Cancel(o) ==
  /\ IsLive(o) /\ Reports(o) = {}
  /\ mount' = [mount EXCEPT ![o] = [c \in Coils |-> NotMounted]]
  /\ order' = [order EXCEPT ![o].status = "CANCELLED"]
  /\ raw' = [raw EXCEPT ![o].status = IF @ = "CONSUMED" THEN "ACTIVE" ELSE @]
  /\ closedBy' = Terminated(rows, mount', {c \in Coils : Has(mount, o, c)}, Cause(o, 0))
  /\ UNCHANGED <<made, rows>>

-----------------------------------------------------------------------------
(* What others do with the metres and with the coils.                       *)

\* A dispatch of the line: out of what is promised to it.
Dispatch(o) ==
  \E q \in 1..(Plan - Dispatched(o)) :
    /\ Room(1)
    /\ made[o].status = "ACTIVE" /\ q <= made[o].qty
    /\ made' = [made EXCEPT ![o] = Consumed(@, q)]
    /\ Stock(rows, Product) - q >= PromisedOf(made')
    /\ rows' = Append(rows, Row(Product, "OUT", q, "SALE", o, 0))
    /\ UNCHANGED <<order, mount, closedBy, raw>>

\* Its reversal gives the promise back, unless it was released.
ReverseDispatch(o) ==
  \E i \in Dispatches(o) :
    /\ Room(1)
    /\ made' = [made EXCEPT ![o] = Restored(@, rows[i].qty)]
    /\ rows' = Append(rows, Undo(i, "IN"))
    /\ UNCHANGED <<order, mount, closedBy, raw>>

\* registerScrap: a coil nobody has, and no kilo promised to a line.
Scrap(c) ==
  \E q \in 1..Stock(rows, c) :
    /\ Room(1)
    /\ Free(mount, c)
    /\ SumFunctionOnSet([d \in Coils |-> Stock(rows, d)], {d \in Coils : closedBy[d] = Open}) - q
         >= PromisedOf(raw)
    /\ rows' = Append(rows, Row(c, "OUT", q, "SCRAP", Nobody, 0))
    /\ closedBy' = Terminated(rows', mount, {c}, Cause(Nobody, Len(rows')))
    /\ UNCHANGED <<order, mount, raw, made>>

\* Mutant: the coil a scrap terminated stays terminated without it.
CancelScrapClosed(c) ==
  \E i \in DOMAIN rows :
    /\ Room(1)
    /\ rows[i].item = c /\ rows[i].ref = "SCRAP" /\ LiveRow(i)
    /\ Free(mount, c)
    /\ rows' = Append(rows, Undo(i, "IN"))
    /\ UNCHANGED <<order, mount, closedBy, raw, made>>

\* cancelScrap
CancelScrap(c) ==
  \E i \in DOMAIN rows :
    /\ Room(1)
    /\ rows[i].item = c /\ rows[i].ref = "SCRAP" /\ LiveRow(i)
    /\ Free(mount, c)
    /\ rows' = Append(rows, Undo(i, "IN"))
    /\ closedBy' = Reopened({c}, Cause(Nobody, i))
    /\ UNCHANGED <<order, mount, raw, made>>

-----------------------------------------------------------------------------

\* createFromReservationInTx: an order in the queue for each line.
Init ==
  /\ order = [o \in Orders |-> [status |-> "DRAFT", rowsThen |-> 0, recosted |-> FALSE]]
  /\ mount = [o \in Orders |-> [c \in Coils |-> NotMounted]]
  /\ closedBy = [c \in Coils |-> Open]
  /\ raw = [o \in Orders |-> Promise(Plan, "ACTIVE")]
  /\ made = [o \in Orders |-> NoPromise]
  /\ rows = <<>>

Next ==
  \/ \E o \in Orders, c \in Coils : MountCoil(o, c) \/ ReleaseCoil(o, c) \/ Report(o, c)
  \/ \E o \in Orders : ReverseReport(o) \/ Close(o) \/ Reopen(o) \/ Cancel(o)
  \/ \E o \in Orders : Dispatch(o) \/ ReverseDispatch(o)
  \/ \E c \in Coils : Scrap(c) \/ CancelScrap(c)

Spec == Init /\ [][Next]_vars

-----------------------------------------------------------------------------
(* Properties.                                                              *)

\* Types of the orders, their custody and their promises, and of the rows.
TypeOK ==
  /\ \A o \in Orders :
       /\ order[o].status \in {"DRAFT", "IN_PROGRESS", "CLOSED", "CANCELLED"}
       /\ order[o].rowsThen \in 0..Len(rows) /\ order[o].recosted \in BOOLEAN
       /\ raw[o].qty \in Nat /\ made[o].qty \in Nat
       /\ \A c \in Coils : mount[o][c].assigned \in Nat /\ mount[o][c].consumed \in Nat
  /\ \A i \in DOMAIN rows : rows[i].qty \in Nat \ {0} /\ rows[i].reverses \in 0..(i - 1)

\* Two live orders never have one coil, also when one is reopened and its coils
\* come back to it (D-060, assertStripsNotAssigned).
OneCustodian ==
  \A c \in Coils : Cardinality({o \in Orders : IsLive(o) /\ Has(mount, o, c)}) <= 1

\* The kilos an order has of a coil and has not used are in the coil: whatever was
\* closed, scrapped, undone and reopened, a report never finds less (D-060).
HeldIsThere ==
  \A o \in Orders, c \in Coils :
    Has(mount, o, c) => Left(o, c) >= 0 /\ Left(o, c) <= Stock(rows, c)

\* What an order says it used of a coil is what the kardex says left it for that
\* order, in reports or as scrap of its closing (D-089).
ConsumedIsOut ==
  \A o \in Orders, c \in Coils :
    mount[o][c].consumed =
      QtyOf(rows, {i \in DOMAIN rows : /\ rows[i].item = c /\ rows[i].owner = o
                                       /\ rows[i].ref \in {"REPORT", "CLOSE"} /\ LiveRow(i)})

\* An empty coil that nobody has is terminated, and one that is terminated has what
\* terminated it still standing: undoing that reopens the coil with its kilos, even
\* after others scrapped it, took it or gave it back (D-360).
EmptyIsTerminated ==
  \A c \in Coils :
    LET by == closedBy[c]
    IN  IF by = Open THEN Stock(rows, c) = 0 => ~Free(mount, c)
        ELSE /\ by.order = Nobody => LiveRow(by.row)
             /\ by.order # Nobody => order[by.order].status = "CLOSED"

\* The metres promised to a line are metres made for it and still here: no line is
\* dispatched the metres of another (D-088).
PromisedIsProduced == \A o \in Orders : made[o].qty <= Produced(o) - Dispatched(o)

\* Nothing has happened on the coils or to the product since the closing of an
\* order, and it is its first.
Untouched(o) ==
  /\ OwnRows(o) = LiveOwn(o)
  /\ \A j \in DOMAIN rows : (j > order[o].rowsThen /\ LiveRow(j)) => j \in OwnRows(o)
  /\ \A c \in Back(o) : Free(mount, c)

\* A closing that nobody built on can be undone: also one that emptied its coils,
\* or left no scrap, after scraps and mounts that were undone themselves (D-360).
ClosingCanBeUndone ==
  \A o \in Orders :
    (order[o].status = "CLOSED" /\ ~order[o].recosted /\ Untouched(o)) => MayReopen(o)

\* Every metre made for a line and not dispatched is promised to it: what comes
\* back with the reversal of a dispatch is protected again (dispatches.service.ts,
\* reverseInTx: "Toda reversa aguas abajo restaura la reserva").  It fails when the
\* last report was undone in between: the README says how.
FabricatedIsPromised == \A o \in Orders : made[o].qty = Produced(o) - Dispatched(o)

=============================================================================
