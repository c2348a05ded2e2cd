------------------------------- MODULE Kardex -------------------------------
(* The kardex of one item: InventoryService.record, reverse, replaceEntry,  *)
(* adjustCost, recostEntries and recostForward, with the callers that join  *)
(* two of them in one transaction.  Every operation holds the balance of    *)
(* the item from its first read to its commit (LockOrder), so it is a step. *)
EXTENDS RecostEngine

CONSTANTS
  MaxDay,      \* bound on the calendar: today
  Quantities,  \* quantities of a movement
  Amounts,     \* amounts of a cost adjustment
  Items        \* the items of this instance, each with the bounds it is explored in

\* An item is a coil or a product; `rows` bounds its rows, `days` its dates,
\* `costs` the unit costs of its entries, `replayed` is its RECOST_MAX_ROWS and
\* `operations` are those it has besides entries, outs and reversals: "return",
\* "replace", "adjust", "recost", and "reopen", the reopening of a coil with a date
\* before its closing.
Item == [coil : BOOLEAN, rows : Nat, days : SUBSET (1..MaxDay), costs : SUBSET Nat,
         replayed : Nat,
         operations : SUBSET {"return", "replace", "adjust", "recost", "reopen"}]

ASSUME KardexAssumption ==
  /\ MinDelta \in Nat \ {0} /\ MaxDay \in Nat \ {0}
  /\ Quantities \subseteq Nat \ {0} /\ \E q \in Quantities : \A p \in Quantities : p <= q
  /\ Amounts \subseteq Int
  /\ \A i \in Items : i \in Item

VARIABLES
  item,      \* the item, once and for all
  rows,      \* inventory_movements, recosts folded in their rows
  balance,   \* inventory_balances: quantity and average cost
  pending,   \* there is a mark inventory.recost-pending without its "resolved"
  whole      \* history: the kardex has never dropped or owed value

vars == <<item, rows, balance, pending, whole>>

IsCoil      == item.coil
MaxReplayed == item.replayed
UnitCosts   == item.costs
Operations  == item.operations

\* The last day is today (OperationDateService.resolve: nothing is dated later).
\* Days that pass add nothing: the code asks what comes after a date, never what
\* day it is.
Days == item.days

Live(i) == rows[i].reverses = 0 /\ ReversalsOf(rows, i) = {}

\* laterMovementCount > 0
HasLater(rs, d) == \E i \in DOMAIN rs : rs[i].day > d

-----------------------------------------------------------------------------
(* The balance.                                                             *)

ValueOf(b) == b.qty * b.avg

Balance(qty, value) == [qty |-> qty, avg |-> IF qty <= 0 THEN 0 ELSE HalfUp(value, qty)]

\* stockAfterIn
AfterIn(b, q, cost) == Balance(b.qty + q, IF b.qty <= 0 THEN cost ELSE ValueOf(b) + cost)

\* stockAfterReverseIn: rejected when it does not hold, or its value does not.
HoldsReverseIn(b, q, cost) == q <= b.qty /\ (ValueOf(b) >= cost \/ b.qty = q)

AfterReverseIn(b, q, cost) ==
  Balance(b.qty - q, IF ValueOf(b) < cost THEN 0 ELSE ValueOf(b) - cost)

Kardex(rs, b, p) == [rows |-> rs, balance |-> b, pending |-> p]

\* Mutant: those recorded after a row.
AfterInRecord(rs, i) == {j \in DOMAIN rs : j > i}

\* The rows a recost replays: those after a row, or from it on.
After(rs, i) == {j \in DOMAIN rs : Before(rs, i, j)}
From(rs, i) == {i} \cup After(rs, i)

\* Mutant: the rows are corrected and the balance stays.
RecostForwardRowsOnly(rs, b, replayed, overrides, limit) ==
  LET cost == Replay(rs, replayed, overrides)
      changed == Corrected(rs, replayed, cost)
      fixed == [i \in DOMAIN rs |->
                  IF i \in changed THEN [rs[i] EXCEPT !.effective = cost[i], !.recosted = TRUE]
                                   ELSE rs[i]]
  IN  IF Cardinality(replayed) > limit THEN Kardex(rs, b, TRUE)
      ELSE Kardex(fixed, b, pending)

\* recostForward: the rows that change are corrected, and the balance takes the
\* value of the kardex; over the limit nothing is, and a mark is left.
RecostForward(rs, b, replayed, overrides, limit) ==
  LET cost == Replay(rs, replayed, overrides)
      changed == Corrected(rs, replayed, cost)
      fixed == [i \in DOMAIN rs |->
                  IF i \in changed THEN [rs[i] EXCEPT !.effective = cost[i], !.recosted = TRUE]
                                   ELSE rs[i]]
      value == StockUpToDate(fixed, MaxDay).value
  IN  IF Cardinality(replayed) > limit THEN Kardex(rs, b, TRUE)
      ELSE Kardex(fixed,
                  IF changed = {} \/ b.qty <= 0 THEN b
                  ELSE Balance(b.qty, IF value < 0 THEN 0 ELSE value),
                  pending)

\* A row is written; what is dated after it is recosted.
Settled(rs, b, d, replayed) ==
  IF HasLater(rs, d) THEN RecostForward(rs, b, replayed, <<>>, MaxReplayed)
                     ELSE Kardex(rs, b, pending)

\* What a row adds to the value when none is dropped.
Added(r) == IF r.type = "OUT" THEN -r.effective ELSE r.effective

\* Nowhere along its dates does the kardex drop value, as it does where it runs
\* out of stock with value left, or owe it.
KeepsItsValue(rs) ==
  \A i \in DOMAIN rs :
    LET S == UpTo(rs, DOMAIN rs, i)
        s == StockAfter(rs, S)
    IN  /\ s.value >= 0 /\ (s.qty <= 0 => s.value = 0)
        /\ Size(s.value - MapThenSumSet(LAMBDA j : Added(rs[j]), S)) < MinDelta

Becomes(k) ==
  /\ rows' = k.rows
  /\ balance' = k.balance
  /\ pending' = k.pending
  /\ whole' = (whole /\ KeepsItsValue(rows'))
  /\ UNCHANGED item

Room(n) == Len(rows) + n <= item.rows

-----------------------------------------------------------------------------
(* record                                                                   *)

\* A row is recorded with the balance it leaves.
Record(r, b) ==
  LET rs == Append(rows, r)
  IN  Becomes(Settled(rs, b, r.day, After(rs, Len(rs))))

\* An entry with its own cost.
IsEntry(i) == rows[i].type = "IN" /\ rows[i].ref = "PURCHASE" /\ Live(i)

\* A purchase is received; a coil comes in once.
RecordIn ==
  \E q \in Quantities, u \in UnitCosts, d \in Days :
    /\ Room(1)
    /\ IsCoil => rows = <<>>
    /\ Record(Row("IN", "PURCHASE", q, d, q * u, 0, 0), AfterIn(balance, q, q * u))

\* The surplus of a coil comes in at the last average, or at the cost of its
\* document without one (planCoilCloseAdjustment), up to the weight it came with.
RecordSurplus ==
  \E i \in DOMAIN rows, q \in Quantities, d \in Days :
    LET unit == IF balance.avg > 0 THEN balance.avg ELSE HalfUp(rows[i].effective, rows[i].qty)
    IN  /\ IsCoil /\ Room(1)
        /\ IsEntry(i)
        /\ balance.qty + q <= rows[i].qty
        /\ Record(Row("IN", "CLOSE_ADJUSTMENT", q, d, q * unit, 0, 0),
                  AfterIn(balance, q, q * unit))

\* The cost of an OUT: at its date if it is backdated, all that is left if it
\* takes all, and otherwise at the average of the balance.
Dated(d) == HasLater(rows, d) /\ StockUpToDate(rows, d).qty > 0

CostOfOut(q, d) ==
  CASE Dated(d) -> AverageOutCost(StockUpToDate(rows, d), q)
    [] ~Dated(d) /\ q >= balance.qty -> AverageOutCost(StockUpToDate(rows, MaxDay), q)
    [] OTHER -> q * balance.avg

BalanceAfterOut(q, d) ==
  LET value == StockUpToDate(rows, MaxDay).value - CostOfOut(q, d)
  IN  IF Dated(d) THEN Balance(balance.qty - q, IF value < 0 THEN 0 ELSE value)
                  ELSE [qty |-> balance.qty - q, avg |-> balance.avg]

\* assertCoilOutNotBeforeEntry
NotBeforeEntry(d) ==
  LET entries == {i \in DOMAIN rows : rows[i].type = "IN" /\ Live(i)}
  IN  entries # {} => \E i \in entries : rows[i].day <= d

\* Mutant: a backdated OUT is checked against the balance of today only.
RecordOutToday(ref) ==
  \E q \in Quantities, d \in Days :
    /\ Room(1)
    /\ IsCoil => NotBeforeEntry(d)
    /\ q <= balance.qty
    /\ Record(Row("OUT", ref, q, d, CostOfOut(q, d), 0, 0), BalanceAfterOut(q, d))

\* Mutant: a backdated OUT is checked at its date and not against the balance.
RecordOutByDate(ref) ==
  \E q \in Quantities, d \in Days :
    /\ Room(1)
    /\ IsCoil => NotBeforeEntry(d)
    /\ HasLater(rows, d) => FitsWithoutNegative(rows, d, q)
    /\ Record(Row("OUT", ref, q, d, CostOfOut(q, d), 0, 0), BalanceAfterOut(q, d))

RecordOut(ref) ==
  \E q \in Quantities, d \in Days :
    /\ Room(1)
    /\ IsCoil => NotBeforeEntry(d)
    /\ HasLater(rows, d) => FitsWithoutNegative(rows, d, q)
    /\ q <= balance.qty
    /\ Record(Row("OUT", ref, q, d, CostOfOut(q, d), 0, 0), BalanceAfterOut(q, d))

Dispatch == RecordOut("DISPATCH")
Liquidate == IsCoil /\ RecordOut("CLOSE_ADJUSTMENT")

\* What has come back of an OUT.
Returns(i) == {j \in DOMAIN rows : rows[j].returns = i /\ Live(j)}
ReturnedQty(i) == MapThenSumSet(LAMBDA j : rows[j].qty, Returns(i))
ReturnedCost(i) == MapThenSumSet(LAMBDA j : rows[j].effective, Returns(i))

\* A return of goods: the last part takes what is left of the cost; a coil comes
\* back whole.
RecordReturn ==
  \E i \in DOMAIN rows, q \in Quantities, d \in Days :
    LET left == rows[i].qty - ReturnedQty(i)
        unit == HalfUp(rows[i].effective, rows[i].qty)
        cost == IF q = left THEN rows[i].effective - ReturnedCost(i) ELSE q * unit
    IN  /\ "return" \in Operations /\ Room(1)
        /\ rows[i].type = "OUT" /\ rows[i].ref = "DISPATCH" /\ Live(i)
        /\ q <= left /\ d >= rows[i].day /\ (IsCoil => q = left)
        /\ Record(Row("IN", "SALES_RETURN", q, d, cost, 0, i), AfterIn(balance, q, cost))

-----------------------------------------------------------------------------
(* reverse                                                                  *)

\* No live row was recorded after a row: entries of a product do not count.
NothingMovedAfter(i) ==
  \A j \in DOMAIN rows : (j > i /\ Live(j)) => rows[j].type = "IN" /\ ~IsCoil

\* The callers reverse any dispatch, return or adjustment; an entry, when
\* nothing moved after it and no landed cost of it is left; what closed a coil,
\* when it is its last row.
MayReverse(i) ==
  CASE rows[i].ref = "CLOSE_ADJUSTMENT" -> i = Len(rows)
    [] rows[i].type = "IN" /\ rows[i].ref = "PURCHASE" ->
         NothingMovedAfter(i) /\ ~rows[i].recosted
    [] OTHER -> TRUE

\* They date a reversal where nothing comes after it, or, with the confirmation,
\* a dispatch or an unused entry at its own date, and a reopening anywhere.
ReversalDay(i, d) ==
  \/ ~HasLater(rows, d)
  \/ /\ d = rows[i].day
     /\ rows[i].ref \in {"DISPATCH", "PURCHASE"} /\ rows[i].type # "ADJUST"
     /\ rows[i].type = "IN" =>
          \A j \in DOMAIN rows \ {i} : Live(j) => j < i /\ rows[j].day <= d
  \/ /\ rows[i].ref = "CLOSE_ADJUSTMENT"
     /\ "reopen" \in Operations \/ d >= rows[i].day

\* Its row and the balance it leaves.
ReverseIn(i, d) ==
  LET r == rows[i]
  IN  /\ r.type = "IN"
      /\ HasLater(rows, d) => FitsWithoutNegative(rows, d, r.qty)
      /\ HoldsReverseIn(balance, r.qty, r.effective)
      /\ Record(Row("OUT", r.ref, r.qty, d, r.effective, i, 0),
                AfterReverseIn(balance, r.qty, r.effective))

ReverseOut(i, d) ==
  LET r == rows[i]
  IN  /\ r.type = "OUT"
      /\ Returns(i) = {}
      /\ Record(Row("IN", r.ref, r.qty, d, r.effective, i, 0),
                Balance(balance.qty + r.qty, ValueOf(balance) + r.effective))

\* What is still in the balance of what an adjustment put there.
ReverseAdjust(i, d) ==
  LET r == rows[i]
      surviving == IF balance.qty < r.qty THEN balance.qty ELSE r.qty
      value == ValueOf(balance) * r.qty - r.effective * surviving
  IN  /\ r.type = "ADJUST"
      /\ balance.qty > 0 /\ value >= 0
      /\ Record(Row("ADJUST", r.ref, balance.qty, d, -HalfUp(r.effective * surviving, r.qty), i, 0),
                [balance EXCEPT !.avg = HalfUp(value, r.qty * balance.qty)])

\* reversibleMovement: it exists, it is not a reversal and nobody reversed it.
ReverseRow ==
  \E i \in DOMAIN rows, d \in Days :
    /\ Room(1)
    /\ Live(i) /\ MayReverse(i)
    /\ ReversalDay(i, d)
    /\ ReverseIn(i, d) \/ ReverseOut(i, d) \/ ReverseAdjust(i, d)

-----------------------------------------------------------------------------
(* replaceEntry and the other corrections of an entry                       *)

\* What stands in the way of a replacement: a live row after it, other than an
\* entry with its own cost, or a recost of the entry.
Blocks(i, j) ==
  /\ j # i /\ (j > i \/ rows[j].day > rows[i].day)
  /\ rows[j].type # "IN" \/ rows[j].ref = "CLOSE_ADJUSTMENT"
  /\ Live(j)

ReplaceEntry ==
  \E i \in DOMAIN rows, q \in Quantities, u \in UnitCosts :
    LET r == rows[i]
        out == AfterReverseIn(balance, r.qty, r.recorded)
    IN  /\ "replace" \in Operations /\ Room(2)
        /\ IsEntry(i) /\ ~r.recosted
        /\ ~ \E j \in DOMAIN rows : Blocks(i, j)
        /\ q < r.qty => FitsReplacement(rows, r.day, r.qty, q)
        /\ HoldsReverseIn(balance, r.qty, r.recorded)
        /\ Becomes(Kardex(rows \o <<Row("OUT", r.ref, r.qty, r.day, r.recorded, i, 0),
                                    Row("IN", r.ref, q, r.day, q * u, 0, 0)>>,
                          AfterIn(out, q, q * u), pending))

\* The cost of a coil (coil-operations update): its entry is reversed, with no
\* check of the state in between, and comes in again the same day.
Reenter ==
  \E i \in DOMAIN rows, u \in UnitCosts :
    LET r == rows[i]
        rs == rows \o <<Row("OUT", r.ref, r.qty, r.day, r.effective, i, 0),
                        Row("IN", r.ref, r.qty, r.day, r.qty * u, 0, 0)>>
        out == AfterReverseIn(balance, r.qty, r.effective)
    IN  /\ "replace" \in Operations /\ IsCoil /\ Room(2)
        /\ IsEntry(i) /\ ~r.recosted
        /\ \A j \in DOMAIN rows : Live(j) => j = i
        /\ HoldsReverseIn(balance, r.qty, r.effective)
        /\ Becomes(Settled(rs, AfterIn(out, r.qty, r.qty * u), r.day, After(rs, Len(rs))))

\* Mutant: an entry may be moved to a later date too.
RedateAnyWay ==
  \E i \in DOMAIN rows, d \in Days :
    LET r == rows[i]
        withIn == Append(rows, Row("IN", r.ref, r.qty, d, r.recorded, 0, 0))
        rs == Append(withIn, Row("OUT", r.ref, r.qty, r.day, r.effective, i, 0))
        b == AfterIn(balance, r.qty, r.recorded)
    IN  /\ "replace" \in Operations /\ Room(2)
        /\ IsEntry(i) /\ ~r.recosted
        /\ d # r.day
        /\ \A j \in DOMAIN rows : rows[j].day >= d =>
             rows[j].type # "ADJUST" /\ (rows[j].type = "OUT" => rows[j].reverses # 0)
        /\ HasLater(withIn, r.day) => FitsWithoutNegative(withIn, r.day, r.qty)
        /\ HoldsReverseIn(b, r.qty, r.effective)
        /\ Becomes(RecostForward(rs, AfterReverseIn(b, r.qty, r.effective),
                                 After(rs, Len(withIn)), <<>>, MaxReplayed))

\* The received date of a purchase (purchase-received-date-fix): the entry comes
\* in at the earlier date, the old one is reversed at its own, and one recost
\* follows both.
Redate ==
  \E i \in DOMAIN rows, d \in Days :
    LET r == rows[i]
        withIn == Append(rows, Row("IN", r.ref, r.qty, d, r.recorded, 0, 0))
        rs == Append(withIn, Row("OUT", r.ref, r.qty, r.day, r.effective, i, 0))
        b == AfterIn(balance, r.qty, r.recorded)
    IN  /\ "replace" \in Operations /\ Room(2)
        /\ IsEntry(i) /\ ~r.recosted
        /\ d < r.day
        /\ \A j \in DOMAIN rows : rows[j].day >= d =>
             rows[j].type # "ADJUST" /\ (rows[j].type = "OUT" => rows[j].reverses # 0)
        /\ HasLater(withIn, r.day) => FitsWithoutNegative(withIn, r.day, r.qty)
        /\ HoldsReverseIn(b, r.qty, r.effective)
        /\ Becomes(RecostForward(rs, AfterReverseIn(b, r.qty, r.effective),
                                 After(rs, Len(withIn)), <<>>, MaxReplayed))

-----------------------------------------------------------------------------
(* Costs without quantities                                                 *)

\* adjustCost: nothing is written on an item without stock today, whatever the
\* date is (a closing, a cutting order and their dates are confirmed).
AdjustCost ==
  \E a \in Amounts, d \in Days :
    /\ "adjust" \in Operations /\ Room(1)
    /\ balance.qty > 0 /\ a # 0
    /\ ValueOf(balance) + a >= 0
    /\ Record(Row("ADJUST", "PURCHASE", balance.qty, d, a, 0, 0),
              Balance(balance.qty, ValueOf(balance) + a))

\* recostEntries: an entry costs more, or less, and so does what left after it.
\* The callers modelled reject what goes over the limit.  Bound: an entry that
\* has been corrected is not corrected again.
RecostEntry ==
  \E i \in DOMAIN rows, a \in Amounts :
    /\ "recost" \in Operations
    /\ IsEntry(i) /\ a # 0
    /\ rows[i].effective + a >= 0 /\ ~rows[i].recosted
    /\ Cardinality(From(rows, i)) <= MaxReplayed
    /\ Becomes(RecostForward(rows, balance, From(rows, i), [j \in {i} |-> rows[i].effective + a], MaxReplayed))

\* Mutant: the mark is resolved with the same limit that left it.
CompletePendingLimited ==
  /\ pending
  /\ LET k == RecostForward(rows, balance, DOMAIN rows, <<>>, MaxReplayed)
     IN  Becomes([k EXCEPT !.pending = FALSE])

\* completePendingRecosts: the item is recosted from its first row, without limit.
CompletePending ==
  /\ pending
  /\ LET k == RecostForward(rows, balance, DOMAIN rows, <<>>, Len(rows))
     IN  Becomes([k EXCEPT !.pending = FALSE])

-----------------------------------------------------------------------------

Init ==
  /\ item \in Items
  /\ rows = <<>>
  /\ balance = [qty |-> 0, avg |-> 0]
  /\ pending = FALSE
  /\ whole = TRUE

Next ==
  \/ RecordIn \/ RecordSurplus \/ Dispatch \/ Liquidate \/ RecordReturn
  \/ ReverseRow \/ ReplaceEntry \/ Reenter \/ Redate
  \/ AdjustCost \/ RecostEntry \/ CompletePending

Spec == Init /\ [][Next]_vars

-----------------------------------------------------------------------------
(* Properties.                                                              *)

\* Types of the rows, the balance and the mark.
TypeOK ==
  /\ item \in Items
  /\ \A i \in DOMAIN rows :
       /\ rows[i].type \in {"IN", "OUT", "ADJUST"}
       /\ rows[i].qty \in Nat \ {0}
       /\ rows[i].day \in Days
       /\ rows[i].reverses \in 0..(i - 1) /\ rows[i].returns \in 0..(i - 1)
  /\ balance.qty \in Nat /\ balance.avg \in Nat
  /\ pending \in BOOLEAN /\ whole \in BOOLEAN

\* No day ever closes below zero, whatever is recorded, reversed, replaced or
\* redated behind rows that are already there (D-652, assertNoNegativeAtDate).
NoDateIsNegative == \A d \in Days : Closing(rows, DOMAIN rows, d) >= 0

Worth == LET v == StockUpToDate(rows, MaxDay).value IN IF v < 0 THEN 0 ELSE v

\* The balance that record, reverse and replaceEntry carry forward has the
\* quantity of the kardex and, while nothing is pending, its value to the cent:
\* it is a cache of it (schema.prisma, InventoryBalance).
BalanceIsACache ==
  /\ balance.qty = SumOf(rows, DOMAIN rows)
  /\ (~pending /\ balance.qty > 0) => Size(ValueOf(balance) - Worth) < MinDelta

\* The balance stays that cache as long as the kardex drops no value on its way:
\* carrying it row by row, in the order of the operations, ends where the rows
\* end in the order of their dates, backdated or not.
CacheIsKept == whole => BalanceIsACache

\* The surplus of a coil comes in at the last average and is left as it came.
Surpluses == {i \in DOMAIN rows : rows[i].type = "IN" /\ Rule(rows[i]) = "AVERAGE"}

\* The live rows that a replay of the whole kardex would correct.
OffTheirAverage ==
  LET cost == Replay(rows, DOMAIN rows, [j \in Surpluses |-> rows[j].effective])
  IN  {i \in Corrected(rows, DOMAIN rows, cost) : Live(i)}

\* Every live OUT costs the average of its place in the kardex and every live
\* return its part of its OUT, however late a row dated before them came in:
\* recosting from the new row on is as good as recosting everything (D-649).
OutsAtTheirAverage == (~pending /\ whole) => OffTheirAverage = {}

\* A row and its reversal cost the same, also after a recost of the row: between
\* the two they leave no value behind (D-649, RecostRule REVERSAL).
ReversalsCancel ==
  ~pending =>
    \A i \in DOMAIN rows : (rows[i].reverses # 0 /\ rows[i].type # "ADJUST") =>
      Size(rows[i].effective - rows[rows[i].reverses].effective) < MinDelta

\* Seen by day, each operation of the kardex puts a quantity in at a day or takes
\* one out of it, from that day on, and never takes what is not there.
Closings == [d \in 1..MaxDay |-> Closing(rows, DOMAIN rows, d)]

Stock == INSTANCE DatedStock WITH
  closing <- Closings,
  MaxQty <- CHOOSE q \in Quantities : \A p \in Quantities : p <= q

StockSpec == Stock!Spec
StockStep == [Stock!Next]_Closings

=============================================================================
