---------------------------- MODULE RecostEngine ----------------------------
(* The pure functions of the kardex of one item (recost-engine.ts,          *)
(* inventory-recost.ts and the helpers of inventory.service.ts).  A kardex  *)
(* is a sequence of rows in the order in which they were recorded; an index *)
(* is the id of a row, and 0 is the id of none.  Money is an integer of     *)
(* ten-thousandths, the four decimals of the column.                        *)
EXTENDS Integers, SequencesExt

CONSTANT MinDelta   \* RECOST_MIN_DELTA: a cent, in ten-thousandths

\* ROUND_HALF_UP of a / b, for b > 0.
HalfUp(a, b) ==
  IF a >= 0 THEN (2 * a + b) \div (2 * b) ELSE -((b - 2 * a) \div (2 * b))

Size(x) == IF x < 0 THEN -x ELSE x

-----------------------------------------------------------------------------
(* Rows and their order.                                                    *)

\* `effective` is the recorded cost plus the recosts that point at the row;
\* `recosted`, that there is one.
Row(type, ref, qty, day, cost, reverses, returns) ==
  [type |-> type, ref |-> ref, qty |-> qty, day |-> day, recorded |-> cost,
   effective |-> cost, recosted |-> FALSE, reverses |-> reverses, returns |-> returns]

Signed(r) == CASE r.type = "IN" -> r.qty [] r.type = "OUT" -> -r.qty [] OTHER -> 0

Before(rs, i, j) == rs[i].day < rs[j].day \/ (rs[i].day = rs[j].day /\ i < j)

\* The last of some rows, along their dates.
LastOf(rs, S) == CHOOSE i \in S : \A j \in S : j = i \/ Before(rs, j, i)

UpTo(rs, S, i) == {j \in S : j = i \/ Before(rs, j, i)}

Rule(r) ==
  IF r.reverses # 0 THEN "REVERSAL"
  ELSE CASE r.type = "IN" /\ r.ref = "SALES_RETURN"     -> "RETURN"
         [] r.type = "OUT"                              -> "AVERAGE"
         [] r.type = "IN" /\ r.ref = "CLOSE_ADJUSTMENT" -> "AVERAGE"
         [] OTHER                                       -> "FIXED"

ReversalsOf(rs, i) == {j \in DOMAIN rs : rs[j].reverses = i}

-----------------------------------------------------------------------------
(* Quantities by date.                                                      *)

SumOf(rs, S) == MapThenSumSet(LAMBDA i : Signed(rs[i]), S)

\* What there is at the close of a day, and right after a row.
Closing(rs, S, d) == SumOf(rs, {i \in S : rs[i].day <= d})
Through(rs, S, i) == SumOf(rs, UpTo(rs, S, i))

\* cancelSameDayReversals: a row reversed on its own day does not count, nor
\* does its reversal.
Counted(rs) ==
  {i \in DOMAIN rs :
     ~ \E j \in DOMAIN rs : /\ rs[j].reverses # 0
                            /\ rs[rs[j].reverses].day = rs[j].day
                            /\ i \in {j, rs[j].reverses}}

\* fitsWithoutNegative: a new OUT goes at the end of its day, and from there on
\* no point is left below zero.
FitsWithoutNegative(rs, d, q) ==
  LET S == Counted(rs)
  IN  /\ Closing(rs, S, d) >= q
      /\ \A i \in S : rs[i].day > d => Through(rs, S, i) >= q

\* minRunningAfterReplace is not negative: every row counts, and the two rows of
\* the replacement go at the end of the day.
FitsReplacement(rs, d, old, new) ==
  LET S == DOMAIN rs
  IN  /\ Closing(rs, S, d) >= old
      /\ \A i \in S : rs[i].day > d => Through(rs, S, i) + new >= old

-----------------------------------------------------------------------------
(* Quantities and values.                                                   *)

NoStock == [qty |-> 0, value |-> 0]

\* One row of the running balance, at a cost: with nothing left there is no value.
Moved(s, r, cost) ==
  CASE r.type = "IN"  -> [qty |-> s.qty + r.qty,
                          value |-> IF s.qty <= 0 THEN cost ELSE s.value + cost]
    [] r.type = "OUT" -> [qty |-> s.qty - r.qty,
                          value |-> IF s.qty <= r.qty THEN 0 ELSE s.value - cost]
    [] OTHER          -> [s EXCEPT !.value = @ + cost]

AverageOutCost(s, q) ==
  CASE s.qty <= 0 -> 0
    [] s.qty > 0 /\ q >= s.qty -> IF s.value < 0 THEN 0 ELSE s.value
    [] OTHER -> HalfUp(q * s.value, s.qty)

IsRoundingNoise(delta, q) == Size(delta) < MinDelta \/ Size(delta) <= q

\* The cost of a row valued at the average of where it stands.
AtAverage(s, r) ==
  LET at == IF r.type = "OUT" THEN AverageOutCost(s, r.qty) ELSE HalfUp(r.qty * s.value, s.qty)
  IN  IF s.qty <= 0 \/ IsRoundingNoise(at - r.effective, r.qty) THEN r.effective ELSE at

\* Mutant: only a return follows; a reversal keeps the cost it had.
FollowCostOfReturns(rs, cost, r) ==
  CASE Rule(r) = "RETURN" -> HalfUp(cost[r.returns] * r.qty, rs[r.returns].qty)
    [] OTHER -> r.effective

\* followCost: the cost of a row that follows another, from what the other costs
\* so far in the replay: its effective cost, if it does not come before.
FollowCost(rs, cost, r) ==
  LET id == IF Rule(r) = "RETURN" THEN r.returns ELSE r.reverses
      source == rs[id]
      corrected == cost[id]
  IN  CASE Rule(r) = "RETURN" -> HalfUp(corrected * r.qty, source.qty)
        [] Rule(r) = "REVERSAL" /\ source.type # "ADJUST" -> corrected
        [] OTHER -> IF source.effective = 0 \/ corrected = source.effective
                    THEN r.effective
                    ELSE HalfUp(r.recorded * corrected, source.effective)

\* What the replay makes a row cost: those before its start stay as they are.
CostOfRow(rs, replayed, overrides, acc, i) ==
  LET r == rs[i]
  IN  CASE i \notin replayed -> r.effective
        [] i \in replayed /\ i \in DOMAIN overrides -> overrides[i]
        [] OTHER -> CASE Rule(r) = "AVERAGE" -> AtAverage(acc.stock, r)
                      [] Rule(r) \in {"REVERSAL", "RETURN"} -> FollowCost(rs, acc.cost, r)
                      [] OTHER -> r.effective

\* A row of a replay: its cost, and the balance after it.
Replayed(rs, replayed, overrides, acc, i) ==
  LET c == CostOfRow(rs, replayed, overrides, acc, i)
  IN  [stock |-> Moved(acc.stock, rs[i], c), cost |-> [acc.cost EXCEPT ![i] = c]]

\* Some rows, one after the other along their dates.
Along(rs, S, replayed, overrides) ==
  MapThenFoldSet(LAMBDA i, acc : Replayed(rs, replayed, overrides, acc, i),
                 [stock |-> NoStock, cost |-> [i \in DOMAIN rs |-> rs[i].effective]],
                 LAMBDA i : i, LAMBDA R : LastOf(rs, R), S)

\* replayItem: the cost of every row.
Replay(rs, replayed, overrides) == Along(rs, DOMAIN rs, replayed, overrides).cost

\* The balance after some rows, at effective costs; stockUpToDate, after those up
\* to the close of a day.
StockAfter(rs, S) == Along(rs, S, {}, <<>>).stock
StockUpToDate(rs, d) == StockAfter(rs, {i \in DOMAIN rs : rs[i].day <= d})

\* The rows whose cost a replay changes by a cent or more.
Corrected(rs, replayed, cost) ==
  {i \in replayed : Size(cost[i] - rs[i].effective) >= MinDelta}

=============================================================================
