-------------------------- MODULE ProductionProofs --------------------------
(***************************************************************************)
(* The production orders and their coils, Production.tla, for any number   *)
(* of orders, of coils and of kilos: a coil is with one order at most,     *)
(* what an order says it used of a coil left it, what it has left is in    *)
(* the coil whatever was closed, scrapped, undone and reopened, what       *)
(* terminated a coil still stands, the metres promised to a line were made *)
(* for it and are here, and a closing nobody built on can be undone.       *)
(***************************************************************************)
EXTENDS Production, Lemmas

-----------------------------------------------------------------------------
(* The rows, and the sets of them the argument is about.                    *)

RowType ==
  [item : Coils \cup {Product}, type : {"IN", "OUT", "ADJUST"}, qty : Nat \ {0},
   ref : {"REPORT", "CLOSE", "SALE", "SCRAP"}, owner : Orders \cup {Nobody}, reverses : Nat]

\* A row comes after the one it reverses.
RowsTyped(rs) ==
  /\ rs \in Seq(RowType)
  /\ \A i \in DOMAIN rs : rs[i].reverses < i

\* The rows that stand: neither a reversal nor reversed.
Stands(rs, i) == rs[i].reverses = 0 /\ \A j \in DOMAIN rs : rs[j].reverses # i
Standing(rs) == {i \in DOMAIN rs : Stands(rs, i)}

LiveOf(rs, x) == {i \in Standing(rs) : rs[i].item = x}

\* Of them, those in which an order used an item, and those of its closing.
UsedBy(rs, o, x) == {i \in LiveOf(rs, x) : rs[i].owner = o /\ rs[i].ref \in {"REPORT", "CLOSE"}}
ClosingOf(rs, o, x) == {i \in LiveOf(rs, x) : rs[i].owner = o /\ rs[i].ref = "CLOSE"}

\* The reports of an order, and the dispatches of its line.
OutsOf(rs, o, ref) ==
  {i \in Standing(rs) : rs[i].ref = ref /\ rs[i].owner = o /\ rs[i].type = "OUT"}
ReportsOf(rs, o) == OutsOf(rs, o, "REPORT")
SalesOf(rs, o) == OutsOf(rs, o, "SALE")

Before(S, i) == {j \in S : j < i}
After(S, i)  == {j \in S : j > i}
Entries(S)   == {i + 1 : i \in S}

\* The rows of the closings of an order on an item, reversed or not, and the last.
ClosingRows(rs, o, x) ==
  {i \in DOMAIN rs : rs[i].ref = "CLOSE" /\ rs[i].owner = o /\ rs[i].item = x}
LastOf(rs, then, o, x) ==
  IF ClosingRows(rs, o, x) = {} THEN then ELSE Max(ClosingRows(rs, o, x))
UpTo(S, n) == {i \in S : i <= n}

-----------------------------------------------------------------------------
(* Sums of the quantities of rows.                                          *)

LEMMA RowsAre ==
  ASSUME NEW rs, RowsTyped(rs)
  PROVE  /\ Len(rs) \in Nat /\ DOMAIN rs = 1..Len(rs) /\ IsFiniteSet(DOMAIN rs)
         /\ \A i \in DOMAIN rs : /\ rs[i] \in RowType /\ i \in Nat /\ i # 0 /\ i <= Len(rs)
                                 /\ rs[i].qty \in Nat /\ rs[i].qty > 0
<1>1. Len(rs) \in Nat /\ DOMAIN rs = 1..Len(rs) /\ \A i \in 1..Len(rs) : rs[i] \in RowType
  BY DEF RowsTyped
<1>2. IsFiniteSet(1..Len(rs))
  BY <1>1, FS_Interval
<1>3. \A r \in RowType : r.qty \in Nat /\ r.qty > 0
  BY DEF RowType
<1>. QED
  BY <1>1, <1>2, <1>3

LEMMA QtyNat ==
  ASSUME NEW rs, RowsTyped(rs), NEW S \in SUBSET DOMAIN rs
  PROVE  QtyOf(rs, S) \in Nat
<1>. DEFINE f == [i \in DOMAIN rs |-> rs[i].qty]
<1>1. IsFiniteSet(S) /\ \A i \in S : f[i] \in Nat
  BY RowsAre, FS_Subset
<1>2. SumFunctionOnSet(f, S) \in Nat
  <2>. HIDE DEF f
  <2>. QED
    BY <1>1, SumNat
<1>. QED
  BY <1>2 DEF QtyOf

LEMMA QtyNone ==
  ASSUME NEW rs
  PROVE  QtyOf(rs, {}) = 0
BY SumEmpty DEF QtyOf

LEMMA QtyWithout ==
  ASSUME NEW rs, RowsTyped(rs), NEW S \in SUBSET DOMAIN rs, NEW i \in S
  PROVE  QtyOf(rs, S \ {i}) = QtyOf(rs, S) - rs[i].qty
<1>. DEFINE f == [j \in DOMAIN rs |-> rs[j].qty]
<1>1. IsFiniteSet(S) /\ \A j \in S : f[j] \in Int
  BY RowsAre, FS_Subset
<1>2. SumFunctionOnSet(f, S) = f[i] + SumFunctionOnSet(f, S \ {i})
  <2>. HIDE DEF f
  <2>. QED
    BY <1>1, SumTakes
<1>3. QtyOf(rs, S) \in Nat /\ QtyOf(rs, S \ {i}) \in Nat /\ rs[i].qty \in Nat
  BY QtyNat, RowsAre
<1>. QED
  BY <1>2, <1>3 DEF QtyOf

LEMMA QtyWith ==
  ASSUME NEW rs, RowsTyped(rs), NEW S \in SUBSET DOMAIN rs, NEW i \in DOMAIN rs, i \notin S
  PROVE  QtyOf(rs, S \cup {i}) = QtyOf(rs, S) + rs[i].qty
<1>1. (S \cup {i}) \in SUBSET DOMAIN rs /\ i \in S \cup {i} /\ (S \cup {i}) \ {i} = S
  OBVIOUS
<1>2. QtyOf(rs, (S \cup {i}) \ {i}) = QtyOf(rs, S \cup {i}) - rs[i].qty
  BY <1>1, QtyWithout
<1>3. QtyOf(rs, S) \in Nat /\ QtyOf(rs, S \cup {i}) \in Nat /\ rs[i].qty \in Nat
  BY <1>1, QtyNat, RowsAre
<1>. QED
  BY <1>1, <1>2, <1>3

LEMMA QtyOfOne ==
  ASSUME NEW rs, RowsTyped(rs), NEW i \in DOMAIN rs
  PROVE  QtyOf(rs, {i}) = rs[i].qty
<1>1. QtyOf(rs, {} \cup {i}) = QtyOf(rs, {}) + rs[i].qty
  BY QtyWith
<1>2. {} \cup {i} = {i} /\ rs[i].qty \in Nat
  BY RowsAre
<1>. QED
  BY <1>1, <1>2, QtyNone

LEMMA QtyLess ==
  ASSUME NEW rs, RowsTyped(rs), NEW S \in SUBSET DOMAIN rs, NEW R \in SUBSET S
  PROVE  QtyOf(rs, R) <= QtyOf(rs, S)
<1>. DEFINE f == [i \in DOMAIN rs |-> rs[i].qty]
<1>1. IsFiniteSet(S) /\ \A i \in S : f[i] \in Nat
  BY RowsAre, FS_Subset
<1>2. SumFunctionOnSet(f, R) <= SumFunctionOnSet(f, S)
  <2>. HIDE DEF f
  <2>. QED
    BY <1>1, SumOfSubset
<1>. QED
  BY <1>2 DEF QtyOf

\* rt is rs and then some rows.
Grows(rs, rt) ==
  /\ RowsTyped(rs) /\ RowsTyped(rt)
  /\ DOMAIN rs \subseteq DOMAIN rt
  /\ \A i \in DOMAIN rs : rt[i] = rs[i]

LEMMA QtyKept ==
  ASSUME NEW rs, NEW rt, Grows(rs, rt), NEW S \in SUBSET DOMAIN rs
  PROVE  QtyOf(rt, S) = QtyOf(rs, S)
<1>. DEFINE f == [i \in DOMAIN rs |-> rs[i].qty]
            g == [i \in DOMAIN rt |-> rt[i].qty]
<1>1. IsFiniteSet(S)
  BY RowsAre, FS_Subset DEF Grows
<1>2. \A i \in S : g[i] = f[i]
  BY DEF Grows
<1>3. SumFunctionOnSet(g, S) = SumFunctionOnSet(f, S)
  <2>. HIDE DEF f, g
  <2>. QED
    BY <1>1, <1>2, SumSame
<1>. QED
  BY <1>3 DEF QtyOf

LEMMA MaxIs ==
  ASSUME NEW n \in Nat, NEW S \in SUBSET (1..n), S # {}
  PROVE  Max(S) \in S /\ \A i \in S : Max(S) >= i
<1>. DEFINE T == {n - i : i \in S}
<1>1. T \subseteq Nat /\ T # {}
  OBVIOUS
<1>2. PICK d \in T : \A e \in T : ~(<<e, d>> \in OpToRel(<, Nat))
  BY <1>1, NatLessThanWellFounded, WFMin
<1>3. PICK k \in S : d = n - k
  OBVIOUS
<1>4. ASSUME NEW i \in S PROVE k >= i
  <2>1. n - i \in T /\ n - i \in Nat /\ d \in Nat
    BY <1>1
  <2>2. ~(n - i < d)
    BY <1>2, <2>1 DEF OpToRel
  <2>. QED
    BY <1>3, <2>1, <2>2
<1>. QED
  BY <1>4 DEF Max

LEMMA LastIs ==
  ASSUME NEW rs, RowsTyped(rs), NEW then \in 0..Len(rs), NEW o, NEW x
  PROVE  /\ LastOf(rs, then, o, x) \in 0..Len(rs)
         /\ \A i \in ClosingRows(rs, o, x) : i <= LastOf(rs, then, o, x)
<1>1. PICK n \in Nat : n = Len(rs) /\ DOMAIN rs = 1..n
  BY RowsAre
<1>2. ClosingRows(rs, o, x) \in SUBSET (1..n)
  BY <1>1 DEF ClosingRows
<1>3. CASE ClosingRows(rs, o, x) = {}
  BY <1>1, <1>3 DEF LastOf
<1>4. CASE ClosingRows(rs, o, x) # {}
  <2>. DEFINE S == ClosingRows(rs, o, x)
  <2>1. Max(S) \in S /\ \A i \in S : Max(S) >= i
    BY <1>2, <1>4, MaxIs
  <2>2. LastOf(rs, then, o, x) = Max(S)
    BY <1>4 DEF LastOf
  <2>. HIDE DEF S
  <2>3. S \in SUBSET (1..n)
    BY <1>2 DEF S
  <2>. QED
    BY <1>1, <2>1, <2>2, <2>3 DEF S
<1>. QED
  BY <1>3, <1>4

-----------------------------------------------------------------------------
(* What happens to the rows of an item.                                     *)

NewOf(rs, rt, x) == {i \in DOMAIN rt \ DOMAIN rs : rt[i].item = x}

\* Nothing; kilos leave, in the row k; a row i is reversed, in the row k.
Rests(rs, rt, x) ==
  /\ Grows(rs, rt)
  /\ NewOf(rs, rt, x) = {} /\ LiveOf(rt, x) = LiveOf(rs, x)
Takes(rs, rt, x, k) ==
  /\ Grows(rs, rt)
  /\ k \in DOMAIN rt \ DOMAIN rs /\ NewOf(rs, rt, x) = {k} /\ rt[k].type = "OUT"
  /\ LiveOf(rt, x) = LiveOf(rs, x) \cup {k}
Gives(rs, rt, x, i, k) ==
  /\ Grows(rs, rt)
  /\ i \in LiveOf(rs, x)
  /\ k \in DOMAIN rt \ DOMAIN rs /\ NewOf(rs, rt, x) = {k} /\ rt[k].type = "IN"
  /\ rt[k].qty = rs[i].qty /\ rt[k].ref = rs[i].ref /\ rt[k].owner = rs[i].owner
  /\ LiveOf(rt, x) = LiveOf(rs, x) \ {i}

RowsOf(rs, x, type) == {i \in DOMAIN rs : rs[i].item = x /\ rs[i].type = type}

LEMMA StockIs ==
  ASSUME NEW rs, NEW x
  PROVE  Stock(rs, x) = (IF x \in Coils THEN Weight ELSE 0)
                          + QtyOf(rs, RowsOf(rs, x, "IN")) - QtyOf(rs, RowsOf(rs, x, "OUT"))
BY DEF Stock, RowsOf

LEMMA StockInt ==
  ASSUME ProductionAssumption, NEW rs, RowsTyped(rs), NEW x
  PROVE  Stock(rs, x) \in Int
<1>1. RowsOf(rs, x, "IN") \in SUBSET DOMAIN rs /\ RowsOf(rs, x, "OUT") \in SUBSET DOMAIN rs
  BY DEF RowsOf
<1>2. QtyOf(rs, RowsOf(rs, x, "IN")) \in Nat /\ QtyOf(rs, RowsOf(rs, x, "OUT")) \in Nat
  BY <1>1, QtyNat
<1>. QED
  BY <1>2, StockIs DEF ProductionAssumption

\* The rows of a type change as the new rows are of it or not.
LEMMA RowsOfKept ==
  ASSUME NEW rs, NEW rt, Grows(rs, rt), NEW x, NEW type,
         \A i \in NewOf(rs, rt, x) : rt[i].type # type
  PROVE  QtyOf(rt, RowsOf(rt, x, type)) = QtyOf(rs, RowsOf(rs, x, type))
<1>1. RowsOf(rt, x, type) = RowsOf(rs, x, type)
  BY DEF RowsOf, Grows, NewOf
<1>2. RowsOf(rs, x, type) \in SUBSET DOMAIN rs
  BY DEF RowsOf
<1>. QED
  BY <1>1, <1>2, QtyKept

LEMMA RowsOfGrow ==
  ASSUME NEW rs, NEW rt, Grows(rs, rt), NEW x, NEW k, NewOf(rs, rt, x) = {k}
  PROVE  QtyOf(rt, RowsOf(rt, x, rt[k].type)) = QtyOf(rs, RowsOf(rs, x, rt[k].type)) + rt[k].qty
<1>. DEFINE type == rt[k].type
<1>1. k \in DOMAIN rt /\ k \notin DOMAIN rs
  BY DEF NewOf
<1>2. RowsOf(rt, x, type) = RowsOf(rs, x, type) \cup {k}
  BY DEF RowsOf, Grows, NewOf
<1>3. RowsOf(rs, x, type) \in SUBSET DOMAIN rs /\ DOMAIN rs \subseteq DOMAIN rt
  BY DEF RowsOf, Grows
<1>4. QtyOf(rt, RowsOf(rs, x, type)) = QtyOf(rs, RowsOf(rs, x, type))
  BY <1>3, QtyKept
<1>5. QtyOf(rt, RowsOf(rs, x, type) \cup {k}) = QtyOf(rt, RowsOf(rs, x, type)) + rt[k].qty
  BY <1>1, <1>3, QtyWith DEF Grows
<1>. QED
  BY <1>2, <1>4, <1>5

-----------------------------------------------------------------------------
(* What each of them does to the kilos of the item.                         *)

\* The rows of every order on the item, and the last of its closings.
SameUse(rs, rt, x) ==
  \A p \in Orders : /\ QtyOf(rt, UsedBy(rt, p, x)) = QtyOf(rs, UsedBy(rs, p, x))
                    /\ UsedBy(rt, p, x) = UsedBy(rs, p, x)

LEMMA RestsIs ==
  ASSUME NEW rs, NEW rt, NEW x, Rests(rs, rt, x)
  PROVE  /\ Stock(rt, x) = Stock(rs, x)
         /\ LiveOf(rt, x) = LiveOf(rs, x)
         /\ QtyOf(rt, LiveOf(rt, x)) = QtyOf(rs, LiveOf(rs, x))
         /\ SameUse(rs, rt, x)
         /\ \A p \in Orders : /\ ClosingOf(rt, p, x) = ClosingOf(rs, p, x)
                              /\ ClosingRows(rt, p, x) = ClosingRows(rs, p, x)
<1>1. Grows(rs, rt) /\ NewOf(rs, rt, x) = {} /\ LiveOf(rt, x) = LiveOf(rs, x)
  BY DEF Rests
<1>2. LiveOf(rs, x) \in SUBSET DOMAIN rs /\ \A i \in LiveOf(rs, x) : rt[i] = rs[i]
  BY <1>1 DEF LiveOf, Standing, Grows
<1>3. QtyOf(rt, LiveOf(rs, x)) = QtyOf(rs, LiveOf(rs, x))
  BY <1>1, <1>2, QtyKept
<1>4. ASSUME NEW p \in Orders
      PROVE  UsedBy(rt, p, x) = UsedBy(rs, p, x) /\ ClosingOf(rt, p, x) = ClosingOf(rs, p, x)
  BY <1>1, <1>2 DEF UsedBy, ClosingOf
<1>5. ASSUME NEW p \in Orders PROVE QtyOf(rt, UsedBy(rs, p, x)) = QtyOf(rs, UsedBy(rs, p, x))
  <2>1. UsedBy(rs, p, x) \in SUBSET DOMAIN rs
    BY <1>2 DEF UsedBy
  <2>. QED
    BY <1>1, <2>1, QtyKept
<1>6. ASSUME NEW p \in Orders PROVE ClosingRows(rt, p, x) = ClosingRows(rs, p, x)
  BY <1>1 DEF ClosingRows, NewOf, Grows
<1>7. Stock(rt, x) = Stock(rs, x)
  <2>1. QtyOf(rt, RowsOf(rt, x, "IN")) = QtyOf(rs, RowsOf(rs, x, "IN"))
    BY <1>1, RowsOfKept
  <2>2. QtyOf(rt, RowsOf(rt, x, "OUT")) = QtyOf(rs, RowsOf(rs, x, "OUT"))
    BY <1>1, RowsOfKept
  <2>. QED
    BY <2>1, <2>2, StockIs
<1>. QED
  BY <1>1, <1>3, <1>4, <1>5, <1>6, <1>7 DEF SameUse

LEMMA TakesIs ==
  ASSUME ProductionAssumption, NEW rs, NEW rt, NEW x, NEW k, Takes(rs, rt, x, k)
  PROVE  /\ rt[k].qty \in Nat \ {0}
         /\ Stock(rt, x) = Stock(rs, x) - rt[k].qty
         /\ QtyOf(rt, LiveOf(rt, x)) = QtyOf(rs, LiveOf(rs, x)) + rt[k].qty
         /\ k > Len(rs)
<1>1. /\ Grows(rs, rt) /\ RowsTyped(rs) /\ RowsTyped(rt)
      /\ k \in DOMAIN rt /\ k \notin DOMAIN rs /\ NewOf(rs, rt, x) = {k} /\ rt[k].type = "OUT"
      /\ LiveOf(rt, x) = LiveOf(rs, x) \cup {k}
  BY DEF Takes, Grows
<1>2. LiveOf(rs, x) \in SUBSET DOMAIN rs /\ LiveOf(rs, x) \in SUBSET DOMAIN rt /\ k \notin LiveOf(rs, x)
  BY <1>1 DEF LiveOf, Standing, Grows
<1>3. QtyOf(rt, LiveOf(rs, x)) = QtyOf(rs, LiveOf(rs, x))
  BY <1>1, <1>2, QtyKept
<1>4. QtyOf(rt, LiveOf(rs, x) \cup {k}) = QtyOf(rt, LiveOf(rs, x)) + rt[k].qty
  BY <1>1, <1>2, QtyWith
<1>5. rt[k].qty \in Nat \ {0} /\ k > Len(rs)
  <2>1. Len(rs) \in Nat /\ DOMAIN rs = 1..Len(rs) /\ k \in Nat /\ k # 0 /\ rt[k].qty \in Nat /\ rt[k].qty > 0
    BY <1>1, RowsAre
  <2>. QED
    BY <1>1, <2>1
<1>6. Stock(rt, x) = Stock(rs, x) - rt[k].qty
  <2>1. QtyOf(rt, RowsOf(rt, x, "OUT")) = QtyOf(rs, RowsOf(rs, x, "OUT")) + rt[k].qty
    BY <1>1, RowsOfGrow
  <2>2. QtyOf(rt, RowsOf(rt, x, "IN")) = QtyOf(rs, RowsOf(rs, x, "IN"))
    BY <1>1, RowsOfKept
  <2>3. RowsOf(rs, x, "IN") \in SUBSET DOMAIN rs /\ RowsOf(rs, x, "OUT") \in SUBSET DOMAIN rs
    BY DEF RowsOf
  <2>4. QtyOf(rs, RowsOf(rs, x, "IN")) \in Nat /\ QtyOf(rs, RowsOf(rs, x, "OUT")) \in Nat
    BY <1>1, <2>3, QtyNat
  <2>. QED
    BY <1>5, <2>1, <2>2, <2>4, StockIs DEF ProductionAssumption
<1>. QED
  BY <1>1, <1>3, <1>4, <1>5, <1>6

LEMMA GivesIs ==
  ASSUME ProductionAssumption, NEW rs, NEW rt, NEW x, NEW i, NEW k, Gives(rs, rt, x, i, k)
  PROVE  /\ rs[i].qty \in Nat \ {0}
         /\ Stock(rt, x) = Stock(rs, x) + rs[i].qty
         /\ QtyOf(rt, LiveOf(rt, x)) = QtyOf(rs, LiveOf(rs, x)) - rs[i].qty
<1>1. /\ Grows(rs, rt) /\ RowsTyped(rs) /\ RowsTyped(rt) /\ i \in LiveOf(rs, x)
      /\ NewOf(rs, rt, x) = {k} /\ rt[k].type = "IN" /\ rt[k].qty = rs[i].qty
      /\ LiveOf(rt, x) = LiveOf(rs, x) \ {i}
  BY DEF Gives, Grows
<1>2. LiveOf(rs, x) \in SUBSET DOMAIN rs /\ (LiveOf(rs, x) \ {i}) \in SUBSET DOMAIN rs /\ i \in DOMAIN rs
  BY <1>1 DEF LiveOf, Standing
<1>3. QtyOf(rt, LiveOf(rs, x) \ {i}) = QtyOf(rs, LiveOf(rs, x) \ {i})
  BY <1>1, <1>2, QtyKept
<1>4. QtyOf(rs, LiveOf(rs, x) \ {i}) = QtyOf(rs, LiveOf(rs, x)) - rs[i].qty
  BY <1>1, <1>2, QtyWithout
<1>5. rs[i].qty \in Nat \ {0}
  <2>1. rs[i].qty \in Nat /\ rs[i].qty > 0
    BY <1>1, <1>2, RowsAre
  <2>. QED
    BY <2>1
<1>6. Stock(rt, x) = Stock(rs, x) + rs[i].qty
  <2>1. QtyOf(rt, RowsOf(rt, x, "IN")) = QtyOf(rs, RowsOf(rs, x, "IN")) + rt[k].qty
    BY <1>1, RowsOfGrow
  <2>2. QtyOf(rt, RowsOf(rt, x, "OUT")) = QtyOf(rs, RowsOf(rs, x, "OUT"))
    BY <1>1, RowsOfKept
  <2>3. RowsOf(rs, x, "IN") \in SUBSET DOMAIN rs /\ RowsOf(rs, x, "OUT") \in SUBSET DOMAIN rs
    BY DEF RowsOf
  <2>4. QtyOf(rs, RowsOf(rs, x, "IN")) \in Nat /\ QtyOf(rs, RowsOf(rs, x, "OUT")) \in Nat
    BY <1>1, <2>3, QtyNat
  <2>. QED
    BY <1>1, <1>5, <2>1, <2>2, <2>4, StockIs DEF ProductionAssumption
<1>. QED
  BY <1>1, <1>3, <1>4, <1>5, <1>6

\* What an order used of the item, row by row.
LEMMA UsedIsLive ==
  ASSUME NEW rs, NEW p, NEW x
  PROVE  /\ UsedBy(rs, p, x) \in SUBSET LiveOf(rs, x) /\ UsedBy(rs, p, x) \in SUBSET DOMAIN rs
         /\ ClosingOf(rs, p, x) \in SUBSET UsedBy(rs, p, x)
         /\ LiveOf(rs, x) \in SUBSET DOMAIN rs
BY DEF UsedBy, ClosingOf, LiveOf, Standing

LEMMA UsedTakes ==
  ASSUME NEW rs, NEW rt, NEW x, NEW k, Takes(rs, rt, x, k), NEW p \in Orders
  PROVE  /\ (rt[k].owner = p /\ rt[k].ref \in {"REPORT", "CLOSE"}) =>
              /\ UsedBy(rt, p, x) = UsedBy(rs, p, x) \cup {k}
              /\ QtyOf(rt, UsedBy(rt, p, x)) = QtyOf(rs, UsedBy(rs, p, x)) + rt[k].qty
         /\ rt[k].owner # p =>
              /\ UsedBy(rt, p, x) = UsedBy(rs, p, x)
              /\ QtyOf(rt, UsedBy(rt, p, x)) = QtyOf(rs, UsedBy(rs, p, x))
         /\ (rt[k].owner = p /\ rt[k].ref = "CLOSE") => ClosingOf(rt, p, x) = ClosingOf(rs, p, x) \cup {k}
         /\ (rt[k].owner # p \/ rt[k].ref # "CLOSE") =>
              /\ ClosingOf(rt, p, x) = ClosingOf(rs, p, x)
              /\ ClosingRows(rt, p, x) = ClosingRows(rs, p, x)
<1>1. /\ Grows(rs, rt) /\ RowsTyped(rt)
      /\ k \in DOMAIN rt /\ k \notin DOMAIN rs /\ NewOf(rs, rt, x) = {k}
      /\ LiveOf(rt, x) = LiveOf(rs, x) \cup {k}
      /\ DOMAIN rs \subseteq DOMAIN rt /\ \A i \in DOMAIN rs : rt[i] = rs[i]
  BY DEF Takes, Grows
<1>2. LiveOf(rs, x) \in SUBSET DOMAIN rs
  BY DEF LiveOf, Standing
<1>3. /\ UsedBy(rs, p, x) \in SUBSET DOMAIN rs /\ UsedBy(rs, p, x) \in SUBSET DOMAIN rt
      /\ k \notin UsedBy(rs, p, x)
  BY <1>1, <1>2 DEF UsedBy
<1>4. QtyOf(rt, UsedBy(rs, p, x)) = QtyOf(rs, UsedBy(rs, p, x))
  BY <1>1, <1>3, QtyKept
<1>5. ASSUME rt[k].owner = p, rt[k].ref \in {"REPORT", "CLOSE"}
      PROVE  /\ UsedBy(rt, p, x) = UsedBy(rs, p, x) \cup {k}
             /\ QtyOf(rt, UsedBy(rt, p, x)) = QtyOf(rs, UsedBy(rs, p, x)) + rt[k].qty
  <2>1. UsedBy(rt, p, x) = UsedBy(rs, p, x) \cup {k}
    BY <1>1, <1>2, <1>5 DEF UsedBy
  <2>2. QtyOf(rt, UsedBy(rs, p, x) \cup {k}) = QtyOf(rt, UsedBy(rs, p, x)) + rt[k].qty
    BY <1>1, <1>3, QtyWith
  <2>. QED
    BY <1>4, <2>1, <2>2
<1>6. ASSUME rt[k].owner # p PROVE UsedBy(rt, p, x) = UsedBy(rs, p, x)
  BY <1>1, <1>2, <1>6 DEF UsedBy
<1>7. ASSUME rt[k].owner = p, rt[k].ref = "CLOSE"
      PROVE  ClosingOf(rt, p, x) = ClosingOf(rs, p, x) \cup {k}
  BY <1>1, <1>2, <1>7 DEF ClosingOf
<1>8. ASSUME rt[k].owner # p \/ rt[k].ref # "CLOSE"
      PROVE  /\ ClosingOf(rt, p, x) = ClosingOf(rs, p, x)
             /\ ClosingRows(rt, p, x) = ClosingRows(rs, p, x)
  <2>1. ClosingOf(rt, p, x) = ClosingOf(rs, p, x)
    BY <1>1, <1>2, <1>8 DEF ClosingOf
  <2>2. \A i \in DOMAIN rt : i \in DOMAIN rs \/ rt[i].item # x \/ i = k
    BY <1>1 DEF NewOf
  <2>3. ClosingRows(rt, p, x) = ClosingRows(rs, p, x)
    BY <1>1, <1>8, <2>2 DEF ClosingRows
  <2>. QED
    BY <2>1, <2>3
<1>. QED
  BY <1>4, <1>5, <1>6, <1>7, <1>8

LEMMA UsedGives ==
  ASSUME NEW rs, NEW rt, NEW x, NEW i, NEW k, Gives(rs, rt, x, i, k), NEW p \in Orders
  PROVE  /\ UsedBy(rt, p, x) = UsedBy(rs, p, x) \ {i}
         /\ ClosingOf(rt, p, x) = ClosingOf(rs, p, x) \ {i}
         /\ (rs[i].owner = p /\ rs[i].ref \in {"REPORT", "CLOSE"}) =>
              QtyOf(rt, UsedBy(rt, p, x)) = QtyOf(rs, UsedBy(rs, p, x)) - rs[i].qty
         /\ rs[i].owner # p =>
              /\ UsedBy(rt, p, x) = UsedBy(rs, p, x)
              /\ QtyOf(rt, UsedBy(rt, p, x)) = QtyOf(rs, UsedBy(rs, p, x))
         /\ (rs[i].owner # p \/ rs[i].ref # "CLOSE") =>
              /\ ClosingOf(rt, p, x) = ClosingOf(rs, p, x)
              /\ ClosingRows(rt, p, x) = ClosingRows(rs, p, x)
<1>1. /\ Grows(rs, rt) /\ RowsTyped(rs) /\ i \in LiveOf(rs, x)
      /\ NewOf(rs, rt, x) = {k} /\ rt[k].ref = rs[i].ref /\ rt[k].owner = rs[i].owner
      /\ LiveOf(rt, x) = LiveOf(rs, x) \ {i}
      /\ DOMAIN rs \subseteq DOMAIN rt /\ \A j \in DOMAIN rs : rt[j] = rs[j]
  BY DEF Gives, Grows
<1>2. LiveOf(rs, x) \in SUBSET DOMAIN rs
  BY DEF LiveOf, Standing
<1>3. UsedBy(rt, p, x) = UsedBy(rs, p, x) \ {i} /\ ClosingOf(rt, p, x) = ClosingOf(rs, p, x) \ {i}
  BY <1>1, <1>2 DEF UsedBy, ClosingOf
<1>4. UsedBy(rs, p, x) \in SUBSET DOMAIN rs /\ (UsedBy(rs, p, x) \ {i}) \in SUBSET DOMAIN rs
  BY <1>2 DEF UsedBy
<1>5. QtyOf(rt, UsedBy(rt, p, x)) = QtyOf(rs, UsedBy(rs, p, x) \ {i})
  BY <1>1, <1>3, <1>4, QtyKept
<1>6. ASSUME rs[i].owner = p, rs[i].ref \in {"REPORT", "CLOSE"}
      PROVE  QtyOf(rt, UsedBy(rt, p, x)) = QtyOf(rs, UsedBy(rs, p, x)) - rs[i].qty
  <2>1. i \in UsedBy(rs, p, x)
    BY <1>1, <1>6 DEF UsedBy
  <2>. QED
    BY <1>1, <1>4, <1>5, <2>1, QtyWithout
<1>7. ASSUME rs[i].owner # p PROVE UsedBy(rs, p, x) \ {i} = UsedBy(rs, p, x)
  BY <1>7 DEF UsedBy
<1>8. ASSUME rs[i].owner # p \/ rs[i].ref # "CLOSE"
      PROVE  /\ ClosingOf(rs, p, x) \ {i} = ClosingOf(rs, p, x)
             /\ ClosingRows(rt, p, x) = ClosingRows(rs, p, x)
  <2>1. ClosingOf(rs, p, x) \ {i} = ClosingOf(rs, p, x)
    BY <1>8 DEF ClosingOf
  <2>2. \A j \in DOMAIN rt : j \in DOMAIN rs \/ rt[j].item # x \/ j = k
    BY <1>1 DEF NewOf
  <2>3. ClosingRows(rt, p, x) = ClosingRows(rs, p, x)
    BY <1>1, <1>8, <2>2 DEF ClosingRows
  <2>. QED
    BY <2>1, <2>3
<1>. QED
  BY <1>3, <1>5, <1>6, <1>7, <1>8

-----------------------------------------------------------------------------
(* A coil: who has it, who gave it back, what left it, and what ended it.   *)

LeftOf(m, o, c) == m[o][c].assigned - m[o][c].consumed

OrderType ==
  [status : {"DRAFT", "IN_PROGRESS", "CLOSED", "CANCELLED"}, rowsThen : Nat, recosted : BOOLEAN]
CellType  == [state : {"none", "live", "closed"}, assigned : Nat, consumed : Nat]
CauseType == [order : Orders \cup {Nobody}, row : Nat]

Orderly(rs, ord, m) ==
  /\ RowsTyped(rs)
  /\ ord \in [Orders -> OrderType] /\ \A o \in Orders : ord[o].rowsThen <= Len(rs)
  /\ m \in [Orders -> [Coils -> CellType]]

Going(ord, o)      == ord[o].status \in {"DRAFT", "IN_PROGRESS"}
GaveBack(m, o, c)  == m[o][c].state = "closed"
Involved(m, o, c)  == m[o][c].state # "none"

\* One order has it, and it is one that goes on; those that gave it back closed.
Custody(ord, m, b, c) ==
  /\ \A o, p \in Orders : Has(m, o, c) /\ Has(m, p, c) => o = p
  /\ \A o \in Orders : /\ Has(m, o, c) => Going(ord, o) /\ b = Open
                       /\ GaveBack(m, o, c) => ord[o].status = "CLOSED"
                       /\ ~Involved(m, o, c) => m[o][c] = NotMounted
                       /\ Involved(m, o, c) => m[o][c].assigned > 0

\* What an order used of it are its rows that stand.
UsedUp(rs, m, c) == \A o \in Orders : m[o][c].consumed = QtyOf(rs, UsedBy(rs, o, c))

\* Its kilos are what it came with, without the rows that stand; those of an order
\* are among them.
InCoil(rs, m, c) ==
  /\ Stock(rs, c) = Weight - QtyOf(rs, LiveOf(rs, c)) /\ Stock(rs, c) >= 0
  /\ \A o \in Orders : /\ Involved(m, o, c) => LeftOf(m, o, c) >= 0
                       /\ Has(m, o, c) => LeftOf(m, o, c) <= Stock(rs, c)

\* What an order left in it was there with the last row of its closing.
LeftThen(rs, ord, m, c) ==
  \A o \in Orders : GaveBack(m, o, c) =>
    LeftOf(m, o, c)
      <= Weight - QtyOf(rs, UpTo(LiveOf(rs, c), LastOf(rs, ord[o].rowsThen, o, c)))

\* What ended it stands; nothing did, and somebody has what is left of it.
Ends(rs, m, b, c) ==
  /\ b = Open => (Stock(rs, c) = 0 => ~Free(m, c))
  /\ (b # Open /\ b.order = Nobody) => b.row \in LiveOf(rs, c) /\ rs[b.row].ref = "SCRAP"
  /\ b.order # Nobody => b = ClosesAs(b.order) /\ GaveBack(m, b.order, c)

\* Of the closing of an order at most one row stands on an item, one of its last
\* closing, while it is closed.
Closings(rs, ord, x) ==
  \A o \in Orders :
    /\ \A i \in ClosingOf(rs, o, x) : ord[o].status = "CLOSED" /\ i > ord[o].rowsThen
    /\ \A i, j \in ClosingOf(rs, o, x) : i = j
ClosedWith(rs, m, c) == \A o \in Orders : ClosingOf(rs, o, c) # {} => GaveBack(m, o, c)

\* The rows of p on it since the closing of o.
Since(rs, ord, o, p, c) == {i \in UsedBy(rs, p, c) : i > ord[o].rowsThen}

\* An order that had it before does not find it empty by others alone.
Later(rs, ord, m, b, c) ==
  \A o, p \in Orders : (GaveBack(m, o, c) /\ o # p) =>
    /\ Has(m, p, c) => QtyOf(rs, LiveOf(rs, c) \ Since(rs, ord, o, p, c)) < Weight
    /\ b = ClosesAs(p) => Since(rs, ord, o, p, c) # {}
ScrapLater(ord, m, b, c) ==
  \A o \in Orders : (GaveBack(m, o, c) /\ b # Open /\ b.order = Nobody) => b.row > ord[o].rowsThen

\* All of it, of one coil.
CoilOK(rs, ord, m, b, c) ==
  /\ Custody(ord, m, b, c) /\ UsedUp(rs, m, c) /\ InCoil(rs, m, c) /\ LeftThen(rs, ord, m, c)
  /\ Ends(rs, m, b, c) /\ Closings(rs, ord, c) /\ ClosedWith(rs, m, c)
  /\ Later(rs, ord, m, b, c) /\ ScrapLater(ord, m, b, c)
  /\ b \in CauseType

\* The orders that have or had the coil are as they were.
SameOrders(ord, ord2, m, m2, c) ==
  \A p \in Orders :
    /\ m2[p][c] = m[p][c]
    /\ Involved(m, p, c) => /\ ord2[p].rowsThen = ord[p].rowsThen
                            /\ Going(ord2, p) <=> Going(ord, p)
                            /\ (ord2[p].status = "CLOSED") <=> (ord[p].status = "CLOSED")

LEMMA SameCells ==
  ASSUME NEW ord, NEW ord2, NEW m, NEW m2, NEW c, SameOrders(ord, ord2, m, m2, c)
  PROVE  \A p \in Orders : /\ m2[p][c] = m[p][c] /\ LeftOf(m2, p, c) = LeftOf(m, p, c)
                           /\ Has(m2, p, c) <=> Has(m, p, c)
                           /\ GaveBack(m2, p, c) <=> GaveBack(m, p, c)
                           /\ Involved(m2, p, c) <=> Involved(m, p, c)
                           /\ Free(m2, c) <=> Free(m, c)
BY DEF SameOrders, LeftOf, Has, GaveBack, Involved, Free

LEMMA SameCustody ==
  ASSUME NEW ord, NEW ord2, NEW m, NEW m2, NEW b, NEW b2, NEW c,
         SameOrders(ord, ord2, m, m2, c), Custody(ord, m, b, c), b = Open => b2 = Open
  PROVE  Custody(ord2, m2, b2, c)
<1>1. \A o, p \in Orders : Has(m2, o, c) /\ Has(m2, p, c) => o = p
  BY SameCells DEF Custody
<1>2. ASSUME NEW o \in Orders
      PROVE  /\ Has(m2, o, c) => Going(ord2, o) /\ b2 = Open
             /\ GaveBack(m2, o, c) => ord2[o].status = "CLOSED"
             /\ ~Involved(m2, o, c) => m2[o][c] = NotMounted
             /\ Involved(m2, o, c) => m2[o][c].assigned > 0
  <2>1. /\ m2[o][c] = m[o][c]
        /\ Involved(m, o, c) => /\ Going(ord2, o) <=> Going(ord, o)
                                /\ (ord2[o].status = "CLOSED") <=> (ord[o].status = "CLOSED")
    BY DEF SameOrders
  <2>. QED
    BY <2>1 DEF Custody, Has, GaveBack, Involved
<1>. QED
  BY <1>1, <1>2 DEF Custody

-----------------------------------------------------------------------------
(* Nothing happens to it.                                                   *)

\* What an order left in it does not depend on what comes after.
LEMMA LeftThenKept ==
  ASSUME ProductionAssumption,
         NEW rs, NEW rt, Grows(rs, rt), NEW c, NEW then \in 0..Len(rs), NEW p \in Orders,
         ClosingRows(rt, p, c) = ClosingRows(rs, p, c),
         \A i \in LiveOf(rt, c) : i \in LiveOf(rs, c) \/ i > Len(rs)
  PROVE  QtyOf(rt, UpTo(LiveOf(rt, c), LastOf(rt, then, p, c)))
           <= QtyOf(rs, UpTo(LiveOf(rs, c), LastOf(rs, then, p, c)))
<1>. DEFINE n == LastOf(rs, then, p, c)
<1>1. RowsTyped(rs) /\ RowsTyped(rt)
  BY DEF Grows
<1>2. n \in 0..Len(rs)
  BY <1>1, LastIs
<1>3. LastOf(rt, then, p, c) = n
  BY DEF LastOf
<1>. HIDE DEF n
<1>4. Len(rs) \in Nat /\ DOMAIN rs = 1..Len(rs)
  BY <1>1, RowsAre
<1>5. LiveOf(rs, c) \in SUBSET DOMAIN rs /\ LiveOf(rt, c) \in SUBSET DOMAIN rt
  BY UsedIsLive
<1>6. UpTo(LiveOf(rt, c), n) \in SUBSET UpTo(LiveOf(rs, c), n)
  <2>1. \A i \in DOMAIN rt : i \in Nat
    BY <1>1, RowsAre
  <2>. QED
    BY <1>2, <1>4, <1>5, <2>1 DEF UpTo
<1>7. UpTo(LiveOf(rs, c), n) \in SUBSET DOMAIN rs
  BY <1>5 DEF UpTo
<1>8. QtyOf(rt, UpTo(LiveOf(rt, c), n)) = QtyOf(rs, UpTo(LiveOf(rt, c), n))
  <2>1. UpTo(LiveOf(rt, c), n) \in SUBSET DOMAIN rs
    BY <1>6, <1>7
  <2>. QED
    BY <2>1, QtyKept
<1>9. QtyOf(rs, UpTo(LiveOf(rt, c), n)) <= QtyOf(rs, UpTo(LiveOf(rs, c), n))
  BY <1>1, <1>6, <1>7, QtyLess
<1>. QED
  BY <1>3, <1>8, <1>9 DEF n

\* Numbers of a coil and of those that have or had it.
LEMMA CellsAre ==
  ASSUME NEW rs, NEW ord, NEW m, Orderly(rs, ord, m), NEW c \in Coils, NEW p \in Orders
  PROVE  /\ ord[p].rowsThen \in 0..Len(rs) /\ ord[p].rowsThen \in Nat
         /\ m[p][c].assigned \in Nat /\ m[p][c].consumed \in Nat /\ LeftOf(m, p, c) \in Int
         /\ m[p][c].state \in {"none", "live", "closed"}
         /\ Has(m, p, c) => Involved(m, p, c) /\ ~GaveBack(m, p, c)
         /\ GaveBack(m, p, c) => Involved(m, p, c)
         /\ Involved(m, p, c) => Has(m, p, c) \/ GaveBack(m, p, c)
<1>1. ord[p].rowsThen \in Nat /\ ord[p].rowsThen <= Len(rs) /\ Len(rs) \in Nat
  BY RowsAre DEF Orderly, OrderType
<1>2. m[p][c] \in CellType
  BY DEF Orderly
<1>. QED
  BY <1>1, <1>2 DEF CellType, LeftOf, Has, Involved, GaveBack

LEMMA SinceIs ==
  ASSUME NEW rs, NEW ord, NEW o, NEW p, NEW c
  PROVE  /\ Since(rs, ord, o, p, c) \in SUBSET UsedBy(rs, p, c)
         /\ Since(rs, ord, o, p, c) \in SUBSET LiveOf(rs, c)
         /\ Since(rs, ord, o, p, c) \in SUBSET DOMAIN rs
         /\ (LiveOf(rs, c) \ Since(rs, ord, o, p, c)) \in SUBSET DOMAIN rs
BY UsedIsLive DEF Since

LEMMA CoilRests ==
  ASSUME ProductionAssumption, NEW rs, NEW rt, NEW ord, NEW ord2, NEW m, NEW m2, NEW b,
         NEW c \in Coils, Orderly(rs, ord, m), Orderly(rt, ord2, m2),
         Rests(rs, rt, c), SameOrders(ord, ord2, m, m2, c), CoilOK(rs, ord, m, b, c)
  PROVE  CoilOK(rt, ord2, m2, b, c)
<1>. USE DEF CoilOK
<1>1. /\ Grows(rs, rt) /\ LiveOf(rt, c) = LiveOf(rs, c) /\ Stock(rt, c) = Stock(rs, c)
      /\ QtyOf(rt, LiveOf(rt, c)) = QtyOf(rs, LiveOf(rs, c))
      /\ \A p \in Orders : /\ UsedBy(rt, p, c) = UsedBy(rs, p, c)
                           /\ QtyOf(rt, UsedBy(rt, p, c)) = QtyOf(rs, UsedBy(rs, p, c))
                           /\ ClosingOf(rt, p, c) = ClosingOf(rs, p, c)
                           /\ ClosingRows(rt, p, c) = ClosingRows(rs, p, c)
  BY RestsIs DEF SameUse, Rests
<1>2. Custody(ord2, m2, b, c)
  BY SameCustody
<1>3. UsedUp(rt, m2, c)
  BY <1>1, SameCells DEF UsedUp
<1>4. InCoil(rt, m2, c)
  BY <1>1, SameCells DEF InCoil
<1>5. ASSUME NEW p \in Orders, GaveBack(m2, p, c)
      PROVE  GaveBack(m, p, c) /\ Involved(m, p, c) /\ ord2[p].rowsThen = ord[p].rowsThen
  <2>1. GaveBack(m, p, c)
    BY <1>5, SameCells
  <2>. QED
    BY <2>1, CellsAre DEF SameOrders
<1>6. LeftThen(rt, ord2, m2, c)
  <2>. SUFFICES ASSUME NEW p \in Orders, GaveBack(m2, p, c)
                PROVE  LeftOf(m2, p, c) <= Weight
                         - QtyOf(rt, UpTo(LiveOf(rt, c), LastOf(rt, ord2[p].rowsThen, p, c)))
    BY DEF LeftThen
  <2>. DEFINE then == ord[p].rowsThen
              n == QtyOf(rs, UpTo(LiveOf(rs, c), LastOf(rs, then, p, c)))
              k == QtyOf(rt, UpTo(LiveOf(rt, c), LastOf(rt, then, p, c)))
  <2>1. then \in 0..Len(rs)
    BY CellsAre
  <2>2. k <= n
    BY <1>1, <2>1, LeftThenKept
  <2>3. n \in Nat /\ k \in Nat
    <3>1. UpTo(LiveOf(rs, c), LastOf(rs, then, p, c)) \in SUBSET DOMAIN rs
      BY UsedIsLive DEF UpTo
    <3>2. UpTo(LiveOf(rt, c), LastOf(rt, then, p, c)) \in SUBSET DOMAIN rt
      BY UsedIsLive DEF UpTo
    <3>. QED
      BY <1>1, <3>1, <3>2, QtyNat DEF Grows
  <2>4. LeftOf(m, p, c) <= Weight - n
    BY <1>5 DEF LeftThen
  <2>5. LeftOf(m2, p, c) = LeftOf(m, p, c) /\ LeftOf(m, p, c) \in Int /\ ord2[p].rowsThen = then
    BY <1>5, SameCells, CellsAre
  <2>. HIDE DEF n, k, then
  <2>6. LeftOf(m2, p, c) <= Weight - k
    BY <2>2, <2>3, <2>4, <2>5 DEF ProductionAssumption
  <2>. QED
    BY <2>5, <2>6 DEF k
<1>7. Ends(rt, m2, b, c)
  <2>1. (b # Open /\ b.order = Nobody) => b.row \in LiveOf(rt, c) /\ rt[b.row].ref = "SCRAP"
    BY <1>1, UsedIsLive DEF Ends, Grows
  <2>2. b.order \in Orders \cup {Nobody}
    BY DEF CauseType
  <2>3. \A o \in Orders : GaveBack(m, o, c) => GaveBack(m2, o, c)
    BY SameCells
  <2>4. Free(m2, c) => Free(m, c)
    BY SameCells DEF Free
  <2>. QED
    BY <1>1, <2>1, <2>2, <2>3, <2>4 DEF Ends
<1>8. Closings(rt, ord2, c) /\ ClosedWith(rt, m2, c)
  <2>1. ClosedWith(rt, m2, c)
    BY <1>1, SameCells DEF ClosedWith
  <2>2. ASSUME NEW o \in Orders, NEW i \in ClosingOf(rt, o, c)
        PROVE  ord2[o].status = "CLOSED" /\ i > ord2[o].rowsThen
    <3>1. i \in ClosingOf(rs, o, c) /\ GaveBack(m, o, c) /\ Involved(m, o, c)
      BY <1>1, <2>2, CellsAre DEF ClosedWith
    <3>. QED
      BY <3>1 DEF Closings, SameOrders
  <2>3. \A o \in Orders : \A i, j \in ClosingOf(rt, o, c) : i = j
    BY <1>1 DEF Closings
  <2>. QED
    BY <2>1, <2>2, <2>3 DEF Closings
<1>9. Later(rt, ord2, m2, b, c)
  <2>. SUFFICES ASSUME NEW o \in Orders, NEW p \in Orders, GaveBack(m2, o, c), o # p
                PROVE  /\ Has(m2, p, c) => QtyOf(rt, LiveOf(rt, c) \ Since(rt, ord2, o, p, c)) < Weight
                       /\ b = ClosesAs(p) => Since(rt, ord2, o, p, c) # {}
    BY DEF Later
  <2>1. Since(rt, ord2, o, p, c) = Since(rs, ord, o, p, c)
    BY <1>1, <1>5 DEF Since
  <2>2. QtyOf(rt, LiveOf(rs, c) \ Since(rs, ord, o, p, c))
          = QtyOf(rs, LiveOf(rs, c) \ Since(rs, ord, o, p, c))
    BY <1>1, SinceIs, QtyKept
  <2>3. Has(m2, p, c) => Has(m, p, c)
    BY SameCells
  <2>. QED
    BY <1>1, <1>5, <2>1, <2>2, <2>3 DEF Later
<1>10. ScrapLater(ord2, m2, b, c)
  BY <1>5 DEF ScrapLater
<1>. QED
  BY <1>2, <1>3, <1>4, <1>6, <1>7, <1>8, <1>9, <1>10

-----------------------------------------------------------------------------
(* One order does something with it.                                        *)

OthersSame(ord, ord2, m, m2, o, c) ==
  \A p \in Orders \ {o} : ord2[p] = ord[p] /\ m2[p][c] = m[p][c]

LEMMA OtherCells ==
  ASSUME NEW ord, NEW ord2, NEW m, NEW m2, NEW o, NEW c, OthersSame(ord, ord2, m, m2, o, c),
         NEW p \in Orders, p # o
  PROVE  /\ ord2[p] = ord[p] /\ m2[p][c] = m[p][c] /\ LeftOf(m2, p, c) = LeftOf(m, p, c)
         /\ Has(m2, p, c) <=> Has(m, p, c)
         /\ GaveBack(m2, p, c) <=> GaveBack(m, p, c)
         /\ Involved(m2, p, c) <=> Involved(m, p, c)
         /\ Going(ord2, p) <=> Going(ord, p)
BY DEF OthersSame, LeftOf, Has, GaveBack, Involved, Going

\* What an order left in it then is there, with rows that come after.
LEMMA LeftThenStays ==
  ASSUME ProductionAssumption, NEW rs, NEW rt, NEW ord, NEW ord2, NEW m, NEW m2,
         NEW c \in Coils, Orderly(rs, ord, m), Orderly(rt, ord2, m2), Grows(rs, rt),
         LeftThen(rs, ord, m, c), NEW p \in Orders, GaveBack(m, p, c),
         m2[p][c] = m[p][c], ord2[p] = ord[p],
         ClosingRows(rt, p, c) = ClosingRows(rs, p, c),
         \A i \in LiveOf(rt, c) : i \in LiveOf(rs, c) \/ i > Len(rs)
  PROVE  LeftOf(m2, p, c) <= Weight
           - QtyOf(rt, UpTo(LiveOf(rt, c), LastOf(rt, ord2[p].rowsThen, p, c)))
<1>. DEFINE then == ord[p].rowsThen
            n == QtyOf(rs, UpTo(LiveOf(rs, c), LastOf(rs, then, p, c)))
            k == QtyOf(rt, UpTo(LiveOf(rt, c), LastOf(rt, then, p, c)))
<1>1. then \in 0..Len(rs)
  BY CellsAre
<1>2. k <= n
  BY <1>1, LeftThenKept
<1>3. n \in Nat /\ k \in Nat
  <2>1. UpTo(LiveOf(rs, c), LastOf(rs, then, p, c)) \in SUBSET DOMAIN rs
    BY UsedIsLive DEF UpTo
  <2>2. UpTo(LiveOf(rt, c), LastOf(rt, then, p, c)) \in SUBSET DOMAIN rt
    BY UsedIsLive DEF UpTo
  <2>. QED
    BY <2>1, <2>2, QtyNat DEF Grows
<1>4. LeftOf(m, p, c) <= Weight - n
  BY DEF LeftThen
<1>5. LeftOf(m2, p, c) = LeftOf(m, p, c) /\ LeftOf(m, p, c) \in Int
  BY CellsAre DEF LeftOf
<1>. HIDE DEF n, k, then
<1>6. LeftOf(m2, p, c) <= Weight - k
  BY <1>2, <1>3, <1>4, <1>5 DEF ProductionAssumption
<1>. QED
  BY <1>6 DEF k, then

\* What terminated it stands, with rows that leave that one.
LEMMA EndsStay ==
  ASSUME NEW rs, NEW rt, Grows(rs, rt), NEW m, NEW m2, NEW b, NEW c,
         b \in CauseType, Ends(rs, m, b, c),
         b = Open => (Stock(rt, c) = 0 => ~Free(m2, c)),
         (b # Open /\ b.order = Nobody) => b.row \in LiveOf(rt, c),
         b.order \in Orders => GaveBack(m2, b.order, c)
  PROVE  Ends(rt, m2, b, c)
<1>1. (b # Open /\ b.order = Nobody) => rt[b.row].ref = "SCRAP"
  BY UsedIsLive DEF Ends, Grows
<1>2. b.order # Nobody => b.order \in Orders
  BY DEF CauseType
<1>. QED
  BY <1>1, <1>2 DEF Ends

-----------------------------------------------------------------------------
(* An order takes it, or is taken it from with nothing used.                *)

LEMMA CoilMounts ==
  ASSUME ProductionAssumption, NEW rs, NEW rt, NEW ord, NEW ord2, NEW m, NEW m2, NEW b,
         NEW c \in Coils, Orderly(rs, ord, m), Orderly(rt, ord2, m2), NEW o \in Orders,
         Rests(rs, rt, c), OthersSame(ord, ord2, m, m2, o, c), CoilOK(rs, ord, m, b, c),
         Going(ord, o), Going(ord2, o), b = Open, Free(m, c),
         NEW kg \in 1..Stock(rs, c), m2[o][c] = [state |-> "live", assigned |-> kg, consumed |-> 0]
  PROVE  CoilOK(rt, ord2, m2, b, c)
<1>. USE DEF CoilOK
<1>1. /\ Grows(rs, rt) /\ LiveOf(rt, c) = LiveOf(rs, c) /\ Stock(rt, c) = Stock(rs, c)
      /\ QtyOf(rt, LiveOf(rt, c)) = QtyOf(rs, LiveOf(rs, c))
      /\ \A p \in Orders : /\ UsedBy(rt, p, c) = UsedBy(rs, p, c)
                           /\ QtyOf(rt, UsedBy(rt, p, c)) = QtyOf(rs, UsedBy(rs, p, c))
                           /\ ClosingOf(rt, p, c) = ClosingOf(rs, p, c)
                           /\ ClosingRows(rt, p, c) = ClosingRows(rs, p, c)
  BY RestsIs DEF SameUse, Rests
<1>2. RowsTyped(rs) /\ RowsTyped(rt)
  BY <1>1 DEF Grows
<1>3. Stock(rs, c) \in Int /\ kg \in Nat /\ kg >= 1 /\ kg <= Stock(rs, c) /\ Weight \in Nat
  BY <1>2, StockInt DEF ProductionAssumption
<1>4. Has(m2, o, c) /\ ~GaveBack(m2, o, c) /\ Involved(m2, o, c) /\ LeftOf(m2, o, c) = kg
  BY <1>3 DEF Has, GaveBack, Involved, LeftOf
<1>5. /\ ~Has(m, o, c) /\ ~GaveBack(m, o, c) /\ ~Involved(m, o, c) /\ m[o][c] = NotMounted
      /\ ClosingOf(rs, o, c) = {}
  <2>1. ~Has(m, o, c) /\ ~GaveBack(m, o, c)
    BY DEF Free, Custody, Going
  <2>2. ~Involved(m, o, c)
    BY <2>1, CellsAre
  <2>. QED
    BY <2>1, <2>2 DEF Custody, ClosedWith
<1>6. \A p \in Orders : p # o => ~Has(m2, p, c)
  BY OtherCells DEF Free
<1>7. ASSUME NEW p \in Orders, GaveBack(m2, p, c)
      PROVE  p # o /\ GaveBack(m, p, c) /\ ord2[p] = ord[p] /\ m2[p][c] = m[p][c]
  BY <1>4, <1>7, OtherCells
<1>8. Custody(ord2, m2, b, c)
  <2>1. \A p, q \in Orders : Has(m2, p, c) /\ Has(m2, q, c) => p = q
    BY <1>6
  <2>2. ASSUME NEW p \in Orders
        PROVE  /\ Has(m2, p, c) => Going(ord2, p) /\ b = Open
               /\ GaveBack(m2, p, c) => ord2[p].status = "CLOSED"
               /\ ~Involved(m2, p, c) => m2[p][c] = NotMounted
               /\ Involved(m2, p, c) => m2[p][c].assigned > 0
    <3>1. CASE p = o
      BY <1>3, <1>4, <3>1
    <3>2. CASE p # o
      BY <1>6, <3>2, OtherCells DEF Custody
    <3>. QED
      BY <3>1, <3>2
  <2>. QED
    BY <2>1, <2>2 DEF Custody
<1>9. UsedUp(rt, m2, c)
  <2>1. m2[o][c].consumed = m[o][c].consumed
    BY <1>5 DEF NotMounted
  <2>2. \A p \in Orders : m2[p][c].consumed = m[p][c].consumed
    BY <2>1, OtherCells
  <2>. QED
    BY <1>1, <2>2 DEF UsedUp
<1>10. InCoil(rt, m2, c)
  <2>1. ASSUME NEW p \in Orders
        PROVE  /\ Involved(m2, p, c) => LeftOf(m2, p, c) >= 0
               /\ Has(m2, p, c) => LeftOf(m2, p, c) <= Stock(rt, c)
    <3>1. CASE p = o
      BY <1>1, <1>3, <1>4, <3>1
    <3>2. CASE p # o
      BY <1>6, <3>2, OtherCells DEF InCoil
    <3>. QED
      BY <3>1, <3>2
  <2>. QED
    BY <1>1, <2>1 DEF InCoil
<1>11. LeftThen(rt, ord2, m2, c)
  BY <1>1, <1>7, LeftThenStays DEF LeftThen
<1>12. Ends(rt, m2, b, c)
  <2>1. ~Free(m2, c)
    BY <1>4 DEF Free
  <2>. QED
    BY <2>1 DEF Ends, Open, Cause
<1>13. Closings(rt, ord2, c) /\ ClosedWith(rt, m2, c)
  <2>1. ClosedWith(rt, m2, c)
    BY <1>1, <1>5, OtherCells DEF ClosedWith
  <2>2. Closings(rt, ord2, c)
    BY <1>1, <1>5, OtherCells DEF Closings
  <2>. QED
    BY <2>1, <2>2
<1>14. Later(rt, ord2, m2, b, c)
  <2>. SUFFICES ASSUME NEW q \in Orders, NEW p \in Orders, GaveBack(m2, q, c), q # p
                PROVE  /\ Has(m2, p, c) => QtyOf(rt, LiveOf(rt, c) \ Since(rt, ord2, q, p, c)) < Weight
                       /\ b = ClosesAs(p) => Since(rt, ord2, q, p, c) # {}
    BY DEF Later
  <2>1. QtyOf(rt, LiveOf(rt, c)) < Weight
    <3>1. QtyOf(rs, LiveOf(rs, c)) \in Nat /\ Stock(rs, c) = Weight - QtyOf(rs, LiveOf(rs, c))
      BY <1>2, UsedIsLive, QtyNat DEF InCoil
    <3>. QED
      BY <1>1, <1>3, <3>1
  <2>2. /\ LiveOf(rt, c) \in SUBSET DOMAIN rt
        /\ (LiveOf(rt, c) \ Since(rt, ord2, q, p, c)) \in SUBSET LiveOf(rt, c)
        /\ (LiveOf(rt, c) \ Since(rt, ord2, q, p, c)) \in SUBSET DOMAIN rt
    BY UsedIsLive
  <2>3. QtyOf(rt, LiveOf(rt, c) \ Since(rt, ord2, q, p, c)) <= QtyOf(rt, LiveOf(rt, c))
    BY <1>2, <2>2, QtyLess
  <2>4. /\ QtyOf(rt, LiveOf(rt, c) \ Since(rt, ord2, q, p, c)) \in Nat
        /\ QtyOf(rt, LiveOf(rt, c)) \in Nat
    BY <1>2, <2>2, QtyNat
  <2>5. b # ClosesAs(p)
    BY DEF Open, ClosesAs, Cause, ProductionAssumption
  <2>. QED
    BY <1>3, <2>1, <2>3, <2>4, <2>5
<1>15. ScrapLater(ord2, m2, b, c)
  BY DEF ScrapLater
<1>. QED
  BY <1>8, <1>9, <1>10, <1>11, <1>12, <1>13, <1>14, <1>15

LEMMA CoilTakenDown ==
  ASSUME ProductionAssumption, NEW rs, NEW rt, NEW ord, NEW ord2, NEW m, NEW m2, NEW b,
         NEW c \in Coils, Orderly(rs, ord, m), Orderly(rt, ord2, m2), NEW o \in Orders,
         Rests(rs, rt, c), OthersSame(ord, ord2, m, m2, o, c), CoilOK(rs, ord, m, b, c),
         Has(m, o, c), m[o][c].consumed = 0, m2[o][c] = NotMounted
  PROVE  Stock(rs, c) # 0 /\ CoilOK(rt, ord2, m2, b, c)
<1>. USE DEF CoilOK
<1>1. /\ Grows(rs, rt) /\ LiveOf(rt, c) = LiveOf(rs, c) /\ Stock(rt, c) = Stock(rs, c)
      /\ QtyOf(rt, LiveOf(rt, c)) = QtyOf(rs, LiveOf(rs, c))
      /\ \A p \in Orders : /\ UsedBy(rt, p, c) = UsedBy(rs, p, c)
                           /\ QtyOf(rt, UsedBy(rt, p, c)) = QtyOf(rs, UsedBy(rs, p, c))
                           /\ ClosingOf(rt, p, c) = ClosingOf(rs, p, c)
                           /\ ClosingRows(rt, p, c) = ClosingRows(rs, p, c)
  BY RestsIs DEF SameUse, Rests
<1>2. RowsTyped(rs) /\ RowsTyped(rt)
  BY <1>1 DEF Grows
<1>3. ~Has(m2, o, c) /\ ~GaveBack(m2, o, c) /\ ~Involved(m2, o, c) /\ m2[o][c].consumed = 0
  BY DEF Has, GaveBack, Involved, NotMounted
<1>4. ~GaveBack(m, o, c) /\ Involved(m, o, c) /\ ClosingOf(rs, o, c) = {}
  BY CellsAre DEF ClosedWith
<1>5. Stock(rs, c) \in Int /\ Stock(rs, c) > 0
  <2>1. LeftOf(m, o, c) <= Stock(rs, c) /\ m[o][c].assigned > 0 /\ m[o][c].assigned \in Nat
    BY <1>4, CellsAre DEF InCoil, Custody
  <2>2. Stock(rs, c) \in Int
    BY <1>2, StockInt
  <2>. QED
    BY <2>1, <2>2 DEF LeftOf
<1>6. b = Open
  BY DEF Custody
<1>7. \A p \in Orders : ~Has(m2, p, c)
  <2>1. \A p \in Orders : p # o => ~Has(m, p, c)
    BY DEF Custody
  <2>. QED
    BY <1>3, <2>1, OtherCells
<1>8. ASSUME NEW p \in Orders, GaveBack(m2, p, c)
      PROVE  p # o /\ GaveBack(m, p, c) /\ ord2[p] = ord[p] /\ m2[p][c] = m[p][c]
  BY <1>3, <1>8, OtherCells
<1>9. Custody(ord2, m2, b, c)
  <2>1. ASSUME NEW p \in Orders
        PROVE  /\ GaveBack(m2, p, c) => ord2[p].status = "CLOSED"
               /\ ~Involved(m2, p, c) => m2[p][c] = NotMounted
               /\ Involved(m2, p, c) => m2[p][c].assigned > 0
    <3>1. CASE p = o
      BY <1>3, <3>1
    <3>2. CASE p # o
      BY <3>2, OtherCells DEF Custody
    <3>. QED
      BY <3>1, <3>2
  <2>. QED
    BY <1>7, <2>1 DEF Custody
<1>10. UsedUp(rt, m2, c)
  <2>1. \A p \in Orders : m2[p][c].consumed = m[p][c].consumed
    BY <1>3, OtherCells
  <2>. QED
    BY <1>1, <2>1 DEF UsedUp
<1>11. InCoil(rt, m2, c)
  <2>1. ASSUME NEW p \in Orders, Involved(m2, p, c) PROVE LeftOf(m2, p, c) >= 0
    <3>1. p # o
      BY <1>3, <2>1
    <3>. QED
      BY <2>1, <3>1, OtherCells DEF InCoil
  <2>. QED
    BY <1>1, <1>7, <2>1 DEF InCoil
<1>12. LeftThen(rt, ord2, m2, c)
  BY <1>1, <1>8, LeftThenStays DEF LeftThen
<1>13. Ends(rt, m2, b, c)
  BY <1>1, <1>5, <1>6 DEF Ends, Open, Cause
<1>14. Closings(rt, ord2, c) /\ ClosedWith(rt, m2, c)
  <2>1. ClosedWith(rt, m2, c)
    BY <1>1, <1>4, OtherCells DEF ClosedWith
  <2>2. Closings(rt, ord2, c)
    BY <1>1, <1>4, OtherCells DEF Closings
  <2>. QED
    BY <2>1, <2>2
<1>15. Later(rt, ord2, m2, b, c)
  <2>1. \A p \in Orders : b # ClosesAs(p)
    BY <1>6 DEF Open, ClosesAs, Cause, ProductionAssumption
  <2>. QED
    BY <1>7, <2>1 DEF Later
<1>16. ScrapLater(ord2, m2, b, c)
  BY <1>6 DEF ScrapLater
<1>. QED
  BY <1>5, <1>9, <1>10, <1>11, <1>12, <1>13, <1>14, <1>15, <1>16

-----------------------------------------------------------------------------
(* Its order reports kilos of it, or takes the report back.                 *)

LEMMA QtyStays ==
  ASSUME ProductionAssumption, NEW rs, NEW rt, Grows(rs, rt),
         NEW R \in SUBSET DOMAIN rs, NEW T \in SUBSET R, QtyOf(rs, R) < Weight
  PROVE  QtyOf(rt, T) < Weight
<1>1. RowsTyped(rs) /\ T \in SUBSET DOMAIN rs
  BY DEF Grows
<1>2. QtyOf(rt, T) = QtyOf(rs, T) /\ QtyOf(rs, T) <= QtyOf(rs, R)
  BY <1>1, QtyKept, QtyLess
<1>3. QtyOf(rs, T) \in Nat /\ QtyOf(rs, R) \in Nat
  BY <1>1, QtyNat
<1>. QED
  BY <1>2, <1>3 DEF ProductionAssumption

\* The one that has it, and the others, when it keeps it.
LEMMA StillMounted ==
  ASSUME NEW ord, NEW ord2, NEW m, NEW m2, NEW b, NEW c \in Coils, NEW o \in Orders,
         OthersSame(ord, ord2, m, m2, o, c), Custody(ord, m, b, c), Going(ord2, o),
         Has(m, o, c), Has(m2, o, c), m2[o][c].assigned = m[o][c].assigned
  PROVE  /\ Custody(ord2, m2, b, c)
         /\ ~GaveBack(m2, o, c) /\ ~GaveBack(m, o, c) /\ Involved(m, o, c) /\ Involved(m2, o, c)
         /\ b = Open /\ ~Free(m2, c)
         /\ \A p \in Orders : p # o => ~Has(m2, p, c) /\ ~Has(m, p, c)
         /\ \A p \in Orders : GaveBack(m2, p, c) =>
              p # o /\ GaveBack(m, p, c) /\ ord2[p] = ord[p] /\ m2[p][c] = m[p][c]
<1>1. ~GaveBack(m2, o, c) /\ ~GaveBack(m, o, c) /\ Involved(m, o, c) /\ Involved(m2, o, c)
  BY DEF Has, GaveBack, Involved
<1>2. \A p \in Orders : p # o => ~Has(m2, p, c) /\ ~Has(m, p, c)
  BY OtherCells DEF Custody
<1>3. b = Open /\ ~Free(m2, c)
  BY DEF Custody, Free
<1>4. \A p \in Orders : GaveBack(m2, p, c) =>
        p # o /\ GaveBack(m, p, c) /\ ord2[p] = ord[p] /\ m2[p][c] = m[p][c]
  BY <1>1, OtherCells
<1>5. ASSUME NEW p \in Orders
      PROVE  /\ Has(m2, p, c) => Going(ord2, p) /\ b = Open
             /\ GaveBack(m2, p, c) => ord2[p].status = "CLOSED"
             /\ ~Involved(m2, p, c) => m2[p][c] = NotMounted
             /\ Involved(m2, p, c) => m2[p][c].assigned > 0
  <2>1. CASE p = o
    BY <1>1, <1>3, <2>1 DEF Custody
  <2>2. CASE p # o
    BY <1>2, <2>2, OtherCells DEF Custody
  <2>. QED
    BY <2>1, <2>2
<1>. QED
  BY <1>1, <1>2, <1>3, <1>4, <1>5 DEF Custody

LEMMA CoilReported ==
  ASSUME ProductionAssumption, NEW rs, NEW rt, NEW ord, NEW ord2, NEW m, NEW m2, NEW b,
         NEW c \in Coils, Orderly(rs, ord, m), Orderly(rt, ord2, m2), NEW o \in Orders, NEW k,
         Takes(rs, rt, c, k), rt[k].owner = o, rt[k].ref = "REPORT",
         OthersSame(ord, ord2, m, m2, o, c), CoilOK(rs, ord, m, b, c), Going(ord2, o),
         Has(m, o, c), Has(m2, o, c), m2[o][c].assigned = m[o][c].assigned,
         m2[o][c].consumed = m[o][c].consumed + rt[k].qty, rt[k].qty <= LeftOf(m, o, c)
  PROVE  CoilOK(rt, ord2, m2, b, c)
<1>. USE DEF CoilOK
<1>1. /\ Grows(rs, rt) /\ RowsTyped(rs) /\ RowsTyped(rt)
      /\ LiveOf(rt, c) = LiveOf(rs, c) \cup {k} /\ k > Len(rs) /\ k \notin LiveOf(rs, c)
  <2>1. Grows(rs, rt) /\ LiveOf(rt, c) = LiveOf(rs, c) \cup {k} /\ k \notin DOMAIN rs
    BY DEF Takes
  <2>. QED
    BY <2>1, TakesIs, UsedIsLive DEF Grows
<1>2. /\ rt[k].qty \in Nat \ {0} /\ Stock(rt, c) = Stock(rs, c) - rt[k].qty
      /\ QtyOf(rt, LiveOf(rt, c)) = QtyOf(rs, LiveOf(rs, c)) + rt[k].qty
  BY TakesIs
<1>3. /\ Custody(ord2, m2, b, c)
      /\ ~GaveBack(m2, o, c) /\ ~GaveBack(m, o, c) /\ Involved(m, o, c) /\ Involved(m2, o, c)
      /\ b = Open /\ ~Free(m2, c)
      /\ \A p \in Orders : p # o => ~Has(m2, p, c) /\ ~Has(m, p, c)
      /\ \A p \in Orders : GaveBack(m2, p, c) =>
           p # o /\ GaveBack(m, p, c) /\ ord2[p] = ord[p] /\ m2[p][c] = m[p][c]
  BY StillMounted
<1>4. \A p \in Orders : /\ ClosingOf(rt, p, c) = ClosingOf(rs, p, c)
                        /\ ClosingRows(rt, p, c) = ClosingRows(rs, p, c)
  BY UsedTakes
<1>5. /\ UsedBy(rt, o, c) = UsedBy(rs, o, c) \cup {k}
      /\ QtyOf(rt, UsedBy(rt, o, c)) = QtyOf(rs, UsedBy(rs, o, c)) + rt[k].qty
      /\ \A p \in Orders : p # o => /\ UsedBy(rt, p, c) = UsedBy(rs, p, c)
                                    /\ QtyOf(rt, UsedBy(rt, p, c)) = QtyOf(rs, UsedBy(rs, p, c))
  BY UsedTakes
<1>6. UsedUp(rt, m2, c)
  <2>1. \A p \in Orders : m[p][c].consumed = QtyOf(rs, UsedBy(rs, p, c))
    BY DEF UsedUp
  <2>2. \A p \in Orders : p # o => m2[p][c] = m[p][c]
    BY OtherCells
  <2>. QED
    BY <1>5, <2>1, <2>2 DEF UsedUp
<1>7. InCoil(rt, m2, c)
  <2>1. /\ Stock(rs, c) \in Int /\ QtyOf(rs, LiveOf(rs, c)) \in Nat /\ Weight \in Nat
        /\ m[o][c].assigned \in Nat /\ m[o][c].consumed \in Nat
    BY <1>1, StockInt, UsedIsLive, QtyNat, CellsAre DEF ProductionAssumption
  <2>2. LeftOf(m2, o, c) = LeftOf(m, o, c) - rt[k].qty /\ LeftOf(m, o, c) \in Int
    BY <1>2, <2>1 DEF LeftOf
  <2>3. LeftOf(m, o, c) <= Stock(rs, c) /\ Stock(rs, c) = Weight - QtyOf(rs, LiveOf(rs, c))
    BY DEF InCoil
  <2>4. ASSUME NEW p \in Orders, Involved(m2, p, c) PROVE LeftOf(m2, p, c) >= 0
    <3>1. CASE p = o
      BY <1>2, <2>2, <3>1
    <3>2. CASE p # o
      BY <2>4, <3>2, OtherCells DEF InCoil
    <3>. QED
      BY <3>1, <3>2
  <2>5. LeftOf(m2, o, c) <= Stock(rt, c) /\ Stock(rt, c) >= 0
    BY <1>2, <2>1, <2>2, <2>3
  <2>6. Stock(rt, c) = Weight - QtyOf(rt, LiveOf(rt, c))
    BY <1>2, <2>1, <2>3
  <2>. QED
    BY <1>3, <2>4, <2>5, <2>6 DEF InCoil
<1>8. LeftThen(rt, ord2, m2, c)
  <2>1. \A i \in LiveOf(rt, c) : i \in LiveOf(rs, c) \/ i > Len(rs)
    BY <1>1
  <2>. QED
    BY <1>1, <1>3, <1>4, <2>1, LeftThenStays DEF LeftThen
<1>9. Ends(rt, m2, b, c)
  BY <1>3 DEF Ends, Open, Cause
<1>10. Closings(rt, ord2, c) /\ ClosedWith(rt, m2, c)
  <2>1. ClosingOf(rs, o, c) = {}
    BY <1>3 DEF ClosedWith
  <2>2. ClosedWith(rt, m2, c)
    BY <1>4, <2>1, OtherCells DEF ClosedWith
  <2>3. Closings(rt, ord2, c)
    BY <1>4, <2>1, OtherCells DEF Closings
  <2>. QED
    BY <2>2, <2>3
<1>11. Later(rt, ord2, m2, b, c)
  <2>. SUFFICES ASSUME NEW q \in Orders, NEW p \in Orders, GaveBack(m2, q, c), q # p
                PROVE  /\ Has(m2, p, c) => QtyOf(rt, LiveOf(rt, c) \ Since(rt, ord2, q, p, c)) < Weight
                       /\ b = ClosesAs(p) => Since(rt, ord2, q, p, c) # {}
    BY DEF Later
  <2>1. b # ClosesAs(p)
    BY <1>3 DEF Open, ClosesAs, Cause, ProductionAssumption
  <2>2. ASSUME Has(m2, p, c)
        PROVE  QtyOf(rt, LiveOf(rt, c) \ Since(rt, ord2, q, p, c)) < Weight
    <3>1. p = o /\ GaveBack(m, q, c) /\ ord2[q] = ord[q]
      BY <1>3, <2>2
    <3>2. QtyOf(rs, LiveOf(rs, c) \ Since(rs, ord, q, o, c)) < Weight
      BY <3>1 DEF Later
    <3>3. (LiveOf(rt, c) \ Since(rt, ord2, q, o, c)) \in SUBSET (LiveOf(rs, c) \ Since(rs, ord, q, o, c))
      <4>1. k > ord[q].rowsThen
        <5>1. ord[q].rowsThen \in 0..Len(rs) /\ Len(rs) \in Nat
          BY <1>1, CellsAre, RowsAre
        <5>2. k \in Nat
          BY <1>1, RowsAre DEF Takes
        <5>. QED
          BY <1>1, <5>1, <5>2
      <4>. QED
        BY <1>1, <1>5, <3>1, <4>1 DEF Since
    <3>. QED
      BY <1>1, <3>1, <3>2, <3>3, SinceIs, QtyStays
  <2>. QED
    BY <2>1, <2>2
<1>12. ScrapLater(ord2, m2, b, c)
  BY <1>3 DEF ScrapLater
<1>. QED
  BY <1>3, <1>6, <1>7, <1>8, <1>9, <1>10, <1>11, <1>12

LEMMA CoilUnreported ==
  ASSUME ProductionAssumption, NEW rs, NEW rt, NEW ord, NEW ord2, NEW m, NEW m2, NEW b,
         NEW c \in Coils, Orderly(rs, ord, m), Orderly(rt, ord2, m2), NEW o \in Orders,
         NEW i, NEW k, Gives(rs, rt, c, i, k), rs[i].owner = o, rs[i].ref = "REPORT",
         OthersSame(ord, ord2, m, m2, o, c), CoilOK(rs, ord, m, b, c), Going(ord2, o),
         Has(m, o, c), Has(m2, o, c), m2[o][c].assigned = m[o][c].assigned,
         m2[o][c].consumed = m[o][c].consumed - rs[i].qty
  PROVE  CoilOK(rt, ord2, m2, b, c)
<1>. USE DEF CoilOK
<1>1. /\ Grows(rs, rt) /\ RowsTyped(rs) /\ RowsTyped(rt)
      /\ LiveOf(rt, c) = LiveOf(rs, c) \ {i}
  BY DEF Gives, Grows
<1>2. /\ rs[i].qty \in Nat \ {0} /\ Stock(rt, c) = Stock(rs, c) + rs[i].qty
      /\ QtyOf(rt, LiveOf(rt, c)) = QtyOf(rs, LiveOf(rs, c)) - rs[i].qty
  BY GivesIs
<1>3. /\ Custody(ord2, m2, b, c)
      /\ ~GaveBack(m2, o, c) /\ ~GaveBack(m, o, c) /\ Involved(m, o, c) /\ Involved(m2, o, c)
      /\ b = Open /\ ~Free(m2, c)
      /\ \A p \in Orders : p # o => ~Has(m2, p, c) /\ ~Has(m, p, c)
      /\ \A p \in Orders : GaveBack(m2, p, c) =>
           p # o /\ GaveBack(m, p, c) /\ ord2[p] = ord[p] /\ m2[p][c] = m[p][c]
  BY StillMounted
<1>4. \A p \in Orders : /\ ClosingOf(rt, p, c) = ClosingOf(rs, p, c)
                        /\ ClosingRows(rt, p, c) = ClosingRows(rs, p, c)
  BY UsedGives
<1>5. /\ UsedBy(rt, o, c) = UsedBy(rs, o, c) \ {i}
      /\ QtyOf(rt, UsedBy(rt, o, c)) = QtyOf(rs, UsedBy(rs, o, c)) - rs[i].qty
      /\ \A p \in Orders : p # o => QtyOf(rt, UsedBy(rt, p, c)) = QtyOf(rs, UsedBy(rs, p, c))
  BY UsedGives
<1>6. UsedUp(rt, m2, c)
  <2>1. \A p \in Orders : m[p][c].consumed = QtyOf(rs, UsedBy(rs, p, c))
    BY DEF UsedUp
  <2>2. \A p \in Orders : p # o => m2[p][c] = m[p][c]
    BY OtherCells
  <2>. QED
    BY <1>5, <2>1, <2>2 DEF UsedUp
<1>7. InCoil(rt, m2, c)
  <2>1. /\ Stock(rs, c) \in Int /\ QtyOf(rs, LiveOf(rs, c)) \in Nat /\ Weight \in Nat
        /\ m[o][c].assigned \in Nat /\ m[o][c].consumed \in Nat
    BY <1>1, StockInt, UsedIsLive, QtyNat, CellsAre DEF ProductionAssumption
  <2>2. LeftOf(m2, o, c) = LeftOf(m, o, c) + rs[i].qty /\ LeftOf(m, o, c) \in Int
    BY <1>2, <2>1 DEF LeftOf
  <2>3. /\ LeftOf(m, o, c) <= Stock(rs, c) /\ Stock(rs, c) = Weight - QtyOf(rs, LiveOf(rs, c))
        /\ Stock(rs, c) >= 0 /\ LeftOf(m, o, c) >= 0
    BY <1>3 DEF InCoil
  <2>4. ASSUME NEW p \in Orders, Involved(m2, p, c) PROVE LeftOf(m2, p, c) >= 0
    <3>1. CASE p = o
      BY <1>2, <2>2, <2>3, <3>1
    <3>2. CASE p # o
      BY <2>4, <3>2, OtherCells DEF InCoil
    <3>. QED
      BY <3>1, <3>2
  <2>5. LeftOf(m2, o, c) <= Stock(rt, c) /\ Stock(rt, c) >= 0
    BY <1>2, <2>1, <2>2, <2>3
  <2>6. Stock(rt, c) = Weight - QtyOf(rt, LiveOf(rt, c))
    BY <1>2, <2>1, <2>3
  <2>. QED
    BY <1>3, <2>4, <2>5, <2>6 DEF InCoil
<1>8. LeftThen(rt, ord2, m2, c)
  BY <1>1, <1>3, <1>4, LeftThenStays DEF LeftThen
<1>9. Ends(rt, m2, b, c)
  BY <1>3 DEF Ends, Open, Cause
<1>10. Closings(rt, ord2, c) /\ ClosedWith(rt, m2, c)
  <2>1. ClosingOf(rs, o, c) = {}
    BY <1>3 DEF ClosedWith
  <2>2. ClosedWith(rt, m2, c)
    BY <1>4, <2>1, OtherCells DEF ClosedWith
  <2>3. Closings(rt, ord2, c)
    BY <1>4, <2>1, OtherCells DEF Closings
  <2>. QED
    BY <2>2, <2>3
<1>11. Later(rt, ord2, m2, b, c)
  <2>. SUFFICES ASSUME NEW q \in Orders, NEW p \in Orders, GaveBack(m2, q, c), q # p
                PROVE  /\ Has(m2, p, c) => QtyOf(rt, LiveOf(rt, c) \ Since(rt, ord2, q, p, c)) < Weight
                       /\ b = ClosesAs(p) => Since(rt, ord2, q, p, c) # {}
    BY DEF Later
  <2>1. b # ClosesAs(p)
    BY <1>3 DEF Open, ClosesAs, Cause, ProductionAssumption
  <2>2. ASSUME Has(m2, p, c)
        PROVE  QtyOf(rt, LiveOf(rt, c) \ Since(rt, ord2, q, p, c)) < Weight
    <3>1. p = o /\ GaveBack(m, q, c) /\ ord2[q] = ord[q]
      BY <1>3, <2>2
    <3>2. QtyOf(rs, LiveOf(rs, c) \ Since(rs, ord, q, o, c)) < Weight
      BY <3>1 DEF Later
    <3>3. (LiveOf(rt, c) \ Since(rt, ord2, q, o, c)) \in SUBSET (LiveOf(rs, c) \ Since(rs, ord, q, o, c))
      BY <1>1, <1>5, <3>1 DEF Since
    <3>. QED
      BY <1>1, <3>1, <3>2, <3>3, SinceIs, QtyStays
  <2>. QED
    BY <2>1, <2>2
<1>12. ScrapLater(ord2, m2, b, c)
  BY <1>3 DEF ScrapLater
<1>. QED
  BY <1>3, <1>6, <1>7, <1>8, <1>9, <1>10, <1>11, <1>12

-----------------------------------------------------------------------------
(* Its order closes and gives it back, with scrap or without any.           *)

\* What a closing does to the rows of a coil: a row of the order, or none.
ClosesRows(rs, rt, o, c, s) ==
  \/ s = 0 /\ Rests(rs, rt, c)
  \/ \E k \in DOMAIN rt : /\ Takes(rs, rt, c, k) /\ rt[k].qty = s
                          /\ rt[k].owner = o /\ rt[k].ref = "CLOSE"

ClosedRows(rs, rt, o, c, s) ==
  /\ s \in Nat /\ Grows(rs, rt)
  /\ \A i \in LiveOf(rt, c) : i \in LiveOf(rs, c) \/ i > Len(rs)
  /\ LiveOf(rs, c) \subseteq LiveOf(rt, c)
  /\ Stock(rt, c) = Stock(rs, c) - s
  /\ QtyOf(rt, LiveOf(rt, c)) = QtyOf(rs, LiveOf(rs, c)) + s
  /\ QtyOf(rt, UsedBy(rt, o, c)) = QtyOf(rs, UsedBy(rs, o, c)) + s
  /\ UsedBy(rs, o, c) \subseteq UsedBy(rt, o, c)
  /\ s > 0 => \E k \in UsedBy(rt, o, c) : k > Len(rs)
  /\ \A i \in ClosingOf(rt, o, c) : i \in ClosingOf(rs, o, c) \/ i > Len(rs)
  /\ ClosingOf(rs, o, c) = {} => \A i, j \in ClosingOf(rt, o, c) : i = j
  /\ \A p \in Orders \ {o} :
       /\ UsedBy(rt, p, c) = UsedBy(rs, p, c)
       /\ QtyOf(rt, UsedBy(rt, p, c)) = QtyOf(rs, UsedBy(rs, p, c))
       /\ ClosingOf(rt, p, c) = ClosingOf(rs, p, c)
       /\ ClosingRows(rt, p, c) = ClosingRows(rs, p, c)

LEMMA RowsClosed ==
  ASSUME ProductionAssumption, NEW rs, NEW rt, NEW o \in Orders, NEW c \in Coils, NEW s,
         RowsTyped(rs), ClosesRows(rs, rt, o, c, s)
  PROVE  ClosedRows(rs, rt, o, c, s)
<1>1. /\ Stock(rs, c) \in Int
      /\ \A p \in Orders : QtyOf(rs, UsedBy(rs, p, c)) \in Nat
      /\ QtyOf(rs, LiveOf(rs, c)) \in Nat
  BY StockInt, UsedIsLive, QtyNat
<1>2. CASE s = 0 /\ Rests(rs, rt, c)
  <2>1. /\ Grows(rs, rt) /\ LiveOf(rt, c) = LiveOf(rs, c) /\ Stock(rt, c) = Stock(rs, c)
        /\ QtyOf(rt, LiveOf(rt, c)) = QtyOf(rs, LiveOf(rs, c))
        /\ \A p \in Orders : /\ UsedBy(rt, p, c) = UsedBy(rs, p, c)
                             /\ QtyOf(rt, UsedBy(rt, p, c)) = QtyOf(rs, UsedBy(rs, p, c))
                             /\ ClosingOf(rt, p, c) = ClosingOf(rs, p, c)
                             /\ ClosingRows(rt, p, c) = ClosingRows(rs, p, c)
    BY <1>2, RestsIs DEF SameUse, Rests
  <2>2. /\ Stock(rt, c) = Stock(rs, c) - s
        /\ QtyOf(rt, LiveOf(rt, c)) = QtyOf(rs, LiveOf(rs, c)) + s
        /\ QtyOf(rt, UsedBy(rt, o, c)) = QtyOf(rs, UsedBy(rs, o, c)) + s
    BY <1>1, <1>2, <2>1
  <2>. QED
    BY <1>2, <2>1, <2>2 DEF ClosedRows
<1>3. ASSUME NEW k \in DOMAIN rt, Takes(rs, rt, c, k), rt[k].qty = s,
             rt[k].owner = o, rt[k].ref = "CLOSE"
      PROVE  ClosedRows(rs, rt, o, c, s)
  <2>1. Grows(rs, rt) /\ LiveOf(rt, c) = LiveOf(rs, c) \cup {k}
    BY <1>3 DEF Takes
  <2>2. /\ s \in Nat /\ k > Len(rs) /\ Stock(rt, c) = Stock(rs, c) - s
        /\ QtyOf(rt, LiveOf(rt, c)) = QtyOf(rs, LiveOf(rs, c)) + s
    BY <1>3, TakesIs
  <2>3. /\ UsedBy(rt, o, c) = UsedBy(rs, o, c) \cup {k}
        /\ QtyOf(rt, UsedBy(rt, o, c)) = QtyOf(rs, UsedBy(rs, o, c)) + s
        /\ ClosingOf(rt, o, c) = ClosingOf(rs, o, c) \cup {k}
    BY <1>3, UsedTakes
  <2>4. \A p \in Orders \ {o} :
          /\ UsedBy(rt, p, c) = UsedBy(rs, p, c)
          /\ QtyOf(rt, UsedBy(rt, p, c)) = QtyOf(rs, UsedBy(rs, p, c))
          /\ ClosingOf(rt, p, c) = ClosingOf(rs, p, c)
          /\ ClosingRows(rt, p, c) = ClosingRows(rs, p, c)
    BY <1>3, UsedTakes
  <2>5. \A i \in LiveOf(rt, c) : i \in LiveOf(rs, c) \/ i > Len(rs)
    BY <2>1, <2>2
  <2>6. /\ LiveOf(rs, c) \subseteq LiveOf(rt, c) /\ UsedBy(rs, o, c) \subseteq UsedBy(rt, o, c)
        /\ \E j \in UsedBy(rt, o, c) : j > Len(rs)
        /\ \A i \in ClosingOf(rt, o, c) : i \in ClosingOf(rs, o, c) \/ i > Len(rs)
        /\ ClosingOf(rs, o, c) = {} => \A i, j \in ClosingOf(rt, o, c) : i = j
    BY <2>1, <2>2, <2>3
  <2>. QED
    BY <2>1, <2>2, <2>3, <2>4, <2>5, <2>6 DEF ClosedRows
<1>. QED
  BY <1>2, <1>3 DEF ClosesRows

LEMMA CoilCloses ==
  ASSUME ProductionAssumption, NEW rs, NEW rt, NEW ord, NEW ord2, NEW m, NEW m2, NEW b, NEW b2,
         NEW c \in Coils, Orderly(rs, ord, m), Orderly(rt, ord2, m2), NEW o \in Orders, NEW s,
         ClosesRows(rs, rt, o, c, s), s <= LeftOf(m, o, c),
         OthersSame(ord, ord2, m, m2, o, c), CoilOK(rs, ord, m, b, c),
         ord2[o].status = "CLOSED", ord2[o].rowsThen = Len(rs),
         Has(m, o, c), GaveBack(m2, o, c), m2[o][c].assigned = m[o][c].assigned,
         m2[o][c].consumed = m[o][c].consumed + s,
         b2 = IF b = Open /\ Stock(rt, c) = 0 /\ Free(m2, c) THEN ClosesAs(o) ELSE b
  PROVE  CoilOK(rt, ord2, m2, b2, c)
<1>. USE DEF CoilOK
<1>1. RowsTyped(rs) /\ RowsTyped(rt)
  BY DEF Orderly
<1>2. ClosedRows(rs, rt, o, c, s)
  BY <1>1, RowsClosed
<1>3. /\ s \in Nat /\ Grows(rs, rt)
      /\ \A i \in LiveOf(rt, c) : i \in LiveOf(rs, c) \/ i > Len(rs)
      /\ Stock(rt, c) = Stock(rs, c) - s
      /\ QtyOf(rt, LiveOf(rt, c)) = QtyOf(rs, LiveOf(rs, c)) + s
      /\ LiveOf(rs, c) \subseteq LiveOf(rt, c)
  BY <1>2 DEF ClosedRows
<1>4. \A p \in Orders \ {o} :
        /\ UsedBy(rt, p, c) = UsedBy(rs, p, c)
        /\ QtyOf(rt, UsedBy(rt, p, c)) = QtyOf(rs, UsedBy(rs, p, c))
        /\ ClosingOf(rt, p, c) = ClosingOf(rs, p, c)
        /\ ClosingRows(rt, p, c) = ClosingRows(rs, p, c)
  BY <1>2 DEF ClosedRows
<1>5. /\ ~Has(m2, o, c) /\ Involved(m2, o, c) /\ ~GaveBack(m, o, c) /\ Involved(m, o, c)
      /\ ClosingOf(rs, o, c) = {}
  BY DEF Has, GaveBack, Involved, ClosedWith
<1>6. \A p \in Orders : ~Has(m2, p, c)
  <2>1. \A p \in Orders : p # o => ~Has(m, p, c)
    BY DEF Custody
  <2>. QED
    BY <1>5, <2>1, OtherCells
<1>7. Free(m2, c) /\ b = Open
  BY <1>6 DEF Free, Custody
<1>8. /\ Stock(rs, c) \in Int /\ QtyOf(rs, LiveOf(rs, c)) \in Nat /\ Weight \in Nat
      /\ QtyOf(rt, LiveOf(rt, c)) \in Nat /\ Len(rs) \in Nat
      /\ m[o][c].assigned \in Nat /\ m[o][c].consumed \in Nat
  BY <1>1, StockInt, UsedIsLive, QtyNat, CellsAre, RowsAre DEF ProductionAssumption
<1>9. LeftOf(m2, o, c) = LeftOf(m, o, c) - s /\ LeftOf(m, o, c) \in Int
  <2>1. LeftOf(m, o, c) = m[o][c].assigned - m[o][c].consumed
    BY DEF LeftOf
  <2>2. LeftOf(m2, o, c) = m[o][c].assigned - (m[o][c].consumed + s)
    BY DEF LeftOf
  <2>3. m[o][c].assigned \in Nat /\ m[o][c].consumed \in Nat
    BY <1>8
  <2>4. s \in Nat
    BY <1>3
  <2>5. PICK a \in Nat, u \in Nat : a = m[o][c].assigned /\ u = m[o][c].consumed
    BY <2>3
  <2>. QED
    BY <2>1, <2>2, <2>4, <2>5
<1>10. LeftOf(m, o, c) <= Stock(rs, c) /\ Stock(rs, c) = Weight - QtyOf(rs, LiveOf(rs, c))
  BY DEF InCoil
<1>11. Custody(ord2, m2, b2, c)
  <2>1. ASSUME NEW p \in Orders
        PROVE  /\ GaveBack(m2, p, c) => ord2[p].status = "CLOSED"
               /\ ~Involved(m2, p, c) => m2[p][c] = NotMounted
               /\ Involved(m2, p, c) => m2[p][c].assigned > 0
    <3>1. CASE p = o
      BY <1>5, <3>1 DEF Custody
    <3>2. CASE p # o
      BY <3>2, OtherCells DEF Custody
    <3>. QED
      BY <3>1, <3>2
  <2>. QED
    BY <1>6, <2>1 DEF Custody
<1>12. UsedUp(rt, m2, c)
  <2>1. \A p \in Orders : m[p][c].consumed = QtyOf(rs, UsedBy(rs, p, c))
    BY DEF UsedUp
  <2>2. \A p \in Orders : p # o => m2[p][c] = m[p][c]
    BY OtherCells
  <2>3. QtyOf(rt, UsedBy(rt, o, c)) = QtyOf(rs, UsedBy(rs, o, c)) + s
    BY <1>2 DEF ClosedRows
  <2>. QED
    BY <1>4, <2>1, <2>2, <2>3 DEF UsedUp
<1>13. InCoil(rt, m2, c)
  <2>1. ASSUME NEW p \in Orders, Involved(m2, p, c) PROVE LeftOf(m2, p, c) >= 0
    <3>1. CASE p = o
      BY <1>3, <1>9, <3>1
    <3>2. CASE p # o
      BY <2>1, <3>2, OtherCells DEF InCoil
    <3>. QED
      BY <3>1, <3>2
  <2>2. Stock(rt, c) >= 0 /\ Stock(rt, c) = Weight - QtyOf(rt, LiveOf(rt, c))
    BY <1>3, <1>8, <1>9, <1>10
  <2>. QED
    BY <1>6, <2>1, <2>2 DEF InCoil
<1>14. LeftThen(rt, ord2, m2, c)
  <2>1. ASSUME NEW p \in Orders, p # o, GaveBack(m2, p, c)
        PROVE  LeftOf(m2, p, c) <= Weight
                 - QtyOf(rt, UpTo(LiveOf(rt, c), LastOf(rt, ord2[p].rowsThen, p, c)))
    <3>1. GaveBack(m, p, c) /\ m2[p][c] = m[p][c] /\ ord2[p] = ord[p]
      BY <2>1, OtherCells
    <3>2. ClosingRows(rt, p, c) = ClosingRows(rs, p, c)
      BY <1>4, <2>1
    <3>. QED
      BY <1>3, <3>1, <3>2, LeftThenStays
  <2>2. LeftOf(m2, o, c) <= Weight
          - QtyOf(rt, UpTo(LiveOf(rt, c), LastOf(rt, ord2[o].rowsThen, o, c)))
    <3>. DEFINE S == UpTo(LiveOf(rt, c), LastOf(rt, ord2[o].rowsThen, o, c))
    <3>1. S \in SUBSET LiveOf(rt, c) /\ LiveOf(rt, c) \in SUBSET DOMAIN rt
      BY UsedIsLive DEF UpTo
    <3>. HIDE DEF S
    <3>2. QtyOf(rt, S) <= QtyOf(rt, LiveOf(rt, c)) /\ QtyOf(rt, S) \in Nat
      BY <1>1, <3>1, QtyLess, QtyNat
    <3>3. LeftOf(m2, o, c) <= Weight - QtyOf(rt, S)
      BY <1>3, <1>8, <1>9, <1>10, <3>2
    <3>. QED
      BY <3>3 DEF S
  <2>. QED
    BY <2>1, <2>2 DEF LeftThen
<1>15. Ends(rt, m2, b2, c)
  <2>1. CASE Stock(rt, c) = 0
    <3>1. b2 = ClosesAs(o) /\ b2.order = o /\ b2 # Open
      BY <1>7, <2>1 DEF ClosesAs, Cause, Open, ProductionAssumption
    <3>. QED
      BY <3>1 DEF Ends, ProductionAssumption
  <2>2. CASE Stock(rt, c) # 0
    <3>1. b2 = Open
      BY <1>7, <2>2
    <3>. QED
      BY <2>2, <3>1 DEF Ends, Open, Cause
  <2>. QED
    BY <2>1, <2>2
<1>16. Closings(rt, ord2, c)
  <2>1. ASSUME NEW p \in Orders, p # o
        PROVE  /\ \A i \in ClosingOf(rt, p, c) : ord2[p].status = "CLOSED" /\ i > ord2[p].rowsThen
               /\ \A i, j \in ClosingOf(rt, p, c) : i = j
    BY <1>4, <2>1, OtherCells DEF Closings
  <2>2. /\ \A i \in ClosingOf(rt, o, c) : ord2[o].status = "CLOSED" /\ i > ord2[o].rowsThen
        /\ \A i, j \in ClosingOf(rt, o, c) : i = j
    BY <1>2, <1>5 DEF ClosedRows
  <2>. QED
    BY <2>1, <2>2 DEF Closings
<1>17. ClosedWith(rt, m2, c)
  BY <1>4, OtherCells DEF ClosedWith
<1>18. Later(rt, ord2, m2, b2, c)
  <2>. SUFFICES ASSUME NEW q \in Orders, NEW p \in Orders, GaveBack(m2, q, c), q # p,
                       b2 = ClosesAs(p)
                PROVE  Since(rt, ord2, q, p, c) # {}
    BY <1>6 DEF Later
  <2>1. p = o /\ Stock(rt, c) = 0
    BY <1>7 DEF ClosesAs, Cause, Open, ProductionAssumption
  <2>2. GaveBack(m, q, c) /\ ord2[q] = ord[q]
    BY <2>1, OtherCells
  <2>3. ord[q].rowsThen \in 0..Len(rs)
    BY CellsAre
  <2>4. CASE s > 0
    <3>1. PICK k \in UsedBy(rt, o, c) : k > Len(rs)
      BY <1>2, <2>4 DEF ClosedRows
    <3>2. k \in Nat
      BY <1>1, UsedIsLive, RowsAre
    <3>3. k > ord2[q].rowsThen
      BY <1>8, <2>2, <2>3, <3>1, <3>2
    <3>. QED
      BY <2>1, <3>1, <3>3 DEF Since
  <2>5. CASE s = 0
    <3>1. QtyOf(rs, LiveOf(rs, c)) = Weight
      BY <1>3, <1>8, <1>10, <2>1, <2>5
    <3>2. QtyOf(rs, LiveOf(rs, c) \ Since(rs, ord, q, o, c)) < Weight
      BY <2>1, <2>2 DEF Later
    <3>3. PICK k : k \in Since(rs, ord, q, o, c)
      <4>1. Since(rs, ord, q, o, c) = {} => LiveOf(rs, c) \ Since(rs, ord, q, o, c) = LiveOf(rs, c)
        OBVIOUS
      <4>2. QtyOf(rs, LiveOf(rs, c)) < Weight => FALSE
        BY <1>8, <3>1
      <4>3. Since(rs, ord, q, o, c) # {}
        BY <3>2, <4>1, <4>2
      <4>. QED
        BY <4>3
    <3>4. k \in UsedBy(rt, o, c)
      BY <1>2, <3>3 DEF ClosedRows, Since
    <3>. QED
      BY <2>1, <2>2, <3>3, <3>4 DEF Since
  <2>. QED
    BY <1>3, <2>4, <2>5
<1>19. ScrapLater(ord2, m2, b2, c)
  BY <1>7 DEF ScrapLater, ClosesAs, Cause, ProductionAssumption
<1>20. b2 \in CauseType
  BY DEF ClosesAs, Cause, CauseType
<1>. QED
  BY <1>11, <1>12, <1>13, <1>14, <1>15, <1>16, <1>17, <1>18, <1>19, <1>20

-----------------------------------------------------------------------------
(* Its order reopens and has it back, with the scrap of its closing.        *)

ReopensRows(rs, rt, o, c) ==
  \/ ClosingOf(rs, o, c) = {} /\ Rests(rs, rt, c)
  \/ \E i \in DOMAIN rs, k \in DOMAIN rt : ClosingOf(rs, o, c) = {i} /\ Gives(rs, rt, c, i, k)

ReopenedRows(rs, rt, o, c, r) ==
  /\ r \in Nat /\ Grows(rs, rt)
  /\ LiveOf(rt, c) \subseteq LiveOf(rs, c)
  /\ Stock(rt, c) = Stock(rs, c) + r
  /\ QtyOf(rt, LiveOf(rt, c)) = QtyOf(rs, LiveOf(rs, c)) - r
  /\ QtyOf(rt, UsedBy(rt, o, c)) = QtyOf(rs, UsedBy(rs, o, c)) - r
  /\ \A j \in UsedBy(rs, o, c) : j \in LiveOf(rt, c) => j \in UsedBy(rt, o, c)
  /\ ClosingOf(rt, o, c) = {}
  /\ \A p \in Orders \ {o} :
       /\ QtyOf(rt, UsedBy(rt, p, c)) = QtyOf(rs, UsedBy(rs, p, c))
       /\ ClosingOf(rt, p, c) = ClosingOf(rs, p, c)
       /\ ClosingRows(rt, p, c) = ClosingRows(rs, p, c)

LEMMA RowsReopened ==
  ASSUME ProductionAssumption, NEW rs, NEW rt, NEW o \in Orders, NEW c \in Coils,
         RowsTyped(rs), ReopensRows(rs, rt, o, c)
  PROVE  ReopenedRows(rs, rt, o, c, QtyOf(rs, ClosingOf(rs, o, c)))
<1>. DEFINE r == QtyOf(rs, ClosingOf(rs, o, c))
<1>1. /\ Stock(rs, c) \in Int
      /\ \A p \in Orders : QtyOf(rs, UsedBy(rs, p, c)) \in Nat
      /\ QtyOf(rs, LiveOf(rs, c)) \in Nat
  BY StockInt, UsedIsLive, QtyNat
<1>2. CASE ClosingOf(rs, o, c) = {} /\ Rests(rs, rt, c)
  <2>1. /\ Grows(rs, rt) /\ LiveOf(rt, c) = LiveOf(rs, c) /\ Stock(rt, c) = Stock(rs, c)
        /\ QtyOf(rt, LiveOf(rt, c)) = QtyOf(rs, LiveOf(rs, c))
        /\ \A p \in Orders : /\ UsedBy(rt, p, c) = UsedBy(rs, p, c)
                             /\ QtyOf(rt, UsedBy(rt, p, c)) = QtyOf(rs, UsedBy(rs, p, c))
                             /\ ClosingOf(rt, p, c) = ClosingOf(rs, p, c)
                             /\ ClosingRows(rt, p, c) = ClosingRows(rs, p, c)
    BY <1>2, RestsIs DEF SameUse, Rests
  <2>2. r = 0
    BY <1>2, QtyNone
  <2>. HIDE DEF r
  <2>3. /\ r \in Nat /\ Stock(rt, c) = Stock(rs, c) + r
        /\ QtyOf(rt, LiveOf(rt, c)) = QtyOf(rs, LiveOf(rs, c)) - r
        /\ QtyOf(rt, UsedBy(rt, o, c)) = QtyOf(rs, UsedBy(rs, o, c)) - r
    BY <1>1, <2>1, <2>2
  <2>4. ReopenedRows(rs, rt, o, c, r)
    BY <1>2, <2>1, <2>3 DEF ReopenedRows
  <2>. QED
    BY <2>4 DEF r
<1>3. ASSUME NEW i \in DOMAIN rs, NEW k \in DOMAIN rt, ClosingOf(rs, o, c) = {i},
             Gives(rs, rt, c, i, k)
      PROVE  ReopenedRows(rs, rt, o, c, r)
  <2>1. Grows(rs, rt) /\ LiveOf(rt, c) = LiveOf(rs, c) \ {i}
    BY <1>3 DEF Gives
  <2>2. r = rs[i].qty
    BY <1>3, QtyOfOne
  <2>. HIDE DEF r
  <2>3. /\ r \in Nat /\ Stock(rt, c) = Stock(rs, c) + r
        /\ QtyOf(rt, LiveOf(rt, c)) = QtyOf(rs, LiveOf(rs, c)) - r
    BY <1>3, <2>2, GivesIs
  <2>4. rs[i].owner = o /\ rs[i].ref = "CLOSE" /\ i \in ClosingOf(rs, o, c)
    BY <1>3 DEF ClosingOf
  <2>5. /\ UsedBy(rt, o, c) = UsedBy(rs, o, c) \ {i} /\ ClosingOf(rt, o, c) = {}
        /\ QtyOf(rt, UsedBy(rt, o, c)) = QtyOf(rs, UsedBy(rs, o, c)) - r
    BY <1>3, <2>2, <2>4, UsedGives
  <2>6. \A p \in Orders \ {o} :
          /\ QtyOf(rt, UsedBy(rt, p, c)) = QtyOf(rs, UsedBy(rs, p, c))
          /\ ClosingOf(rt, p, c) = ClosingOf(rs, p, c)
          /\ ClosingRows(rt, p, c) = ClosingRows(rs, p, c)
    BY <1>3, <2>4, UsedGives
  <2>7. \A j \in UsedBy(rs, o, c) : j \in LiveOf(rt, c) => j \in UsedBy(rt, o, c)
    BY <2>1, <2>5
  <2>. QED
    BY <2>1, <2>3, <2>5, <2>6, <2>7 DEF ReopenedRows
<1>. QED
  BY <1>2, <1>3 DEF ReopensRows

LEMMA CoilReopens ==
  ASSUME ProductionAssumption, NEW rs, NEW rt, NEW ord, NEW ord2, NEW m, NEW m2, NEW b,
         NEW c \in Coils, Orderly(rs, ord, m), Orderly(rt, ord2, m2), NEW o \in Orders, NEW r,
         ReopensRows(rs, rt, o, c), r = QtyOf(rs, ClosingOf(rs, o, c)),
         OthersSame(ord, ord2, m, m2, o, c), CoilOK(rs, ord, m, b, c),
         Going(ord2, o), GaveBack(m, o, c), Has(m2, o, c), m2[o][c].assigned = m[o][c].assigned,
         m2[o][c].consumed = m[o][c].consumed - r,
         Free(m, c), b \in {Open, ClosesAs(o)},
         \A j \in LiveOf(rs, c) : j <= LastOf(rs, ord[o].rowsThen, o, c)
  PROVE  CoilOK(rt, ord2, m2, Open, c)
<1>. USE DEF CoilOK
<1>1. RowsTyped(rs) /\ RowsTyped(rt)
  BY DEF Orderly
<1>2. ReopenedRows(rs, rt, o, c, r)
  BY <1>1, RowsReopened
<1>3. /\ r \in Nat /\ Grows(rs, rt)
      /\ LiveOf(rt, c) \subseteq LiveOf(rs, c)
      /\ Stock(rt, c) = Stock(rs, c) + r
      /\ QtyOf(rt, LiveOf(rt, c)) = QtyOf(rs, LiveOf(rs, c)) - r
      /\ ClosingOf(rt, o, c) = {}
  BY <1>2 DEF ReopenedRows
<1>4. \A p \in Orders \ {o} :
        /\ QtyOf(rt, UsedBy(rt, p, c)) = QtyOf(rs, UsedBy(rs, p, c))
        /\ ClosingOf(rt, p, c) = ClosingOf(rs, p, c)
        /\ ClosingRows(rt, p, c) = ClosingRows(rs, p, c)
  BY <1>2 DEF ReopenedRows
<1>5. /\ ~GaveBack(m2, o, c) /\ Involved(m2, o, c) /\ ~Has(m, o, c) /\ Involved(m, o, c)
  BY DEF Has, GaveBack, Involved
<1>6. \A p \in Orders : p # o => ~Has(m2, p, c)
  BY OtherCells DEF Free
<1>7. ASSUME NEW p \in Orders, GaveBack(m2, p, c)
      PROVE  p # o /\ GaveBack(m, p, c) /\ ord2[p] = ord[p] /\ m2[p][c] = m[p][c]
  BY <1>5, <1>7, OtherCells
<1>8. /\ Stock(rs, c) \in Int /\ QtyOf(rs, LiveOf(rs, c)) \in Nat /\ Weight \in Nat
      /\ QtyOf(rt, LiveOf(rt, c)) \in Nat
      /\ m[o][c].assigned \in Nat /\ m[o][c].consumed \in Nat
  BY <1>1, StockInt, UsedIsLive, QtyNat, CellsAre DEF ProductionAssumption
<1>9. LeftOf(m2, o, c) = LeftOf(m, o, c) + r /\ LeftOf(m, o, c) \in Int
  <2>1. LeftOf(m, o, c) = m[o][c].assigned - m[o][c].consumed
    BY DEF LeftOf
  <2>2. LeftOf(m2, o, c) = m[o][c].assigned - (m[o][c].consumed - r)
    BY DEF LeftOf
  <2>3. m[o][c].assigned \in Nat /\ m[o][c].consumed \in Nat
    BY <1>8
  <2>4. r \in Nat
    BY <1>3
  <2>5. PICK a \in Nat, u \in Nat : a = m[o][c].assigned /\ u = m[o][c].consumed
    BY <2>3
  <2>. QED
    BY <2>1, <2>2, <2>4, <2>5
<1>10. Stock(rs, c) = Weight - QtyOf(rs, LiveOf(rs, c)) /\ Stock(rs, c) >= 0 /\ LeftOf(m, o, c) >= 0
  BY <1>5 DEF InCoil
<1>11. LeftOf(m, o, c) <= Stock(rs, c)
  <2>. DEFINE n == LastOf(rs, ord[o].rowsThen, o, c)
  <2>1. UpTo(LiveOf(rs, c), n) = LiveOf(rs, c)
    BY DEF UpTo
  <2>2. LeftOf(m, o, c) <= Weight - QtyOf(rs, UpTo(LiveOf(rs, c), n))
    BY DEF LeftThen
  <2>. QED
    BY <1>10, <2>1, <2>2
<1>12. Custody(ord2, m2, Open, c)
  <2>1. \A p, q \in Orders : Has(m2, p, c) /\ Has(m2, q, c) => p = q
    BY <1>6
  <2>2. ASSUME NEW p \in Orders
        PROVE  /\ Has(m2, p, c) => Going(ord2, p)
               /\ GaveBack(m2, p, c) => ord2[p].status = "CLOSED"
               /\ ~Involved(m2, p, c) => m2[p][c] = NotMounted
               /\ Involved(m2, p, c) => m2[p][c].assigned > 0
    <3>1. CASE p = o
      BY <1>5, <3>1 DEF Custody
    <3>2. CASE p # o
      BY <1>6, <3>2, OtherCells DEF Custody
    <3>. QED
      BY <3>1, <3>2
  <2>. QED
    BY <2>1, <2>2 DEF Custody
<1>13. UsedUp(rt, m2, c)
  <2>1. \A p \in Orders : m[p][c].consumed = QtyOf(rs, UsedBy(rs, p, c))
    BY DEF UsedUp
  <2>2. \A p \in Orders : p # o => m2[p][c] = m[p][c]
    BY OtherCells
  <2>3. QtyOf(rt, UsedBy(rt, o, c)) = QtyOf(rs, UsedBy(rs, o, c)) - r
    BY <1>2 DEF ReopenedRows
  <2>4. m2[o][c].consumed = QtyOf(rt, UsedBy(rt, o, c))
    BY <2>1, <2>3
  <2>. QED
    BY <1>4, <2>1, <2>2, <2>4 DEF UsedUp
<1>14. InCoil(rt, m2, c)
  <2>1. ASSUME NEW p \in Orders, Involved(m2, p, c) PROVE LeftOf(m2, p, c) >= 0
    <3>1. CASE p = o
      BY <1>3, <1>9, <1>10, <3>1
    <3>2. CASE p # o
      BY <2>1, <3>2, OtherCells DEF InCoil
    <3>. QED
      BY <3>1, <3>2
  <2>2. /\ Stock(rt, c) >= 0 /\ Stock(rt, c) = Weight - QtyOf(rt, LiveOf(rt, c))
        /\ LeftOf(m2, o, c) <= Stock(rt, c)
    BY <1>3, <1>8, <1>9, <1>10, <1>11
  <2>. QED
    BY <1>6, <2>1, <2>2 DEF InCoil
<1>15. LeftThen(rt, ord2, m2, c)
  BY <1>3, <1>4, <1>7, LeftThenStays DEF LeftThen
<1>16. Ends(rt, m2, Open, c)
  BY DEF Ends, Open, Cause, Free
<1>17. Closings(rt, ord2, c) /\ ClosedWith(rt, m2, c)
  <2>1. ClosedWith(rt, m2, c)
    BY <1>3, <1>4, OtherCells DEF ClosedWith
  <2>2. ASSUME NEW p \in Orders
        PROVE  /\ \A i \in ClosingOf(rt, p, c) : ord2[p].status = "CLOSED" /\ i > ord2[p].rowsThen
               /\ \A i, j \in ClosingOf(rt, p, c) : i = j
    <3>1. CASE p = o
      BY <1>3, <3>1
    <3>2. CASE p # o
      BY <1>4, <3>2, OtherCells DEF Closings
    <3>. QED
      BY <3>1, <3>2
  <2>. QED
    BY <2>1, <2>2 DEF Closings
<1>18. Later(rt, ord2, m2, Open, c)
  <2>. SUFFICES ASSUME NEW q \in Orders, NEW p \in Orders, GaveBack(m2, q, c), q # p
                PROVE  /\ Has(m2, p, c) => QtyOf(rt, LiveOf(rt, c) \ Since(rt, ord2, q, p, c)) < Weight
                       /\ Open = ClosesAs(p) => Since(rt, ord2, q, p, c) # {}
    BY DEF Later
  <2>1. Open # ClosesAs(p)
    BY DEF Open, ClosesAs, Cause, ProductionAssumption
  <2>2. ASSUME Has(m2, p, c)
        PROVE  QtyOf(rt, LiveOf(rt, c) \ Since(rt, ord2, q, p, c)) < Weight
    <3>1. p = o /\ GaveBack(m, q, c) /\ ord2[q] = ord[q] /\ q # o
      BY <1>6, <1>7, <2>2
    <3>. DEFINE T == LiveOf(rt, c) \ Since(rt, ord2, q, o, c)
    <3>2. PICK R \in SUBSET LiveOf(rs, c) : T \in SUBSET R /\ QtyOf(rs, R) < Weight
      <4>1. CASE Stock(rs, c) # 0
        <5>1. QtyOf(rs, LiveOf(rs, c)) < Weight
          BY <1>8, <1>10, <4>1
        <5>. QED
          BY <1>3, <5>1
      <4>2. CASE Stock(rs, c) = 0
        <5>1. b = ClosesAs(o)
          BY <4>2 DEF Ends
        <5>2. PICK j : j \in Since(rs, ord, q, o, c)
          BY <3>1, <5>1 DEF Later
        <5>3. j \in UsedBy(rs, o, c) /\ j > ord[q].rowsThen /\ j \in LiveOf(rs, c) /\ j \in DOMAIN rs
          BY <5>2, UsedIsLive DEF Since
        <5>4. j \in LiveOf(rt, c) => j \in Since(rt, ord2, q, o, c)
          BY <1>2, <3>1, <5>3 DEF ReopenedRows, Since
        <5>5. T \in SUBSET (LiveOf(rs, c) \ {j})
          BY <1>3, <5>4
        <5>6. QtyOf(rs, LiveOf(rs, c) \ {j}) = QtyOf(rs, LiveOf(rs, c)) - rs[j].qty
          BY <1>1, <5>3, UsedIsLive, QtyWithout
        <5>7. rs[j].qty \in Nat /\ rs[j].qty > 0
          BY <1>1, <5>3, RowsAre
        <5>8. QtyOf(rs, LiveOf(rs, c) \ {j}) < Weight
          BY <1>8, <1>10, <4>2, <5>6, <5>7
        <5>9. (LiveOf(rs, c) \ {j}) \in SUBSET LiveOf(rs, c)
          OBVIOUS
        <5>. HIDE DEF T
        <5>. QED
          BY <5>5, <5>8, <5>9
      <4>. QED
        BY <4>1, <4>2
    <3>3. R \in SUBSET DOMAIN rs
      BY UsedIsLive
    <3>. HIDE DEF T
    <3>4. QtyOf(rt, T) < Weight
      BY <1>3, <3>2, <3>3, QtyStays
    <3>. QED
      BY <3>1, <3>4 DEF T
  <2>. QED
    BY <2>1, <2>2
<1>19. ScrapLater(ord2, m2, Open, c)
  BY DEF ScrapLater
<1>20. Open \in CauseType
  BY DEF Open, Cause, CauseType
<1>. QED
  BY <1>12, <1>13, <1>14, <1>15, <1>16, <1>17, <1>18, <1>19, <1>20

-----------------------------------------------------------------------------
(* It is scrapped while nobody has it, or a scrap of it is undone.          *)

LEMMA CoilScrapped ==
  ASSUME ProductionAssumption, NEW rs, NEW rt, NEW ord, NEW m, NEW b, NEW b2,
         NEW c \in Coils, Orderly(rs, ord, m), Orderly(rt, ord, m), NEW k,
         Takes(rs, rt, c, k), rt[k].owner = Nobody, rt[k].ref = "SCRAP",
         rt[k].qty <= Stock(rs, c), Free(m, c), CoilOK(rs, ord, m, b, c),
         b2 = IF b = Open /\ Stock(rt, c) = 0 THEN Cause(Nobody, k) ELSE b
  PROVE  CoilOK(rt, ord, m, b2, c)
<1>. USE DEF CoilOK
<1>1. /\ Grows(rs, rt) /\ RowsTyped(rs) /\ RowsTyped(rt) /\ k \in DOMAIN rt
      /\ LiveOf(rt, c) = LiveOf(rs, c) \cup {k} /\ k > Len(rs) /\ k \notin LiveOf(rs, c)
  <2>1. /\ Grows(rs, rt) /\ LiveOf(rt, c) = LiveOf(rs, c) \cup {k} /\ k \notin DOMAIN rs
        /\ k \in DOMAIN rt
    BY DEF Takes
  <2>. QED
    BY <2>1, TakesIs, UsedIsLive DEF Grows
<1>2. /\ rt[k].qty \in Nat \ {0} /\ Stock(rt, c) = Stock(rs, c) - rt[k].qty
      /\ QtyOf(rt, LiveOf(rt, c)) = QtyOf(rs, LiveOf(rs, c)) + rt[k].qty
      /\ k \in Nat /\ k # 0
  <2>1. k \in Nat /\ k # 0
    BY <1>1, RowsAre
  <2>. QED
    BY <2>1, TakesIs
<1>3. \A p \in Orders : /\ UsedBy(rt, p, c) = UsedBy(rs, p, c)
                        /\ QtyOf(rt, UsedBy(rt, p, c)) = QtyOf(rs, UsedBy(rs, p, c))
                        /\ ClosingOf(rt, p, c) = ClosingOf(rs, p, c)
                        /\ ClosingRows(rt, p, c) = ClosingRows(rs, p, c)
  BY UsedTakes DEF ProductionAssumption
<1>4. \A p \in Orders : ~Has(m, p, c)
  BY DEF Free
<1>5. /\ Stock(rs, c) \in Int /\ QtyOf(rs, LiveOf(rs, c)) \in Nat /\ Weight \in Nat
      /\ Stock(rs, c) = Weight - QtyOf(rs, LiveOf(rs, c))
  BY <1>1, StockInt, UsedIsLive, QtyNat DEF ProductionAssumption, InCoil
<1>6. Stock(rs, c) # 0
  BY <1>2, <1>5
<1>7. Custody(ord, m, b2, c)
  BY <1>4 DEF Custody
<1>8. UsedUp(rt, m, c)
  BY <1>3 DEF UsedUp
<1>9. InCoil(rt, m, c)
  <2>1. Stock(rt, c) >= 0 /\ Stock(rt, c) = Weight - QtyOf(rt, LiveOf(rt, c))
    BY <1>2, <1>5
  <2>. QED
    BY <1>4, <2>1 DEF InCoil
<1>10. LeftThen(rt, ord, m, c)
  <2>1. \A i \in LiveOf(rt, c) : i \in LiveOf(rs, c) \/ i > Len(rs)
    BY <1>1
  <2>. QED
    BY <1>1, <1>3, <2>1, LeftThenStays DEF LeftThen
<1>11. CASE b = Open /\ Stock(rt, c) = 0
  <2>1. b2 = Cause(Nobody, k) /\ b2.order = Nobody /\ b2.row = k /\ b2 # Open
    BY <1>2, <1>11 DEF Cause, Open
  <2>2. Ends(rt, m, b2, c)
    BY <1>1, <2>1 DEF Ends
  <2>3. \A p \in Orders : b2 # ClosesAs(p)
    BY <2>1 DEF ClosesAs, Cause, ProductionAssumption
  <2>4. Later(rt, ord, m, b2, c)
    BY <1>4, <2>3 DEF Later
  <2>5. ScrapLater(ord, m, b2, c)
    <3>1. \A o \in Orders : k > ord[o].rowsThen
      <4>1. \A o \in Orders : ord[o].rowsThen \in 0..Len(rs)
        BY CellsAre
      <4>. QED
        BY <1>1, <1>2, <4>1, RowsAre
    <3>. QED
      BY <2>1, <3>1 DEF ScrapLater
  <2>6. b2 \in CauseType
    BY <1>2, <2>1 DEF Cause, CauseType
  <2>7. Closings(rt, ord, c) /\ ClosedWith(rt, m, c)
    BY <1>3 DEF Closings, ClosedWith
  <2>. QED
    BY <1>7, <1>8, <1>9, <1>10, <2>2, <2>4, <2>5, <2>6, <2>7
<1>12. CASE ~(b = Open /\ Stock(rt, c) = 0)
  <2>1. b2 = b
    BY <1>12
  <2>2. Ends(rt, m, b, c)
    <3>1. (b # Open /\ b.order = Nobody) => b.row \in LiveOf(rt, c)
      BY <1>1 DEF Ends
    <3>2. b.order \in Orders => GaveBack(m, b.order, c)
      BY DEF Ends, ProductionAssumption
    <3>. QED
      BY <1>1, <1>12, <3>1, <3>2, EndsStay
  <2>3. Later(rt, ord, m, b, c)
    <3>1. \A p, q \in Orders : Since(rt, ord, q, p, c) = Since(rs, ord, q, p, c)
      BY <1>3 DEF Since
    <3>. QED
      BY <1>4, <3>1 DEF Later
  <2>4. Closings(rt, ord, c) /\ ClosedWith(rt, m, c)
    BY <1>3 DEF Closings, ClosedWith
  <2>. QED
    BY <1>7, <1>8, <1>9, <1>10, <2>1, <2>2, <2>3, <2>4
<1>. QED
  BY <1>11, <1>12

LEMMA CoilUnscrapped ==
  ASSUME ProductionAssumption, NEW rs, NEW rt, NEW ord, NEW m, NEW b, NEW b2,
         NEW c \in Coils, Orderly(rs, ord, m), Orderly(rt, ord, m), NEW i, NEW k,
         Gives(rs, rt, c, i, k), rs[i].owner = Nobody, rs[i].ref = "SCRAP",
         Free(m, c), CoilOK(rs, ord, m, b, c),
         b2 = IF b = Cause(Nobody, i) THEN Open ELSE b
  PROVE  CoilOK(rt, ord, m, b2, c)
<1>. USE DEF CoilOK
<1>1. /\ Grows(rs, rt) /\ RowsTyped(rs) /\ RowsTyped(rt)
      /\ LiveOf(rt, c) = LiveOf(rs, c) \ {i} /\ i \in LiveOf(rs, c)
  BY DEF Gives, Grows
<1>2. /\ rs[i].qty \in Nat \ {0} /\ Stock(rt, c) = Stock(rs, c) + rs[i].qty
      /\ QtyOf(rt, LiveOf(rt, c)) = QtyOf(rs, LiveOf(rs, c)) - rs[i].qty
  BY GivesIs
<1>3. \A p \in Orders : /\ UsedBy(rt, p, c) = UsedBy(rs, p, c)
                        /\ QtyOf(rt, UsedBy(rt, p, c)) = QtyOf(rs, UsedBy(rs, p, c))
                        /\ ClosingOf(rt, p, c) = ClosingOf(rs, p, c)
                        /\ ClosingRows(rt, p, c) = ClosingRows(rs, p, c)
  BY UsedGives DEF ProductionAssumption
<1>4. \A p \in Orders : ~Has(m, p, c)
  BY DEF Free
<1>5. /\ Stock(rs, c) \in Int /\ QtyOf(rs, LiveOf(rs, c)) \in Nat /\ Weight \in Nat
      /\ Stock(rs, c) = Weight - QtyOf(rs, LiveOf(rs, c)) /\ Stock(rs, c) >= 0
  BY <1>1, StockInt, UsedIsLive, QtyNat DEF ProductionAssumption, InCoil
<1>6. Stock(rt, c) # 0
  BY <1>2, <1>5
<1>7. Custody(ord, m, b2, c)
  BY <1>4 DEF Custody
<1>8. UsedUp(rt, m, c)
  BY <1>3 DEF UsedUp
<1>9. InCoil(rt, m, c)
  <2>1. Stock(rt, c) >= 0 /\ Stock(rt, c) = Weight - QtyOf(rt, LiveOf(rt, c))
    BY <1>2, <1>5
  <2>. QED
    BY <1>4, <2>1 DEF InCoil
<1>10. LeftThen(rt, ord, m, c)
  <2>1. \A j \in LiveOf(rt, c) : j \in LiveOf(rs, c) \/ j > Len(rs)
    BY <1>1
  <2>. QED
    BY <1>1, <1>3, <2>1, LeftThenStays DEF LeftThen
<1>11. Closings(rt, ord, c) /\ ClosedWith(rt, m, c)
  BY <1>3 DEF Closings, ClosedWith
<1>12. CASE b = Cause(Nobody, i)
  <2>1. b2 = Open
    BY <1>12
  <2>2. Ends(rt, m, b2, c)
    BY <1>6, <2>1 DEF Ends, Open, Cause
  <2>3. \A p \in Orders : b2 # ClosesAs(p)
    BY <2>1 DEF Open, ClosesAs, Cause, ProductionAssumption
  <2>4. Later(rt, ord, m, b2, c)
    BY <1>4, <2>3 DEF Later
  <2>5. ScrapLater(ord, m, b2, c)
    BY <2>1 DEF ScrapLater
  <2>6. b2 \in CauseType
    BY <2>1 DEF Open, Cause, CauseType
  <2>. QED
    BY <1>7, <1>8, <1>9, <1>10, <1>11, <2>2, <2>4, <2>5, <2>6
<1>13. CASE b # Cause(Nobody, i)
  <2>1. b2 = b
    BY <1>13
  <2>2. Ends(rt, m, b, c)
    <3>1. (b # Open /\ b.order = Nobody) => b.row \in LiveOf(rt, c)
      <4>1. b.order = Nobody => b.row # i
        BY <1>13 DEF Cause, CauseType
      <4>. QED
        BY <1>1, <4>1 DEF Ends
    <3>2. b.order \in Orders => GaveBack(m, b.order, c)
      BY DEF Ends, ProductionAssumption
    <3>. QED
      BY <1>1, <1>6, <3>1, <3>2, EndsStay
  <2>3. Later(rt, ord, m, b, c)
    <3>1. \A p, q \in Orders : Since(rt, ord, q, p, c) = Since(rs, ord, q, p, c)
      BY <1>3 DEF Since
    <3>. QED
      BY <1>4, <3>1 DEF Later
  <2>. QED
    BY <1>7, <1>8, <1>9, <1>10, <1>11, <2>1, <2>2, <2>3
<1>. QED
  BY <1>12, <1>13

-----------------------------------------------------------------------------
(* The rows an operation adds: new ones, or the reversal of others.         *)

Mirrors(r, s) == s.item = r.item /\ s.qty = r.qty /\ s.ref = r.ref /\ s.owner = r.owner

RowsGo(rs, rt, ext) ==
  /\ RowsTyped(rs) /\ IsSeq(ext) /\ Joins(rt, rs, ext)
  /\ \A k \in DOMAIN ext :
       /\ ext[k] \in RowType
       /\ \/ ext[k].reverses = 0
          \/ ext[k].reverses \in DOMAIN rs /\ Mirrors(rs[ext[k].reverses], ext[k])

LEMMA Gone ==
  ASSUME NEW rs, NEW rt, NEW ext, RowsGo(rs, rt, ext)
  PROVE  /\ Grows(rs, rt)
         /\ \A i \in DOMAIN rs : (i \in Standing(rt)) <=>
              (i \in Standing(rs) /\ \A k \in DOMAIN ext : ext[k].reverses # i)
         /\ \A j \in DOMAIN rt \ DOMAIN rs : (j \in Standing(rt)) <=> (rt[j].reverses = 0)
         /\ \A j \in DOMAIN rt \ DOMAIN rs : \E k \in DOMAIN ext : j = Len(rs) + k /\ rt[j] = ext[k]
         /\ \A k \in DOMAIN ext : \E j \in DOMAIN rt \ DOMAIN rs : j = Len(rs) + k /\ rt[j] = ext[k]
<1>1. /\ RowsTyped(rs) /\ IsSeq(rt)
      /\ \A i \in DOMAIN rs : i \in DOMAIN rt /\ rt[i] = rs[i]
      /\ \A j \in DOMAIN rt \ DOMAIN rs :
           j > Len(rs) /\ \E k \in DOMAIN ext : j = Len(rs) + k /\ rt[j] = ext[k]
      /\ \A k \in DOMAIN ext : \E j \in DOMAIN rt \ DOMAIN rs : j = Len(rs) + k /\ rt[j] = ext[k]
  BY DEF RowsGo, Joins
<1>2. PICK n \in Nat : n = Len(rs) /\ DOMAIN rs = 1..n
  BY <1>1, RowsAre
<1>3. \A i \in DOMAIN rs : rs[i] \in RowType /\ rs[i].reverses < i /\ i \in Nat /\ rs[i].reverses \in Nat
  BY <1>1, RowsAre DEF RowsTyped, RowType
<1>4. Len(rt) \in Nat /\ DOMAIN rt = 1..Len(rt)
  BY <1>1, SeqIs
<1>5. ASSUME NEW j \in DOMAIN rt \ DOMAIN rs
      PROVE  rt[j] \in RowType /\ rt[j].reverses < j /\ rt[j].reverses \in 0..n
  <2>1. PICK k \in DOMAIN ext : rt[j] = ext[k]
    BY <1>1
  <2>2. rt[j] \in RowType /\ rt[j].reverses \in 0..n
    BY <1>2, <2>1 DEF RowsGo
  <2>3. j \in Nat /\ j > n
    BY <1>1, <1>2, <1>4
  <2>. QED
    BY <1>2, <2>2, <2>3
<1>6. \A j \in DOMAIN rt : rt[j] \in RowType /\ rt[j].reverses < j
  BY <1>1, <1>3, <1>5
<1>7. rt \in Seq(RowType)
  <2>1. rt \in [1..Len(rt) -> {rt[j] : j \in DOMAIN rt}]
    BY <1>1, <1>4, SeqDef, LenProperties DEF IsSeq
  <2>2. rt \in [1..Len(rt) -> RowType]
    BY <1>4, <1>6, <2>1
  <2>. QED
    BY <1>4, <2>2, SeqDef
<1>8. Grows(rs, rt)
  BY <1>1, <1>6, <1>7 DEF Grows, RowsTyped
<1>9. ASSUME NEW i \in DOMAIN rs
      PROVE  (i \in Standing(rt)) <=> (i \in Standing(rs) /\ \A k \in DOMAIN ext : ext[k].reverses # i)
  <2>1. ASSUME i \in Standing(rt), NEW k \in DOMAIN ext PROVE ext[k].reverses # i
    BY <1>1, <2>1 DEF Standing, Stands
  <2>2. ASSUME i \in Standing(rt) PROVE i \in Standing(rs)
    BY <1>1, <2>2 DEF Standing, Stands
  <2>3. ASSUME i \in Standing(rs), \A k \in DOMAIN ext : ext[k].reverses # i
        PROVE  i \in Standing(rt)
    <3>1. ASSUME NEW j \in DOMAIN rt PROVE rt[j].reverses # i
      <4>1. CASE j \in DOMAIN rs
        BY <1>1, <2>3, <4>1 DEF Standing, Stands
      <4>2. CASE j \notin DOMAIN rs
        BY <1>1, <2>3, <4>2
      <4>. QED
        BY <4>1, <4>2
    <3>. QED
      BY <1>1, <2>3, <3>1 DEF Standing, Stands
  <2>. QED
    BY <2>1, <2>2, <2>3
<1>10. ASSUME NEW j \in DOMAIN rt \ DOMAIN rs
       PROVE  (j \in Standing(rt)) <=> (rt[j].reverses = 0)
  <2>1. j \in Nat /\ j > n
    BY <1>1, <1>2, <1>4
  <2>2. ASSUME NEW l \in DOMAIN rt PROVE rt[l].reverses # j
    <3>1. CASE l \in DOMAIN rs
      BY <1>1, <1>2, <1>3, <2>1, <3>1
    <3>2. CASE l \notin DOMAIN rs
      <4>1. rt[l].reverses \in 0..n
        BY <1>5, <3>2
      <4>. QED
        BY <2>1, <4>1
    <3>. QED
      BY <3>1, <3>2
  <2>. QED
    BY <2>2 DEF Standing, Stands
<1>. QED
  BY <1>1, <1>8, <1>9, <1>10

\* What an item rests, takes or gives.
LEMMA RestsWhen ==
  ASSUME NEW rs, NEW rt, NEW ext, RowsGo(rs, rt, ext), NEW x,
         \A k \in DOMAIN ext : ext[k].item # x
  PROVE  Rests(rs, rt, x)
<1>1. Grows(rs, rt)
  BY Gone
<1>2. NewOf(rs, rt, x) = {}
  BY Gone DEF NewOf
<1>3. ASSUME NEW i PROVE i \in LiveOf(rt, x) <=> i \in LiveOf(rs, x)
  <2>1. CASE i \in DOMAIN rs
    <3>1. rt[i] = rs[i]
      BY <1>1, <2>1 DEF Grows
    <3>2. rs[i].item = x => \A k \in DOMAIN ext : ext[k].reverses # i
      <4>1. 0 \notin DOMAIN rs
        BY <1>1, RowsAre DEF Grows
      <4>. QED
        BY <2>1, <4>1 DEF RowsGo, Mirrors
    <3>3. (i \in Standing(rt)) <=> (i \in Standing(rs) /\ \A k \in DOMAIN ext : ext[k].reverses # i)
      BY <2>1, Gone
    <3>. QED
      BY <3>1, <3>2, <3>3 DEF LiveOf
  <2>2. CASE i \notin DOMAIN rs
    BY <1>2, <2>2 DEF NewOf, LiveOf, Standing
  <2>. QED
    BY <2>1, <2>2
<1>. QED
  BY <1>1, <1>2, <1>3 DEF Rests

LEMMA TakesWhen ==
  ASSUME NEW rs, NEW rt, NEW ext, RowsGo(rs, rt, ext), NEW x, NEW k \in DOMAIN ext,
         ext[k].item = x, ext[k].type = "OUT", ext[k].reverses = 0,
         \A l \in DOMAIN ext : ext[l].item = x => l = k
  PROVE  \E j \in DOMAIN rt : Takes(rs, rt, x, j) /\ j = Len(rs) + k /\ rt[j] = ext[k]
<1>1. Grows(rs, rt)
  BY Gone
<1>2. PICK j \in DOMAIN rt \ DOMAIN rs : j = Len(rs) + k /\ rt[j] = ext[k]
  BY Gone
<1>3. NewOf(rs, rt, x) = {j}
  <2>1. ASSUME NEW l \in NewOf(rs, rt, x) PROVE l = j
    <3>1. PICK q \in DOMAIN ext : l = Len(rs) + q /\ rt[l] = ext[q]
      BY <2>1, Gone DEF NewOf
    <3>2. q = k
      BY <2>1, <3>1 DEF NewOf
    <3>. QED
      BY <1>2, <3>1, <3>2
  <2>. QED
    BY <1>2, <2>1 DEF NewOf
<1>4. ASSUME NEW i PROVE i \in LiveOf(rt, x) <=> i \in LiveOf(rs, x) \cup {j}
  <2>1. CASE i \in DOMAIN rs
    <3>1. rt[i] = rs[i] /\ i # j
      BY <1>1, <1>2, <2>1 DEF Grows
    <3>2. rs[i].item = x => \A l \in DOMAIN ext : ext[l].reverses # i
      <4>1. 0 \notin DOMAIN rs
        BY <1>1, RowsAre DEF Grows
      <4>. QED
        BY <2>1, <4>1 DEF RowsGo, Mirrors
    <3>3. (i \in Standing(rt)) <=> (i \in Standing(rs) /\ \A l \in DOMAIN ext : ext[l].reverses # i)
      BY <2>1, Gone
    <3>. QED
      BY <3>1, <3>2, <3>3 DEF LiveOf
  <2>2. CASE i \notin DOMAIN rs
    <3>1. i \in LiveOf(rt, x) => i = j
      BY <1>3, <2>2 DEF NewOf, LiveOf, Standing
    <3>2. j \in LiveOf(rt, x)
      BY <1>2, Gone DEF LiveOf
    <3>3. i \notin LiveOf(rs, x)
      BY <2>2 DEF LiveOf, Standing
    <3>. QED
      BY <3>1, <3>2, <3>3
  <2>. QED
    BY <2>1, <2>2
<1>5. Takes(rs, rt, x, j)
  BY <1>1, <1>2, <1>3, <1>4 DEF Takes
<1>. QED
  BY <1>2, <1>5

LEMMA GivesWhen ==
  ASSUME NEW rs, NEW rt, NEW ext, RowsGo(rs, rt, ext), NEW x, NEW k \in DOMAIN ext,
         NEW i \in LiveOf(rs, x), ext[k].reverses = i, ext[k].type = "IN",
         \A l \in DOMAIN ext : ext[l].item = x => l = k
  PROVE  \E j \in DOMAIN rt : Gives(rs, rt, x, i, j)
<1>1. Grows(rs, rt)
  BY Gone
<1>2. PICK j \in DOMAIN rt \ DOMAIN rs : j = Len(rs) + k /\ rt[j] = ext[k]
  BY Gone
<1>3. i \in DOMAIN rs /\ rs[i].item = x /\ 0 \notin DOMAIN rs
  BY <1>1, RowsAre DEF LiveOf, Standing, Grows
<1>4. Mirrors(rs[i], ext[k])
  BY <1>3 DEF RowsGo
<1>5. NewOf(rs, rt, x) = {j}
  <2>1. ASSUME NEW l \in NewOf(rs, rt, x) PROVE l = j
    <3>1. PICK q \in DOMAIN ext : l = Len(rs) + q /\ rt[l] = ext[q]
      BY <2>1, Gone DEF NewOf
    <3>2. q = k
      BY <2>1, <3>1 DEF NewOf
    <3>. QED
      BY <1>2, <3>1, <3>2
  <2>. QED
    BY <1>2, <1>3, <1>4, <2>1 DEF NewOf, Mirrors
<1>6. ASSUME NEW q PROVE q \in LiveOf(rt, x) <=> q \in LiveOf(rs, x) \ {i}
  <2>1. CASE q \in DOMAIN rs
    <3>1. rt[q] = rs[q]
      BY <1>1, <2>1 DEF Grows
    <3>2. rs[q].item = x => ((\A l \in DOMAIN ext : ext[l].reverses # q) <=> q # i)
      <4>1. ASSUME rs[q].item = x, NEW l \in DOMAIN ext, ext[l].reverses = q PROVE l = k
        BY <1>3, <2>1, <4>1 DEF RowsGo, Mirrors
      <4>. QED
        BY <4>1
    <3>3. (q \in Standing(rt)) <=> (q \in Standing(rs) /\ \A l \in DOMAIN ext : ext[l].reverses # q)
      BY <2>1, Gone
    <3>. QED
      BY <3>1, <3>2, <3>3 DEF LiveOf
  <2>2. CASE q \notin DOMAIN rs
    <3>1. q \in LiveOf(rt, x) => q = j
      BY <1>5, <2>2 DEF NewOf, LiveOf, Standing
    <3>2. rt[j].reverses # 0
      BY <1>2, <1>3
    <3>3. j \notin Standing(rt)
      BY <1>2, <3>2, Gone
    <3>4. q \notin LiveOf(rs, x)
      BY <2>2 DEF LiveOf, Standing
    <3>. QED
      BY <3>1, <3>3, <3>4 DEF LiveOf
  <2>. QED
    BY <2>1, <2>2
<1>7. Gives(rs, rt, x, i, j)
  BY <1>1, <1>2, <1>4, <1>5, <1>6 DEF Gives, Mirrors
<1>. QED
  BY <1>2, <1>7

-----------------------------------------------------------------------------
(* What kind of rows stand.                                                 *)

RowFine(rs, i) ==
  /\ rs[i].item \in Coils =>
       /\ rs[i].type = "OUT"
       /\ \/ rs[i].ref = "SCRAP" /\ rs[i].owner = Nobody
          \/ rs[i].ref \in {"REPORT", "CLOSE"} /\ rs[i].owner \in Orders
  /\ (rs[i].ref = "REPORT" /\ rs[i].type = "OUT") =>
       /\ rs[i].item \in Coils /\ i + 1 \in DOMAIN rs
       /\ rs[i + 1].item = Product /\ rs[i + 1].type = "IN"
       /\ rs[i + 1].ref = "REPORT" /\ rs[i + 1].owner = rs[i].owner
  /\ rs[i].ref = "SALE" => rs[i].item = Product /\ rs[i].type = "OUT"
  /\ rs[i].ref = "CLOSE" => rs[i].owner \in Orders

FineRows(rs) == \A i \in Standing(rs) : RowFine(rs, i)

LEMMA FineStays ==
  ASSUME NEW rs, NEW rt, NEW ext, RowsGo(rs, rt, ext), FineRows(rs),
         \A k \in DOMAIN ext : ext[k].reverses = 0 => RowFine(ext, k)
  PROVE  FineRows(rt)
<1>1. Grows(rs, rt)
  BY Gone
<1>2. ASSUME NEW i \in Standing(rt), i \in DOMAIN rs PROVE RowFine(rt, i)
  <2>1. RowFine(rs, i)
    BY <1>2, Gone DEF FineRows
  <2>2. \A j \in DOMAIN rs : j \in DOMAIN rt /\ rt[j] = rs[j]
    BY <1>1 DEF Grows
  <2>. QED
    BY <1>2, <2>1, <2>2 DEF RowFine
<1>3. ASSUME NEW i \in Standing(rt), i \notin DOMAIN rs PROVE RowFine(rt, i)
  <2>1. i \in DOMAIN rt \ DOMAIN rs
    BY <1>3 DEF Standing
  <2>2. PICK k \in DOMAIN ext : i = Len(rs) + k /\ rt[i] = ext[k]
    BY <2>1, Gone
  <2>3. rt[i].reverses = 0
    BY <1>3, <2>1, Gone
  <2>4. RowFine(ext, k)
    BY <2>2, <2>3
  <2>5. ASSUME k + 1 \in DOMAIN ext PROVE i + 1 \in DOMAIN rt /\ rt[i + 1] = ext[k + 1]
    <3>1. PICK j \in DOMAIN rt \ DOMAIN rs : j = Len(rs) + (k + 1) /\ rt[j] = ext[k + 1]
      BY <2>5, Gone
    <3>2. Len(rs) \in Nat /\ k \in Nat
      <4>1. IsSeq(ext) /\ RowsTyped(rs)
        BY DEF RowsGo
      <4>. QED
        BY <4>1, SeqIs, RowsAre
    <3>3. j = i + 1
      BY <2>2, <3>1, <3>2
    <3>. QED
      BY <3>1, <3>3
  <2>. QED
    BY <2>2, <2>4, <2>5 DEF RowFine
<1>. QED
  BY <1>2, <1>3 DEF FineRows

LEMMA OutsRest ==
  ASSUME NEW rs, NEW rt, NEW ext, RowsGo(rs, rt, ext), NEW o, NEW ref,
         \A k \in DOMAIN ext : ~(ext[k].ref = ref /\ ext[k].owner = o)
  PROVE  OutsOf(rt, o, ref) = OutsOf(rs, o, ref)
<1>1. Grows(rs, rt)
  BY Gone
<1>2. ASSUME NEW i PROVE i \in OutsOf(rt, o, ref) <=> i \in OutsOf(rs, o, ref)
  <2>1. CASE i \in DOMAIN rs
    <3>1. rt[i] = rs[i]
      BY <1>1, <2>1 DEF Grows
    <3>2. (rs[i].ref = ref /\ rs[i].owner = o) => \A k \in DOMAIN ext : ext[k].reverses # i
      <4>1. 0 \notin DOMAIN rs
        BY <1>1, RowsAre DEF Grows
      <4>. QED
        BY <2>1, <4>1 DEF RowsGo, Mirrors
    <3>3. (i \in Standing(rt)) <=> (i \in Standing(rs) /\ \A k \in DOMAIN ext : ext[k].reverses # i)
      BY <2>1, Gone
    <3>. QED
      BY <3>1, <3>2, <3>3 DEF OutsOf
  <2>2. CASE i \notin DOMAIN rs
    BY <2>2, Gone DEF OutsOf, Standing
  <2>. QED
    BY <2>1, <2>2
<1>. QED
  BY <1>2

LEMMA OutsGrow ==
  ASSUME NEW rs, NEW rt, NEW ext, RowsGo(rs, rt, ext), NEW o, NEW ref, NEW k \in DOMAIN ext,
         ext[k].ref = ref, ext[k].owner = o, ext[k].type = "OUT",
         \A l \in DOMAIN ext : ext[l].reverses = 0 /\ (ext[l].type = "OUT" => l = k)
  PROVE  OutsOf(rt, o, ref) = OutsOf(rs, o, ref) \cup {Len(rs) + k}
<1>1. Grows(rs, rt) /\ 0 \notin DOMAIN rs
  BY Gone, RowsAre DEF Grows
<1>2. PICK j \in DOMAIN rt \ DOMAIN rs : j = Len(rs) + k /\ rt[j] = ext[k]
  BY Gone
<1>3. ASSUME NEW i PROVE i \in OutsOf(rt, o, ref) <=> i \in OutsOf(rs, o, ref) \cup {j}
  <2>1. CASE i \in DOMAIN rs
    <3>1. rt[i] = rs[i] /\ i # j
      BY <1>1, <1>2, <2>1 DEF Grows
    <3>2. (i \in Standing(rt)) <=> (i \in Standing(rs))
      BY <1>1, <2>1, Gone
    <3>. QED
      BY <3>1, <3>2 DEF OutsOf
  <2>2. CASE i \notin DOMAIN rs
    <3>1. i \in OutsOf(rt, o, ref) => i = j
      <4>. SUFFICES ASSUME i \in OutsOf(rt, o, ref) PROVE i = j
        OBVIOUS
      <4>1. i \in DOMAIN rt \ DOMAIN rs /\ rt[i].type = "OUT"
        BY <2>2 DEF OutsOf, Standing
      <4>2. PICK l \in DOMAIN ext : i = Len(rs) + l /\ rt[i] = ext[l]
        BY <4>1, Gone
      <4>. QED
        BY <1>2, <4>1, <4>2
    <3>2. j \in OutsOf(rt, o, ref)
      <4>1. j \in Standing(rt)
        BY <1>2, Gone
      <4>. QED
        BY <1>2, <4>1 DEF OutsOf
    <3>3. i \notin OutsOf(rs, o, ref)
      BY <2>2 DEF OutsOf, Standing
    <3>. QED
      BY <3>1, <3>2, <3>3
  <2>. QED
    BY <2>1, <2>2
<1>. QED
  BY <1>2, <1>3

LEMMA OutsShrink ==
  ASSUME NEW rs, NEW rt, NEW ext, RowsGo(rs, rt, ext), NEW o, NEW ref,
         NEW i \in OutsOf(rs, o, ref), NEW k \in DOMAIN ext, ext[k].reverses = i,
         \A l \in DOMAIN ext : /\ ext[l].reverses # 0
                               /\ ext[l].reverses \in OutsOf(rs, o, ref) => l = k
  PROVE  OutsOf(rt, o, ref) = OutsOf(rs, o, ref) \ {i}
<1>1. Grows(rs, rt)
  BY Gone
<1>2. ASSUME NEW j PROVE j \in OutsOf(rt, o, ref) <=> j \in OutsOf(rs, o, ref) \ {i}
  <2>1. CASE j \in DOMAIN rs
    <3>1. rt[j] = rs[j]
      BY <1>1, <2>1 DEF Grows
    <3>2. (j \in Standing(rt)) <=> (j \in Standing(rs) /\ \A l \in DOMAIN ext : ext[l].reverses # j)
      BY <2>1, Gone
    <3>. QED
      BY <3>1, <3>2 DEF OutsOf
  <2>2. CASE j \notin DOMAIN rs
    <3>1. j \notin Standing(rt)
      <4>. SUFFICES ASSUME j \in Standing(rt) PROVE FALSE
        OBVIOUS
      <4>1. j \in DOMAIN rt \ DOMAIN rs
        BY <2>2 DEF Standing
      <4>2. PICK l \in DOMAIN ext : rt[j] = ext[l]
        BY <4>1, Gone
      <4>. QED
        BY <4>1, <4>2, Gone
    <3>. QED
      BY <2>2, <3>1 DEF OutsOf, Standing
  <2>. QED
    BY <2>1, <2>2
<1>. QED
  BY <1>2

-----------------------------------------------------------------------------
(* A line: what is promised to it was made for it and is here, and at every *)
(* report nothing had been dispatched but what the reports before it made.  *)

PromiseType == [qty : Nat, status : {"NONE", "ACTIVE", "CONSUMED", "RELEASED"}]

Ahead(rs, R, S) == \A i \in R : QtyOf(rs, Before(S, i)) <= QtyOf(rs, Entries(Before(R, i)))

LineOK(rs, p, o) ==
  /\ p \in PromiseType /\ (p.status # "ACTIVE" => p.qty = 0)
  /\ p.qty <= QtyOf(rs, Entries(ReportsOf(rs, o))) - QtyOf(rs, SalesOf(rs, o))
  /\ Ahead(rs, ReportsOf(rs, o), SalesOf(rs, o))

LEMMA LineRows ==
  ASSUME NEW rs, RowsTyped(rs), FineRows(rs), NEW o
  PROVE  /\ ReportsOf(rs, o) \in SUBSET DOMAIN rs /\ SalesOf(rs, o) \in SUBSET DOMAIN rs
         /\ \A i \in ReportsOf(rs, o) : i \in Nat /\ i + 1 \in DOMAIN rs
         /\ Entries(ReportsOf(rs, o)) \in SUBSET DOMAIN rs
         /\ \A i : /\ Before(SalesOf(rs, o), i) \in SUBSET SalesOf(rs, o)
                   /\ Before(SalesOf(rs, o), i) \in SUBSET DOMAIN rs
                   /\ Entries(Before(ReportsOf(rs, o), i)) \in SUBSET Entries(ReportsOf(rs, o))
                   /\ Entries(Before(ReportsOf(rs, o), i)) \in SUBSET DOMAIN rs
<1>1. ReportsOf(rs, o) \in SUBSET DOMAIN rs /\ SalesOf(rs, o) \in SUBSET DOMAIN rs
  BY DEF ReportsOf, SalesOf, OutsOf, Standing
<1>2. \A i \in ReportsOf(rs, o) : i \in Nat /\ i + 1 \in DOMAIN rs
  <2>1. \A i \in ReportsOf(rs, o) : i + 1 \in DOMAIN rs
    BY DEF ReportsOf, OutsOf, FineRows, RowFine
  <2>. QED
    BY <1>1, <2>1, RowsAre
<1>3. Entries(ReportsOf(rs, o)) \in SUBSET DOMAIN rs
  BY <1>2 DEF Entries
<1>4. \A i : /\ Before(SalesOf(rs, o), i) \in SUBSET SalesOf(rs, o)
             /\ Entries(Before(ReportsOf(rs, o), i)) \in SUBSET Entries(ReportsOf(rs, o))
  BY DEF Before, Entries
<1>. QED
  BY <1>1, <1>2, <1>3, <1>4

LEMMA LineQty ==
  ASSUME NEW rs, RowsTyped(rs), FineRows(rs), NEW o
  PROVE  /\ QtyOf(rs, Entries(ReportsOf(rs, o))) \in Nat /\ QtyOf(rs, SalesOf(rs, o)) \in Nat
         /\ \A i : /\ QtyOf(rs, Before(SalesOf(rs, o), i)) \in Nat
                   /\ QtyOf(rs, Entries(Before(ReportsOf(rs, o), i))) \in Nat
<1>1. QtyOf(rs, Entries(ReportsOf(rs, o))) \in Nat /\ QtyOf(rs, SalesOf(rs, o)) \in Nat
  BY LineRows, QtyNat
<1>2. \A i : /\ Before(SalesOf(rs, o), i) \in SUBSET DOMAIN rs
             /\ Entries(Before(ReportsOf(rs, o), i)) \in SUBSET DOMAIN rs
  BY LineRows
<1>. QED
  BY <1>1, <1>2, QtyNat

\* The sums of a line, in the rows there are and in those that follow.
LEMMA LineKept ==
  ASSUME NEW rs, NEW rt, Grows(rs, rt), FineRows(rs), NEW o
  PROVE  /\ QtyOf(rt, Entries(ReportsOf(rs, o))) = QtyOf(rs, Entries(ReportsOf(rs, o)))
         /\ QtyOf(rt, SalesOf(rs, o)) = QtyOf(rs, SalesOf(rs, o))
         /\ \A i : /\ QtyOf(rt, Before(SalesOf(rs, o), i)) = QtyOf(rs, Before(SalesOf(rs, o), i))
                   /\ QtyOf(rt, Entries(Before(ReportsOf(rs, o), i)))
                        = QtyOf(rs, Entries(Before(ReportsOf(rs, o), i)))
<1>1. RowsTyped(rs)
  BY DEF Grows
<1>2. /\ QtyOf(rt, Entries(ReportsOf(rs, o))) = QtyOf(rs, Entries(ReportsOf(rs, o)))
      /\ QtyOf(rt, SalesOf(rs, o)) = QtyOf(rs, SalesOf(rs, o))
  BY <1>1, LineRows, QtyKept
<1>3. \A i : /\ Before(SalesOf(rs, o), i) \in SUBSET DOMAIN rs
             /\ Entries(Before(ReportsOf(rs, o), i)) \in SUBSET DOMAIN rs
  BY <1>1, LineRows
<1>. QED
  BY <1>2, <1>3, QtyKept

LEMMA LineRests ==
  ASSUME NEW rs, NEW rt, Grows(rs, rt), FineRows(rs), NEW o, NEW p, LineOK(rs, p, o),
         ReportsOf(rt, o) = ReportsOf(rs, o), SalesOf(rt, o) = SalesOf(rs, o)
  PROVE  LineOK(rt, p, o)
<1>1. Ahead(rt, ReportsOf(rs, o), SalesOf(rs, o))
  BY LineKept DEF LineOK, Ahead
<1>2. p.qty <= QtyOf(rt, Entries(ReportsOf(rs, o))) - QtyOf(rt, SalesOf(rs, o))
  BY LineKept DEF LineOK
<1>. QED
  BY <1>1, <1>2 DEF LineOK

LEMMA LineReports ==
  ASSUME NEW rs, NEW rt, Grows(rs, rt), FineRows(rs), FineRows(rt), NEW o, NEW p, NEW p2,
         LineOK(rs, p, o), NEW k, k = Len(rs) + 1,
         ReportsOf(rt, o) = ReportsOf(rs, o) \cup {k}, SalesOf(rt, o) = SalesOf(rs, o),
         p2 \in PromiseType, p2.status # "ACTIVE" => p2.qty = 0,
         p2.qty <= p.qty + rt[k + 1].qty
  PROVE  LineOK(rt, p2, o)
<1>1. RowsTyped(rs) /\ RowsTyped(rt)
  BY DEF Grows
<1>2. PICK n \in Nat : n = Len(rs) /\ DOMAIN rs = 1..n
  BY <1>1, RowsAre
<1>3. k = n + 1 /\ k + 1 \in DOMAIN rt
  <2>1. k \in ReportsOf(rt, o)
    OBVIOUS
  <2>. QED
    BY <1>1, <1>2, <2>1, LineRows
<1>4. /\ ReportsOf(rs, o) \in SUBSET (1..n) /\ SalesOf(rs, o) \in SUBSET (1..n)
      /\ Entries(ReportsOf(rs, o)) \in SUBSET (1..n)
  BY <1>1, <1>2, LineRows
<1>5. Entries(ReportsOf(rs, o) \cup {k}) = Entries(ReportsOf(rs, o)) \cup {k + 1}
  BY DEF Entries
<1>6. QtyOf(rt, Entries(ReportsOf(rt, o))) = QtyOf(rs, Entries(ReportsOf(rs, o))) + rt[k + 1].qty
  <2>1. k + 1 \notin Entries(ReportsOf(rs, o)) /\ Entries(ReportsOf(rs, o)) \in SUBSET DOMAIN rt
    BY <1>2, <1>3, <1>4 DEF Grows
  <2>2. QtyOf(rt, Entries(ReportsOf(rs, o)) \cup {k + 1})
          = QtyOf(rt, Entries(ReportsOf(rs, o))) + rt[k + 1].qty
    BY <1>1, <1>3, <2>1, QtyWith
  <2>3. QtyOf(rt, Entries(ReportsOf(rs, o))) = QtyOf(rs, Entries(ReportsOf(rs, o)))
    BY LineKept
  <2>4. Entries(ReportsOf(rt, o)) = Entries(ReportsOf(rs, o)) \cup {k + 1}
    BY <1>5
  <2>. QED
    BY <2>2, <2>3, <2>4
<1>7. /\ QtyOf(rs, Entries(ReportsOf(rs, o))) \in Nat /\ QtyOf(rs, SalesOf(rs, o)) \in Nat
      /\ p.qty \in Nat /\ p2.qty \in Nat /\ rt[k + 1].qty \in Nat
      /\ p.qty <= QtyOf(rs, Entries(ReportsOf(rs, o))) - QtyOf(rs, SalesOf(rs, o))
  BY <1>1, <1>3, LineQty, RowsAre DEF LineOK, PromiseType
<1>8. p2.qty <= QtyOf(rt, Entries(ReportsOf(rt, o))) - QtyOf(rt, SalesOf(rt, o))
  <2>1. QtyOf(rt, SalesOf(rt, o)) = QtyOf(rs, SalesOf(rs, o))
    BY LineKept
  <2>. QED
    BY <1>6, <1>7, <2>1
<1>9. Ahead(rt, ReportsOf(rt, o), SalesOf(rt, o))
  <2>1. ASSUME NEW i \in ReportsOf(rs, o)
        PROVE  QtyOf(rt, Before(SalesOf(rt, o), i)) <= QtyOf(rt, Entries(Before(ReportsOf(rt, o), i)))
    <3>1. Before(ReportsOf(rs, o) \cup {k}, i) = Before(ReportsOf(rs, o), i)
      BY <1>3, <1>4 DEF Before
    <3>. QED
      BY <3>1, LineKept DEF LineOK, Ahead
  <2>2. QtyOf(rt, Before(SalesOf(rt, o), k)) <= QtyOf(rt, Entries(Before(ReportsOf(rt, o), k)))
    <3>1. Before(SalesOf(rs, o), k) = SalesOf(rs, o)
      BY <1>3, <1>4 DEF Before
    <3>2. Before(ReportsOf(rs, o) \cup {k}, k) = ReportsOf(rs, o)
      BY <1>3, <1>4 DEF Before
    <3>3. QtyOf(rs, SalesOf(rs, o)) <= QtyOf(rs, Entries(ReportsOf(rs, o)))
      BY <1>7
    <3>. QED
      BY <3>1, <3>2, <3>3, LineKept
  <2>. QED
    BY <2>1, <2>2 DEF Ahead
<1>. QED
  BY <1>8, <1>9 DEF LineOK

LEMMA LineUnreports ==
  ASSUME NEW rs, NEW rt, Grows(rs, rt), FineRows(rs), NEW o, NEW p, NEW p2,
         LineOK(rs, p, o), NEW i \in ReportsOf(rs, o),
         \A j \in ReportsOf(rs, o) : i >= j, \A j \in SalesOf(rs, o) : j < i,
         ReportsOf(rt, o) = ReportsOf(rs, o) \ {i}, SalesOf(rt, o) = SalesOf(rs, o),
         p2 \in PromiseType, p2.status # "ACTIVE" => p2.qty = 0,
         p2.qty = 0 \/ p2.qty <= p.qty - rs[i + 1].qty
  PROVE  LineOK(rt, p2, o)
<1>1. RowsTyped(rs) /\ i \in Nat /\ i + 1 \in DOMAIN rs
  <2>1. RowsTyped(rs)
    BY DEF Grows
  <2>. QED
    BY <2>1, LineRows
<1>2. /\ ReportsOf(rs, o) \in SUBSET DOMAIN rs /\ \A j \in DOMAIN rs : j \in Nat
      /\ Entries(ReportsOf(rs, o)) \in SUBSET DOMAIN rs
  BY <1>1, LineRows, RowsAre
<1>3. Entries(ReportsOf(rs, o) \ {i}) = Entries(ReportsOf(rs, o)) \ {i + 1}
  BY <1>1, <1>2 DEF Entries
<1>4. QtyOf(rt, Entries(ReportsOf(rt, o))) = QtyOf(rs, Entries(ReportsOf(rs, o))) - rs[i + 1].qty
  <2>1. i + 1 \in Entries(ReportsOf(rs, o))
    BY DEF Entries
  <2>2. QtyOf(rs, Entries(ReportsOf(rs, o)) \ {i + 1})
          = QtyOf(rs, Entries(ReportsOf(rs, o))) - rs[i + 1].qty
    BY <1>1, <1>2, <2>1, QtyWithout
  <2>3. (Entries(ReportsOf(rs, o)) \ {i + 1}) \in SUBSET DOMAIN rs
    BY <1>2
  <2>4. QtyOf(rt, Entries(ReportsOf(rs, o)) \ {i + 1}) = QtyOf(rs, Entries(ReportsOf(rs, o)) \ {i + 1})
    BY <2>3, QtyKept
  <2>. QED
    BY <1>3, <2>2, <2>4
<1>5. /\ QtyOf(rs, Entries(ReportsOf(rs, o))) \in Nat /\ QtyOf(rs, SalesOf(rs, o)) \in Nat
      /\ p.qty \in Nat /\ p2.qty \in Nat /\ rs[i + 1].qty \in Nat
      /\ p.qty <= QtyOf(rs, Entries(ReportsOf(rs, o))) - QtyOf(rs, SalesOf(rs, o))
      /\ QtyOf(rt, SalesOf(rt, o)) = QtyOf(rs, SalesOf(rs, o))
  BY <1>1, LineQty, LineKept, RowsAre DEF LineOK, PromiseType
\* What was dispatched came from the reports that stay.
<1>6. QtyOf(rs, SalesOf(rs, o)) <= QtyOf(rt, Entries(ReportsOf(rt, o)))
  <2>1. Before(SalesOf(rs, o), i) = SalesOf(rs, o)
    BY DEF Before
  <2>2. Before(ReportsOf(rs, o), i) = ReportsOf(rs, o) \ {i}
    <3>1. ASSUME NEW j \in ReportsOf(rs, o) PROVE j < i <=> j # i
      <4>1. j \in Nat /\ i >= j
        BY <1>2
      <4>. QED
        BY <1>1, <4>1
    <3>. QED
      BY <3>1 DEF Before
  <2>3. QtyOf(rs, SalesOf(rs, o)) <= QtyOf(rs, Entries(ReportsOf(rs, o) \ {i}))
    BY <2>1, <2>2 DEF LineOK, Ahead
  <2>4. QtyOf(rt, Entries(ReportsOf(rs, o) \ {i})) = QtyOf(rs, Entries(ReportsOf(rs, o) \ {i}))
    <3>1. Entries(ReportsOf(rs, o) \ {i}) \in SUBSET DOMAIN rs
      BY <1>2, <1>3
    <3>. QED
      BY <3>1, QtyKept
  <2>. QED
    BY <2>3, <2>4
<1>7. p2.qty <= QtyOf(rt, Entries(ReportsOf(rt, o))) - QtyOf(rt, SalesOf(rt, o))
  BY <1>4, <1>5, <1>6
<1>8. Ahead(rt, ReportsOf(rt, o), SalesOf(rt, o))
  <2>1. ASSUME NEW j \in ReportsOf(rs, o) \ {i}
        PROVE  QtyOf(rt, Before(SalesOf(rt, o), j)) <= QtyOf(rt, Entries(Before(ReportsOf(rt, o), j)))
    <3>1. Before(ReportsOf(rs, o) \ {i}, j) = Before(ReportsOf(rs, o), j)
      <4>1. j \in Nat /\ i >= j
        BY <1>2
      <4>. QED
        BY <1>1, <4>1 DEF Before
    <3>. QED
      BY <3>1, LineKept DEF LineOK, Ahead
  <2>. QED
    BY <2>1 DEF Ahead
<1>. QED
  BY <1>7, <1>8 DEF LineOK

LEMMA LineSells ==
  ASSUME NEW rs, NEW rt, Grows(rs, rt), FineRows(rs), NEW o, NEW p, NEW p2,
         LineOK(rs, p, o), NEW k \in DOMAIN rt, k = Len(rs) + 1,
         ReportsOf(rt, o) = ReportsOf(rs, o), SalesOf(rt, o) = SalesOf(rs, o) \cup {k},
         p2 \in PromiseType, p2.status # "ACTIVE" => p2.qty = 0,
         p2.qty = p.qty - rt[k].qty
  PROVE  LineOK(rt, p2, o)
<1>1. RowsTyped(rs) /\ RowsTyped(rt)
  BY DEF Grows
<1>2. PICK n \in Nat : n = Len(rs) /\ DOMAIN rs = 1..n /\ k = n + 1
  BY <1>1, RowsAre
<1>3. ReportsOf(rs, o) \in SUBSET (1..n) /\ SalesOf(rs, o) \in SUBSET (1..n)
  BY <1>1, <1>2, LineRows
<1>4. QtyOf(rt, SalesOf(rt, o)) = QtyOf(rs, SalesOf(rs, o)) + rt[k].qty
  <2>1. k \notin SalesOf(rs, o) /\ SalesOf(rs, o) \in SUBSET DOMAIN rt
    BY <1>2, <1>3 DEF Grows
  <2>2. QtyOf(rt, SalesOf(rs, o) \cup {k}) = QtyOf(rt, SalesOf(rs, o)) + rt[k].qty
    BY <1>1, <2>1, QtyWith
  <2>. QED
    BY <2>2, LineKept
<1>5. /\ QtyOf(rs, Entries(ReportsOf(rs, o))) \in Nat /\ QtyOf(rs, SalesOf(rs, o)) \in Nat
      /\ p.qty \in Nat /\ rt[k].qty \in Nat
      /\ p.qty <= QtyOf(rs, Entries(ReportsOf(rs, o))) - QtyOf(rs, SalesOf(rs, o))
      /\ QtyOf(rt, Entries(ReportsOf(rt, o))) = QtyOf(rs, Entries(ReportsOf(rs, o)))
  BY <1>1, LineQty, LineKept, RowsAre DEF LineOK, PromiseType
<1>6. p2.qty <= QtyOf(rt, Entries(ReportsOf(rt, o))) - QtyOf(rt, SalesOf(rt, o))
  BY <1>4, <1>5
<1>7. Ahead(rt, ReportsOf(rt, o), SalesOf(rt, o))
  <2>1. ASSUME NEW i \in ReportsOf(rs, o)
        PROVE  QtyOf(rt, Before(SalesOf(rt, o), i)) <= QtyOf(rt, Entries(Before(ReportsOf(rt, o), i)))
    <3>1. Before(SalesOf(rs, o) \cup {k}, i) = Before(SalesOf(rs, o), i)
      BY <1>2, <1>3 DEF Before
    <3>. QED
      BY <3>1, LineKept DEF LineOK, Ahead
  <2>. QED
    BY <2>1 DEF Ahead
<1>. QED
  BY <1>6, <1>7 DEF LineOK

LEMMA LineUnsells ==
  ASSUME NEW rs, NEW rt, Grows(rs, rt), FineRows(rs), NEW o, NEW p, NEW p2,
         LineOK(rs, p, o), NEW i \in SalesOf(rs, o),
         ReportsOf(rt, o) = ReportsOf(rs, o), SalesOf(rt, o) = SalesOf(rs, o) \ {i},
         p2 \in PromiseType, p2.status # "ACTIVE" => p2.qty = 0,
         p2.qty <= p.qty + rs[i].qty
  PROVE  LineOK(rt, p2, o)
<1>1. RowsTyped(rs)
  BY DEF Grows
<1>2. SalesOf(rs, o) \in SUBSET DOMAIN rs /\ (SalesOf(rs, o) \ {i}) \in SUBSET DOMAIN rs /\ i \in DOMAIN rs
  BY <1>1, LineRows
<1>3. QtyOf(rt, SalesOf(rt, o)) = QtyOf(rs, SalesOf(rs, o)) - rs[i].qty
  BY <1>1, <1>2, QtyWithout, QtyKept
<1>4. /\ QtyOf(rs, Entries(ReportsOf(rs, o))) \in Nat /\ QtyOf(rs, SalesOf(rs, o)) \in Nat
      /\ p.qty \in Nat /\ p2.qty \in Nat /\ rs[i].qty \in Nat
      /\ p.qty <= QtyOf(rs, Entries(ReportsOf(rs, o))) - QtyOf(rs, SalesOf(rs, o))
      /\ QtyOf(rt, Entries(ReportsOf(rt, o))) = QtyOf(rs, Entries(ReportsOf(rs, o)))
  BY <1>1, <1>2, LineQty, LineKept, RowsAre DEF LineOK, PromiseType
<1>5. p2.qty <= QtyOf(rt, Entries(ReportsOf(rt, o))) - QtyOf(rt, SalesOf(rt, o))
  BY <1>3, <1>4
<1>6. Ahead(rt, ReportsOf(rt, o), SalesOf(rt, o))
  <2>1. ASSUME NEW j \in ReportsOf(rs, o)
        PROVE  QtyOf(rt, Before(SalesOf(rt, o), j)) <= QtyOf(rt, Entries(Before(ReportsOf(rt, o), j)))
    <3>1. Before(SalesOf(rt, o), j) \in SUBSET Before(SalesOf(rs, o), j)
      BY DEF Before
    <3>2. Before(SalesOf(rs, o), j) \in SUBSET DOMAIN rs
      BY <1>1, LineRows
    <3>3. QtyOf(rt, Before(SalesOf(rt, o), j)) = QtyOf(rs, Before(SalesOf(rt, o), j))
      <4>1. Before(SalesOf(rt, o), j) \in SUBSET DOMAIN rs
        BY <3>1, <3>2
      <4>. QED
        BY <4>1, QtyKept
    <3>4. /\ QtyOf(rs, Before(SalesOf(rt, o), j)) <= QtyOf(rs, Before(SalesOf(rs, o), j))
          /\ QtyOf(rs, Before(SalesOf(rt, o), j)) \in Nat
      <4>1. Before(SalesOf(rt, o), j) \in SUBSET DOMAIN rs
        BY <3>1, <3>2
      <4>. QED
        BY <1>1, <3>1, <3>2, <4>1, QtyLess, QtyNat
    <3>5. QtyOf(rs, Before(SalesOf(rs, o), j)) <= QtyOf(rs, Entries(Before(ReportsOf(rs, o), j)))
      BY DEF LineOK, Ahead
    <3>6. /\ QtyOf(rs, Before(SalesOf(rs, o), j)) \in Nat
          /\ QtyOf(rs, Entries(Before(ReportsOf(rs, o), j))) \in Nat
          /\ QtyOf(rt, Entries(Before(ReportsOf(rt, o), j))) = QtyOf(rs, Entries(Before(ReportsOf(rs, o), j)))
      BY <1>1, LineQty, LineKept
    <3>. QED
      BY <3>3, <3>4, <3>5, <3>6
  <2>. QED
    BY <2>1 DEF Ahead
<1>. QED
  BY <1>5, <1>6 DEF LineOK

-----------------------------------------------------------------------------
(* What becomes of a promise.                                               *)

\* A promise that is over keeps nothing (D-379).
Plain(p) == p \in PromiseType /\ (p.status # "ACTIVE" => p.qty = 0)

LEMMA MinOfTwo ==
  ASSUME NEW a \in Int, NEW b \in Int
  PROVE  Min({a, b}) \in {a, b} /\ Min({a, b}) <= a /\ Min({a, b}) <= b
<1>1. PICK x \in {a, b} : x <= a /\ x <= b
  OBVIOUS
<1>2. \A y \in {a, b} : x <= y
  BY <1>1
<1>3. Min({a, b}) \in {a, b} /\ \A y \in {a, b} : Min({a, b}) <= y
  BY <1>2 DEF Min
<1>. QED
  BY <1>3

LEMMA ConsumedIs ==
  ASSUME NEW p, Plain(p), NEW q \in Nat
  PROVE  /\ Plain(Consumed(p, q))
         /\ (p.status = "ACTIVE" /\ q <= p.qty) => Consumed(p, q).qty = p.qty - q
BY DEF Plain, PromiseType, Consumed, Reduced, Promise

LEMMA LoweredIs ==
  ASSUME NEW p, Plain(p), NEW q \in Nat
  PROVE  Plain(Lowered(p, q)) /\ (Lowered(p, q).qty = 0 \/ Lowered(p, q).qty <= p.qty - q)
BY DEF Plain, PromiseType, Lowered, Reduced, Promise

LEMMA RestoredIs ==
  ASSUME NEW p, Plain(p), NEW q \in Nat
  PROVE  Plain(Restored(p, q)) /\ Restored(p, q).qty <= p.qty + q
BY DEF Plain, PromiseType, Restored, Promise

LEMMA RaisedIs ==
  ASSUME ProductionAssumption, NEW p, Plain(p), NEW q \in Nat
  PROVE  Plain(Raised(p, q)) /\ Raised(p, q).qty <= p.qty + q
<1>. DEFINE held == IF p.status = "ACTIVE" THEN p.qty ELSE 0
            base == IF p.status = "RELEASED" THEN 0 ELSE p.qty
            more == Min({q, Plan - held})
<1>1. p.qty \in Nat /\ p \in PromiseType /\ held \in Nat /\ base \in Nat /\ base <= p.qty
  BY DEF Plain, PromiseType
<1>2. Plan - held \in Int /\ q \in Int
  BY <1>1 DEF ProductionAssumption
<1>3. more \in Int /\ more <= q
  BY <1>2, MinOfTwo
<1>4. Raised(p, q) = IF more > 0 THEN Promise(base + more, "ACTIVE") ELSE p
  BY DEF Raised
<1>. HIDE DEF held, base, more
<1>5. CASE more > 0
  <2>1. Raised(p, q) = [qty |-> base + more, status |-> "ACTIVE"] /\ base + more \in Nat
    BY <1>1, <1>3, <1>4, <1>5 DEF Promise
  <2>2. base + more <= p.qty + q
    BY <1>1, <1>3
  <2>. QED
    BY <2>1, <2>2 DEF Plain, PromiseType
<1>6. CASE ~(more > 0)
  BY <1>1, <1>4, <1>6
<1>. QED
  BY <1>5, <1>6

LEMMA EndedIs ==
  ASSUME NEW p \in PromiseType
  PROVE  Ended(p) \in PromiseType
BY DEF PromiseType, Ended, Promise

\* The promises of kilos keep their type with what the code does to them.
LEMMA RawIs ==
  ASSUME NEW p \in PromiseType, NEW q \in Nat
  PROVE  /\ Consumed(p, q) \in PromiseType /\ Restored(p, q) \in PromiseType
         /\ [p EXCEPT !.status = IF @ = "CONSUMED" THEN "ACTIVE" ELSE @] \in PromiseType
BY DEF PromiseType, Consumed, Reduced, Restored, Promise

-----------------------------------------------------------------------------
(* The invariant.                                                           *)

\* Types of the state.
TypeInv ==
  /\ Orderly(rows, order, mount)
  /\ closedBy \in [Coils -> CauseType]
  /\ raw \in [Orders -> PromiseType] /\ made \in [Orders -> PromiseType]

IInv ==
  /\ TypeInv /\ FineRows(rows)
  /\ \A c \in Coils : CoilOK(rows, order, mount, closedBy[c], c)
  /\ Closings(rows, order, Product)
  /\ \A o \in Orders : LineOK(rows, made[o], o)

LEMMA GrowsLonger ==
  ASSUME NEW rs, NEW rt, Grows(rs, rt)
  PROVE  Len(rs) \in Nat /\ Len(rt) \in Nat /\ Len(rs) <= Len(rt)
<1>1. PICK n \in Nat, m \in Nat : n = Len(rs) /\ m = Len(rt) /\ 1..n \subseteq 1..m
  BY RowsAre DEF Grows
<1>2. n <= m
  BY <1>1
<1>. QED
  BY <1>1, <1>2

LEMMA OrderlyStays ==
  ASSUME NEW rs, NEW rt, NEW ord, NEW ord2, NEW m, NEW m2, Orderly(rs, ord, m), Grows(rs, rt),
         ord2 \in [Orders -> OrderType], m2 \in [Orders -> [Coils -> CellType]],
         \A o \in Orders : ord2[o].rowsThen \in 0..Len(rs)
  PROVE  Orderly(rt, ord2, m2)
<1>1. \A o \in Orders : ord2[o].rowsThen <= Len(rt)
  BY GrowsLonger
<1>. QED
  BY <1>1 DEF Orderly, Grows

LEMMA RestsSame ==
  ASSUME NEW rs, RowsTyped(rs), NEW x
  PROVE  Grows(rs, rs) /\ Rests(rs, rs, x)
BY DEF Rests, Grows, NewOf

\* An operation that closes and reopens nothing leaves the closings as they are.
LEMMA ClosingsStay ==
  ASSUME NEW rs, NEW rt, NEW ext, RowsGo(rs, rt, ext), NEW ord, NEW ord2, NEW x,
         Closings(rs, ord, x), \A k \in DOMAIN ext : ext[k].ref # "CLOSE",
         \A p \in Orders : ord[p].status = "CLOSED" => ord2[p] = ord[p]
  PROVE  Closings(rt, ord2, x)
<1>1. ASSUME NEW p \in Orders, NEW i \in ClosingOf(rt, p, x) PROVE i \in ClosingOf(rs, p, x)
  <2>1. CASE i \in DOMAIN rs
    BY <1>1, <2>1, Gone DEF ClosingOf, LiveOf, Grows
  <2>2. CASE i \notin DOMAIN rs
    BY <1>1, <2>2, Gone DEF ClosingOf, LiveOf, Standing
  <2>. QED
    BY <2>1, <2>2
<1>. QED
  BY <1>1 DEF Closings

LEMMA ClosingsSame ==
  ASSUME NEW rs, NEW ord, NEW ord2, NEW x, Closings(rs, ord, x),
         \A p \in Orders : ord[p].status = "CLOSED" => ord2[p] = ord[p]
  PROVE  Closings(rs, ord2, x)
BY DEF Closings

\* What the invariant says of the operators of the model.
LEMMA InvIs ==
  ASSUME ProductionAssumption, IInv
  PROVE  /\ RowsTyped(rows) /\ Len(rows) \in Nat /\ Orderly(rows, order, mount) /\ FineRows(rows)
         /\ order \in [Orders -> OrderType] /\ mount \in [Orders -> [Coils -> CellType]]
         /\ closedBy \in [Coils -> CauseType]
         /\ raw \in [Orders -> PromiseType] /\ made \in [Orders -> PromiseType]
         /\ \A o \in Orders : /\ order[o].rowsThen \in 0..Len(rows)
                              /\ Plain(made[o]) /\ LineOK(rows, made[o], o)
                              /\ Reports(o) = ReportsOf(rows, o)
                              /\ Dispatches(o) = SalesOf(rows, o)
                              /\ Produced(o) \in Nat /\ Dispatched(o) \in Nat
                              /\ Produced(o) = QtyOf(rows, Entries(ReportsOf(rows, o)))
                              /\ Dispatched(o) = QtyOf(rows, SalesOf(rows, o))
         /\ \A c \in Coils : CoilOK(rows, order, mount, closedBy[c], c)
         /\ Closings(rows, order, Product)
<1>1. /\ RowsTyped(rows) /\ Orderly(rows, order, mount) /\ FineRows(rows)
      /\ closedBy \in [Coils -> CauseType]
      /\ raw \in [Orders -> PromiseType] /\ made \in [Orders -> PromiseType]
      /\ \A o \in Orders : LineOK(rows, made[o], o)
      /\ \A c \in Coils : CoilOK(rows, order, mount, closedBy[c], c)
      /\ Closings(rows, order, Product)
  BY DEF IInv, TypeInv, Orderly
<1>2. order \in [Orders -> OrderType] /\ mount \in [Orders -> [Coils -> CellType]]
  BY <1>1 DEF Orderly
<1>3. Len(rows) \in Nat /\ \A o \in Orders : order[o].rowsThen \in 0..Len(rows)
  BY <1>1, RowsAre DEF Orderly, OrderType
<1>4. \A o \in Orders : Plain(made[o])
  BY <1>1 DEF LineOK, Plain
<1>5. ASSUME NEW o \in Orders
      PROVE  Reports(o) = ReportsOf(rows, o) /\ Dispatches(o) = SalesOf(rows, o)
  <2>1. Reports(o) = ReportsOf(rows, o)
    BY DEF Reports, ReportsOf, OutsOf, LiveRow, Standing, Stands
  <2>2. \A i \in Standing(rows) : rows[i].ref = "SALE" => rows[i].type = "OUT"
    BY <1>1 DEF FineRows, RowFine
  <2>3. Dispatches(o) = SalesOf(rows, o)
    BY <2>2 DEF Dispatches, SalesOf, OutsOf, LiveRow, Standing, Stands
  <2>. QED
    BY <2>1, <2>3
<1>6. ASSUME NEW o \in Orders
      PROVE  /\ Produced(o) = QtyOf(rows, Entries(ReportsOf(rows, o)))
             /\ Dispatched(o) = QtyOf(rows, SalesOf(rows, o))
             /\ Produced(o) \in Nat /\ Dispatched(o) \in Nat
  <2>1. /\ Produced(o) = QtyOf(rows, Entries(ReportsOf(rows, o)))
        /\ Dispatched(o) = QtyOf(rows, SalesOf(rows, o))
    BY <1>5 DEF Produced, Dispatched, Entries
  <2>. QED
    BY <1>1, <2>1, LineQty
<1>. QED
  BY <1>1, <1>2, <1>3, <1>4, <1>5, <1>6

-----------------------------------------------------------------------------
(* Custody.                                                                 *)

\* One cell of the custody changes.
CellSet(m, m2, o, c, v) ==
  /\ m2 \in [Orders -> [Coils -> CellType]] /\ m2[o][c] = v
  /\ \A p \in Orders, d \in Coils : (p # o \/ d # c) => m2[p][d] = m[p][d]

LEMMA CellIsSet ==
  ASSUME NEW m \in [Orders -> [Coils -> CellType]], NEW o \in Orders, NEW c \in Coils,
         NEW v \in CellType, NEW m2, m2 = [m EXCEPT ![o][c] = v]
  PROVE  CellSet(m, m2, o, c, v)
BY DEF CellSet

\* The status of one order changes, and it stays one that is not closed.
StatusSet(ord, ord2, o) ==
  /\ ord2 \in [Orders -> OrderType]
  /\ ord2[o].status # "CLOSED" /\ ord2[o].rowsThen = ord[o].rowsThen
  /\ \A p \in Orders : p # o => ord2[p] = ord[p]

WithStatus(ord, o, s) == [ord EXCEPT ![o].status = s]

LEMMA StatusIsSet ==
  ASSUME NEW ord \in [Orders -> OrderType], NEW o \in Orders,
         NEW s \in {"DRAFT", "IN_PROGRESS", "CANCELLED"}, NEW ord2, ord2 = WithStatus(ord, o, s)
  PROVE  StatusSet(ord, ord2, o) /\ ord2[o].status = s
BY DEF StatusSet, OrderType, WithStatus

LEMMA StatusWithIs ==
  ASSUME NEW m, NEW o, NEW S
  PROVE  StatusWith(m, o, S) \in {"DRAFT", "IN_PROGRESS"}
BY DEF StatusWith

\* The coils that a change of status and of other cells leaves alone.
LEMMA OtherCoils ==
  ASSUME NEW ord, NEW ord2, NEW o \in Orders, NEW m, NEW m2, NEW d,
         StatusSet(ord, ord2, o), Going(ord, o), Going(ord2, o) \/ ~Involved(m, o, d),
         \A p \in Orders : m2[p][d] = m[p][d]
  PROVE  SameOrders(ord, ord2, m, m2, d)
BY DEF SameOrders, StatusSet, Going

LEMMA MountCoilStep ==
  ASSUME ProductionAssumption, IInv, NEW o \in Orders, NEW c \in Coils, MountCoil(o, c)
  PROVE  IInv'
<1>1. /\ RowsTyped(rows) /\ Orderly(rows, order, mount) /\ FineRows(rows)
      /\ order \in [Orders -> OrderType] /\ mount \in [Orders -> [Coils -> CellType]]
      /\ \A d \in Coils : CoilOK(rows, order, mount, closedBy[d], d)
      /\ \A p \in Orders : order[p].rowsThen \in 0..Len(rows)
      /\ Closings(rows, order, Product)
  BY InvIs
<1>2. /\ Going(order, o) /\ closedBy[c] = Open /\ Free(mount, c)
      /\ order' = [order EXCEPT ![o].status = "IN_PROGRESS"]
      /\ closedBy' = closedBy /\ raw' = raw /\ made' = made /\ rows' = rows
  BY DEF MountCoil, IsLive, Going
<1>3. PICK kg \in 1..Stock(rows, c) :
        mount' = [mount EXCEPT ![o][c] = [state |-> "live", assigned |-> kg, consumed |-> 0]]
  BY DEF MountCoil
<1>4. kg \in Nat
  BY <1>1, StockInt
<1>5. CellSet(mount, mount', o, c, [state |-> "live", assigned |-> kg, consumed |-> 0])
  <2>1. PICK v : v = [state |-> "live", assigned |-> kg, consumed |-> 0]
    OBVIOUS
  <2>2. v \in CellType
    BY <1>4, <2>1 DEF CellType
  <2>3. mount' = [mount EXCEPT ![o][c] = v]
    BY <1>3, <2>1
  <2>4. CellSet(mount, mount', o, c, v)
    BY <1>1, <2>2, <2>3, CellIsSet
  <2>. QED
    BY <2>1, <2>4
<1>6. StatusSet(order, order', o) /\ order'[o].status = "IN_PROGRESS"
  <2>1. PICK s : s = "IN_PROGRESS"
    OBVIOUS
  <2>2. s \in {"DRAFT", "IN_PROGRESS", "CANCELLED"} /\ order' = WithStatus(order, o, s)
    BY <1>2, <2>1 DEF WithStatus
  <2>3. StatusSet(order, order', o) /\ order'[o].status = s
    BY <1>1, <2>2, StatusIsSet
  <2>. QED
    BY <2>1, <2>3
<1>7. Grows(rows, rows') /\ \A d \in Coils : Rests(rows, rows', d)
  BY <1>1, <1>2, RestsSame
<1>8. Orderly(rows', order', mount')
  <2>1. \A p \in Orders : order'[p].rowsThen \in 0..Len(rows)
    BY <1>1, <1>6 DEF StatusSet
  <2>. QED
    BY <1>1, <1>5, <1>6, <1>7, <2>1, OrderlyStays DEF CellSet, StatusSet
<1>9. ASSUME NEW d \in Coils PROVE CoilOK(rows', order', mount', closedBy'[d], d)
  <2>1. CASE d = c
    <3>1. OthersSame(order, order', mount, mount', o, c)
      BY <1>5, <1>6 DEF OthersSame, CellSet, StatusSet
    <3>2. Going(order', o)
      BY <1>6 DEF Going
    <3>3. mount'[o][c] = [state |-> "live", assigned |-> kg, consumed |-> 0]
      BY <1>5 DEF CellSet
    <3>4. CoilOK(rows', order', mount', closedBy[c], c)
      BY <1>1, <1>2, <1>7, <1>8, <3>1, <3>2, <3>3, CoilMounts
    <3>. QED
      BY <1>2, <2>1, <3>4
  <2>2. CASE d # c
    <3>1. SameOrders(order, order', mount, mount', d)
      <4>1. \A p \in Orders : mount'[p][d] = mount[p][d]
        BY <1>5, <2>2 DEF CellSet
      <4>2. Going(order', o)
        BY <1>6 DEF Going
      <4>. QED
        BY <1>2, <1>6, <4>1, <4>2, OtherCoils
    <3>2. CoilOK(rows', order', mount', closedBy[d], d)
      BY <1>1, <1>7, <1>8, <3>1, CoilRests
    <3>. QED
      BY <1>2, <3>2
  <2>. QED
    BY <2>1, <2>2
<1>10. Closings(rows', order', Product)
  <2>1. \A p \in Orders : order[p].status = "CLOSED" => order'[p] = order[p]
    BY <1>2, <1>6 DEF StatusSet, Going
  <2>. QED
    BY <1>1, <1>2, <2>1, ClosingsSame
<1>11. TypeInv'
  BY <1>2, <1>8 DEF IInv, TypeInv
<1>. QED
  BY <1>2, <1>9, <1>10, <1>11 DEF IInv

LEMMA TerminatedIs ==
  ASSUME NEW rs, NEW m, NEW S, NEW cause, NEW d \in Coils
  PROVE  Terminated(rs, m, S, cause)[d] =
           IF d \in S /\ closedBy[d] = Open /\ Stock(rs, d) = 0 /\ Free(m, d) THEN cause
           ELSE closedBy[d]
BY DEF Terminated

LEMMA ReleaseCoilStep ==
  ASSUME ProductionAssumption, IInv, NEW o \in Orders, NEW c \in Coils, ReleaseCoil(o, c)
  PROVE  IInv'
<1>1. /\ RowsTyped(rows) /\ Orderly(rows, order, mount) /\ FineRows(rows)
      /\ order \in [Orders -> OrderType] /\ mount \in [Orders -> [Coils -> CellType]]
      /\ closedBy \in [Coils -> CauseType]
      /\ \A d \in Coils : CoilOK(rows, order, mount, closedBy[d], d)
      /\ \A p \in Orders : order[p].rowsThen \in 0..Len(rows)
      /\ Closings(rows, order, Product)
  BY InvIs
<1>2. /\ Going(order, o) /\ Has(mount, o, c) /\ mount[o][c].consumed = 0
      /\ mount' = [mount EXCEPT ![o][c] = NotMounted]
      /\ order' = [order EXCEPT ![o].status = StatusWith(mount', o, Reports(o))]
      /\ closedBy' = Terminated(rows, mount', {c}, Cause(o, 0))
      /\ raw' = raw /\ made' = made /\ rows' = rows
  BY DEF ReleaseCoil, IsLive, Going
<1>3. CellSet(mount, mount', o, c, NotMounted)
  <2>1. PICK v : v = NotMounted
    OBVIOUS
  <2>2. v \in CellType
    BY <2>1 DEF CellType, NotMounted
  <2>3. mount' = [mount EXCEPT ![o][c] = v]
    BY <1>2, <2>1
  <2>4. CellSet(mount, mount', o, c, v)
    BY <1>1, <2>2, <2>3, CellIsSet
  <2>. QED
    BY <2>1, <2>4
<1>4. StatusSet(order, order', o) /\ Going(order', o)
  <2>1. PICK s : s = StatusWith(mount', o, Reports(o))
    OBVIOUS
  <2>2. s \in {"DRAFT", "IN_PROGRESS"} /\ order' = WithStatus(order, o, s)
    BY <1>2, <2>1, StatusWithIs DEF WithStatus
  <2>3. StatusSet(order, order', o) /\ order'[o].status = s
    BY <1>1, <2>2, StatusIsSet
  <2>. QED
    BY <2>2, <2>3 DEF Going
<1>5. Grows(rows, rows') /\ \A d \in Coils : Rests(rows, rows', d)
  BY <1>1, <1>2, RestsSame
<1>6. Orderly(rows', order', mount')
  <2>1. \A p \in Orders : order'[p].rowsThen \in 0..Len(rows)
    BY <1>1, <1>4 DEF StatusSet
  <2>. QED
    BY <1>1, <1>3, <1>4, <1>5, <2>1, OrderlyStays DEF CellSet, StatusSet
<1>7. Stock(rows, c) # 0 /\ CoilOK(rows', order', mount', closedBy[c], c)
  <2>1. OthersSame(order, order', mount, mount', o, c)
    BY <1>3, <1>4 DEF OthersSame, CellSet, StatusSet
  <2>2. mount'[o][c] = NotMounted
    BY <1>3 DEF CellSet
  <2>3. /\ Rests(rows, rows', c) /\ CoilOK(rows, order, mount, closedBy[c], c)
        /\ Has(mount, o, c) /\ mount[o][c].consumed = 0 /\ Orderly(rows, order, mount)
    BY <1>1, <1>2, <1>5
  <2>. QED
    BY <1>6, <2>1, <2>2, <2>3, CoilTakenDown
<1>8. closedBy' = closedBy
  <2>1. \A d \in Coils : Terminated(rows, mount', {c}, Cause(o, 0))[d] = closedBy[d]
    BY <1>7, TerminatedIs
  <2>2. closedBy' = [d \in Coils |-> Terminated(rows, mount', {c}, Cause(o, 0))[d]]
    BY <1>2 DEF Terminated
  <2>. QED
    BY <1>1, <2>1, <2>2
<1>9. ASSUME NEW d \in Coils PROVE CoilOK(rows', order', mount', closedBy'[d], d)
  <2>1. CASE d = c
    BY <1>7, <1>8, <2>1
  <2>2. CASE d # c
    <3>1. SameOrders(order, order', mount, mount', d)
      <4>1. \A p \in Orders : mount'[p][d] = mount[p][d]
        BY <1>3, <2>2 DEF CellSet
      <4>. QED
        BY <1>2, <1>4, <4>1, OtherCoils
    <3>2. CoilOK(rows', order', mount', closedBy[d], d)
      BY <1>1, <1>5, <1>6, <3>1, CoilRests
    <3>. QED
      BY <1>8, <3>2
  <2>. QED
    BY <2>1, <2>2
<1>10. Closings(rows', order', Product)
  <2>1. \A p \in Orders : order[p].status = "CLOSED" => order'[p] = order[p]
    BY <1>2, <1>4 DEF StatusSet, Going
  <2>. QED
    BY <1>1, <1>2, <2>1, ClosingsSame
<1>11. TypeInv'
  BY <1>1, <1>2, <1>6, <1>8 DEF IInv, TypeInv
<1>. QED
  BY <1>2, <1>9, <1>10, <1>11 DEF IInv

\* An order that goes on and without reports used nothing of a coil.
LEMMA NothingUsed ==
  ASSUME ProductionAssumption, IInv, NEW o \in Orders, Going(order, o), Reports(o) = {},
         NEW c \in Coils
  PROVE  mount[o][c].consumed = 0
<1>1. ReportsOf(rows, o) = {} /\ FineRows(rows) /\ CoilOK(rows, order, mount, closedBy[c], c)
  BY InvIs
<1>2. ASSUME NEW i \in UsedBy(rows, o, c) PROVE FALSE
  <2>1. /\ i \in Standing(rows) /\ rows[i].item = c /\ rows[i].owner = o
        /\ rows[i].ref \in {"REPORT", "CLOSE"}
    BY DEF UsedBy, LiveOf
  <2>2. rows[i].type = "OUT"
    BY <1>1, <2>1 DEF FineRows, RowFine
  <2>3. CASE rows[i].ref = "REPORT"
    BY <1>1, <2>1, <2>2, <2>3 DEF ReportsOf, OutsOf
  <2>4. CASE rows[i].ref = "CLOSE"
    <3>1. i \in ClosingOf(rows, o, c)
      BY <2>1, <2>4 DEF ClosingOf, LiveOf
    <3>. QED
      BY <1>1, <3>1 DEF CoilOK, Closings, Going
  <2>. QED
    BY <2>1, <2>3, <2>4
<1>3. UsedBy(rows, o, c) = {}
  BY <1>2
<1>. QED
  BY <1>1, <1>3, QtyNone DEF CoilOK, UsedUp

LEMMA CancelStep ==
  ASSUME ProductionAssumption, IInv, NEW o \in Orders, Cancel(o)
  PROVE  IInv'
<1>1. /\ RowsTyped(rows) /\ Orderly(rows, order, mount) /\ FineRows(rows)
      /\ order \in [Orders -> OrderType] /\ mount \in [Orders -> [Coils -> CellType]]
      /\ closedBy \in [Coils -> CauseType] /\ raw \in [Orders -> PromiseType]
      /\ \A d \in Coils : CoilOK(rows, order, mount, closedBy[d], d)
      /\ \A p \in Orders : order[p].rowsThen \in 0..Len(rows)
      /\ Closings(rows, order, Product)
  BY InvIs
<1>2. /\ Going(order, o) /\ Reports(o) = {}
      /\ mount' = [mount EXCEPT ![o] = [c \in Coils |-> NotMounted]]
      /\ order' = [order EXCEPT ![o].status = "CANCELLED"]
      /\ raw' = [raw EXCEPT ![o].status = IF @ = "CONSUMED" THEN "ACTIVE" ELSE @]
      /\ closedBy' = Terminated(rows, mount', {c \in Coils : Has(mount, o, c)}, Cause(o, 0))
      /\ made' = made /\ rows' = rows
  BY DEF Cancel, IsLive, Going
<1>3. /\ mount' \in [Orders -> [Coils -> CellType]]
      /\ \A d \in Coils : mount'[o][d] = NotMounted
      /\ \A p \in Orders : p # o => mount'[p] = mount[p]
  <2>1. NotMounted \in CellType
    BY DEF CellType, NotMounted
  <2>. QED
    BY <1>1, <1>2, <2>1
<1>4. StatusSet(order, order', o) /\ order'[o].status = "CANCELLED"
  <2>1. PICK s : s = "CANCELLED"
    OBVIOUS
  <2>2. s \in {"DRAFT", "IN_PROGRESS", "CANCELLED"} /\ order' = WithStatus(order, o, s)
    BY <1>2, <2>1 DEF WithStatus
  <2>3. StatusSet(order, order', o) /\ order'[o].status = s
    BY <1>1, <2>2, StatusIsSet
  <2>. QED
    BY <2>1, <2>3
<1>5. Grows(rows, rows') /\ \A d \in Coils : Rests(rows, rows', d)
  BY <1>1, <1>2, RestsSame
<1>6. Orderly(rows', order', mount')
  <2>1. \A p \in Orders : order'[p].rowsThen \in 0..Len(rows)
    BY <1>1, <1>4 DEF StatusSet
  <2>. QED
    BY <1>1, <1>3, <1>4, <1>5, <2>1, OrderlyStays DEF StatusSet
<1>7. ASSUME NEW d \in Coils, Has(mount, o, d)
      PROVE  Stock(rows, d) # 0 /\ CoilOK(rows', order', mount', closedBy[d], d)
  <2>1. OthersSame(order, order', mount, mount', o, d)
    BY <1>3, <1>4 DEF OthersSame, StatusSet
  <2>2. mount'[o][d] = NotMounted
    BY <1>3
  <2>3. mount[o][d].consumed = 0
    BY <1>2, NothingUsed
  <2>. QED
    BY <1>1, <1>5, <1>6, <1>7, <2>1, <2>2, <2>3, CoilTakenDown
<1>8. closedBy' = closedBy
  <2>. DEFINE S == {c \in Coils : Has(mount, o, c)}
  <2>1. \A d \in S : Stock(rows, d) # 0
    BY <1>7
  <2>2. closedBy' = [d \in Coils |-> Terminated(rows, mount', S, Cause(o, 0))[d]]
    BY <1>2 DEF Terminated
  <2>. HIDE DEF S
  <2>3. \A d \in Coils : Terminated(rows, mount', S, Cause(o, 0))[d] = closedBy[d]
    BY <2>1, TerminatedIs
  <2>. QED
    BY <1>1, <2>2, <2>3
<1>9. ASSUME NEW d \in Coils PROVE CoilOK(rows', order', mount', closedBy'[d], d)
  <2>1. CASE Has(mount, o, d)
    BY <1>7, <1>8, <2>1
  <2>2. CASE ~Has(mount, o, d)
    <3>1. ~Involved(mount, o, d) /\ mount[o][d] = NotMounted
      <4>1. ~GaveBack(mount, o, d)
        BY <1>1, <1>2 DEF CoilOK, Custody, Going
      <4>2. ~Involved(mount, o, d)
        BY <1>1, <2>2, <4>1, CellsAre
      <4>. QED
        BY <1>1, <4>2 DEF CoilOK, Custody
    <3>2. SameOrders(order, order', mount, mount', d)
      <4>1. \A p \in Orders : mount'[p][d] = mount[p][d]
        BY <1>3, <3>1
      <4>. QED
        BY <1>2, <1>4, <3>1, <4>1, OtherCoils
    <3>3. CoilOK(rows', order', mount', closedBy[d], d)
      BY <1>1, <1>5, <1>6, <3>2, CoilRests
    <3>. QED
      BY <1>8, <3>3
  <2>. QED
    BY <2>1, <2>2
<1>10. Closings(rows', order', Product)
  <2>1. \A p \in Orders : order[p].status = "CLOSED" => order'[p] = order[p]
    BY <1>2, <1>4 DEF StatusSet, Going
  <2>. QED
    BY <1>1, <1>2, <2>1, ClosingsSame
<1>11. raw' \in [Orders -> PromiseType]
  BY <1>1, <1>2 DEF PromiseType
<1>12. TypeInv'
  BY <1>1, <1>2, <1>6, <1>8, <1>11 DEF IInv, TypeInv
<1>. QED
  BY <1>2, <1>9, <1>10, <1>12 DEF IInv

-----------------------------------------------------------------------------
(* Reports.                                                                 *)

LEMMA PairIs ==
  ASSUME NEW a, NEW b, NEW s, s = <<a, b>>
  PROVE  IsSeq(s) /\ DOMAIN s = {1, 2} /\ s[1] = a /\ s[2] = b
<1>1. s \in Seq({a, b}) /\ DOMAIN s = 1..2 /\ s[1] = a /\ s[2] = b
  OBVIOUS
<1>2. IsSeq(s)
  BY <1>1, TypedIsSeq
<1>. QED
  BY <1>1, <1>2

LEMMA RowIs ==
  ASSUME NEW x \in Coils \cup {Product}, NEW type \in {"IN", "OUT", "ADJUST"}, NEW q \in Nat \ {0},
         NEW ref \in {"REPORT", "CLOSE", "SALE", "SCRAP"}, NEW p \in Orders \cup {Nobody}, NEW r,
         r = Row(x, type, q, ref, p, 0)
  PROVE  /\ r \in RowType /\ r.item = x /\ r.type = type /\ r.qty = q /\ r.ref = ref
         /\ r.owner = p /\ r.reverses = 0
BY DEF Row, RowType

LEMMA UndoIs ==
  ASSUME RowsTyped(rows), NEW i \in DOMAIN rows, NEW type \in {"IN", "OUT", "ADJUST"}, NEW r,
         r = Undo(i, type)
  PROVE  /\ r \in RowType /\ Mirrors(rows[i], r) /\ r.type = type /\ r.reverses = i
         /\ r.item = rows[i].item /\ r.owner = rows[i].owner /\ r.ref = rows[i].ref
<1>1. rows[i] \in RowType /\ i \in Nat
  BY RowsAre
<1>2. r = [rows[i] EXCEPT !.type = type, !.reverses = i]
  BY DEF Undo
<1>. QED
  BY <1>1, <1>2 DEF RowType, Mirrors

\* One promise changes, and the others stay.
LEMMA PromiseIsSet ==
  ASSUME NEW ps \in [Orders -> PromiseType], NEW o \in Orders, NEW v \in PromiseType, NEW ps2,
         ps2 = [ps EXCEPT ![o] = v]
  PROVE  /\ ps2 \in [Orders -> PromiseType] /\ ps2[o] = v
         /\ \A p \in Orders : p # o => ps2[p] = ps[p]
OBVIOUS

\* A cell uses more or less kilos.
WithUsed(m, o, c, n) == [m EXCEPT ![o][c].consumed = n]

LEMMA CellUses ==
  ASSUME NEW m \in [Orders -> [Coils -> CellType]], NEW o \in Orders, NEW c \in Coils,
         NEW n \in Nat, NEW m2, m2 = WithUsed(m, o, c, n)
  PROVE  /\ m2 \in [Orders -> [Coils -> CellType]]
         /\ m2[o][c].consumed = n /\ m2[o][c].assigned = m[o][c].assigned
         /\ m2[o][c].state = m[o][c].state
         /\ \A p \in Orders, d \in Coils : (p # o \/ d # c) => m2[p][d] = m[p][d]
<1>1. m[o][c] \in CellType
  OBVIOUS
<1>2. m2[o][c] = [m[o][c] EXCEPT !.consumed = n]
  BY DEF WithUsed
<1>3. m2[o][c] \in CellType /\ m2[o][c].consumed = n /\ m2[o][c].assigned = m[o][c].assigned
      /\ m2[o][c].state = m[o][c].state
  BY <1>1, <1>2 DEF CellType
<1>4. \A p \in Orders, d \in Coils : (p # o \/ d # c) => m2[p][d] = m[p][d]
  BY DEF WithUsed
<1>5. m2 \in [Orders -> [Coils -> CellType]]
  <2>1. DOMAIN m2 = Orders /\ m2 = [p \in Orders |-> m2[p]]
    BY DEF WithUsed
  <2>2. ASSUME NEW p \in Orders PROVE m2[p] \in [Coils -> CellType]
    <3>1. m2[p] = [d \in Coils |-> m2[p][d]]
      BY DEF WithUsed
    <3>2. \A d \in Coils : m2[p][d] \in CellType
      BY <1>3, <1>4
    <3>. QED
      BY <3>1, <3>2
  <2>. QED
    BY <2>1, <2>2
<1>. QED
  BY <1>3, <1>4, <1>5

-----------------------------------------------------------------------------
(* One row more.                                                            *)

LEMMA AppendGo ==
  ASSUME NEW rs, RowsTyped(rs), NEW r \in RowType,
         r.reverses = 0 \/ (r.reverses \in DOMAIN rs /\ Mirrors(rs[r.reverses], r)),
         NEW rt, rt = Append(rs, r), NEW ext, ext = <<r>>
  PROVE  /\ RowsGo(rs, rt, ext) /\ Grows(rs, rt)
         /\ DOMAIN ext = {1} /\ ext[1] = r /\ Len(rt) = Len(rs) + 1
<1>1. IsSeq(rs)
  BY TypedIsSeq DEF RowsTyped
<1>2. rt = rs \o ext /\ IsSeq(ext) /\ Len(ext) = 1 /\ DOMAIN ext = 1..1 /\ ext[1] = r
  BY <1>1, Appended
<1>3. Joins(rt, rs, ext)
  BY <1>1, <1>2, Joined
<1>4. DOMAIN ext = {1}
  BY <1>2
<1>5. RowsGo(rs, rt, ext)
  BY <1>2, <1>3, <1>4 DEF RowsGo
<1>6. Len(rt) = Len(rs) + 1
  BY <1>2, <1>3 DEF Joins
<1>. QED
  BY <1>2, <1>4, <1>5, <1>6, Gone

\* Rows that are not of a line leave it.
LEMMA LineAlone ==
  ASSUME NEW rs, NEW rt, NEW ext, RowsGo(rs, rt, ext), FineRows(rs), NEW o, NEW p, LineOK(rs, p, o),
         \A k \in DOMAIN ext : ext[k].owner = o => ext[k].ref \notin {"REPORT", "SALE"}
  PROVE  LineOK(rt, p, o)
<1>1. OutsOf(rt, o, "REPORT") = OutsOf(rs, o, "REPORT")
  <2>1. PICK ref : ref = "REPORT"
    OBVIOUS
  <2>2. \A k \in DOMAIN ext : ~(ext[k].ref = ref /\ ext[k].owner = o)
    BY <2>1
  <2>. QED
    BY <2>1, <2>2, OutsRest
<1>2. OutsOf(rt, o, "SALE") = OutsOf(rs, o, "SALE")
  <2>1. PICK ref : ref = "SALE"
    OBVIOUS
  <2>2. \A k \in DOMAIN ext : ~(ext[k].ref = ref /\ ext[k].owner = o)
    BY <2>1
  <2>. QED
    BY <2>1, <2>2, OutsRest
<1>3. ReportsOf(rt, o) = ReportsOf(rs, o) /\ SalesOf(rt, o) = SalesOf(rs, o)
  BY <1>1, <1>2 DEF ReportsOf, SalesOf
<1>4. Grows(rs, rt)
  BY Gone
<1>. QED
  BY <1>3, <1>4, LineRests

\* A coil that no row is of rests.
LEMMA CoilAlone ==
  ASSUME ProductionAssumption, NEW rs, NEW rt, NEW ext, RowsGo(rs, rt, ext),
         NEW ord, NEW m, NEW b, NEW c \in Coils, Orderly(rs, ord, m), Orderly(rt, ord, m),
         \A k \in DOMAIN ext : ext[k].item # c, CoilOK(rs, ord, m, b, c)
  PROVE  CoilOK(rt, ord, m, b, c)
<1>1. Rests(rs, rt, c)
  BY RestsWhen
<1>2. SameOrders(ord, ord, m, m, c)
  BY DEF SameOrders
<1>. QED
  BY <1>1, <1>2, CoilRests

-----------------------------------------------------------------------------
(* Scrap.                                                                   *)

LEMMA ScrapStep ==
  ASSUME ProductionAssumption, IInv, NEW c \in Coils, Scrap(c)
  PROVE  IInv'
<1>1. /\ RowsTyped(rows) /\ Len(rows) \in Nat /\ Orderly(rows, order, mount) /\ FineRows(rows)
      /\ order \in [Orders -> OrderType] /\ mount \in [Orders -> [Coils -> CellType]]
      /\ closedBy \in [Coils -> CauseType]
      /\ raw \in [Orders -> PromiseType] /\ made \in [Orders -> PromiseType]
      /\ \A d \in Coils : CoilOK(rows, order, mount, closedBy[d], d)
      /\ \A p \in Orders : order[p].rowsThen \in 0..Len(rows)
      /\ \A p \in Orders : LineOK(rows, made[p], p)
      /\ Closings(rows, order, Product)
  BY InvIs
<1>2. PICK q \in 1..Stock(rows, c) :
        /\ Free(mount, c)
        /\ rows' = Append(rows, Row(c, "OUT", q, "SCRAP", Nobody, 0))
        /\ closedBy' = Terminated(rows', mount, {c}, Cause(Nobody, Len(rows')))
        /\ order' = order /\ mount' = mount /\ raw' = raw /\ made' = made
  BY DEF Scrap
<1>3. q \in Nat \ {0} /\ q <= Stock(rows, c)
  BY <1>1, StockInt
<1>4. PICK r : r = Row(c, "OUT", q, "SCRAP", Nobody, 0)
  OBVIOUS
<1>5. /\ r \in RowType /\ r.item = c /\ r.type = "OUT" /\ r.qty = q /\ r.ref = "SCRAP"
      /\ r.owner = Nobody /\ r.reverses = 0
  BY <1>3, <1>4 DEF Row, RowType
<1>6. PICK ext : ext = <<r>>
  OBVIOUS
<1>7. rows' = Append(rows, r)
  BY <1>2, <1>4
<1>8. /\ RowsGo(rows, rows', ext) /\ Grows(rows, rows')
      /\ DOMAIN ext = {1} /\ ext[1] = r /\ Len(rows') = Len(rows) + 1
  BY <1>1, <1>5, <1>6, <1>7, AppendGo
<1>9. Orderly(rows', order, mount)
  BY <1>1, <1>8, OrderlyStays
<1>10. CoilOK(rows', order, mount, closedBy'[c], c)
  <2>1. PICK j \in DOMAIN rows' : Takes(rows, rows', c, j) /\ j = Len(rows) + 1 /\ rows'[j] = r
    BY <1>5, <1>8, TakesWhen
  <2>2. closedBy'[c] = IF closedBy[c] = Open /\ Stock(rows', c) = 0 THEN Cause(Nobody, j)
                       ELSE closedBy[c]
    BY <1>2, <1>8, <2>1, TerminatedIs
  <2>3. /\ rows'[j].owner = Nobody /\ rows'[j].ref = "SCRAP" /\ rows'[j].qty <= Stock(rows, c)
        /\ Free(mount, c) /\ CoilOK(rows, order, mount, closedBy[c], c)
        /\ Orderly(rows, order, mount) /\ Takes(rows, rows', c, j)
    BY <1>1, <1>2, <1>3, <1>5, <2>1
  <2>. QED
    BY <1>9, <2>2, <2>3, CoilScrapped
<1>11. ASSUME NEW d \in Coils PROVE CoilOK(rows', order', mount', closedBy'[d], d)
  <2>1. CASE d = c
    BY <1>2, <1>10, <2>1
  <2>2. CASE d # c
    <3>1. \A k \in DOMAIN ext : ext[k].item # d
      BY <1>5, <1>8, <2>2
    <3>2. CoilOK(rows', order, mount, closedBy[d], d)
      BY <1>1, <1>8, <1>9, <3>1, CoilAlone
    <3>3. closedBy'[d] = closedBy[d]
      BY <1>2, <2>2, TerminatedIs
    <3>. QED
      BY <1>2, <3>2, <3>3
  <2>. QED
    BY <2>1, <2>2
<1>12. Closings(rows', order', Product)
  <2>1. \A k \in DOMAIN ext : ext[k].ref # "CLOSE"
    BY <1>5, <1>8
  <2>2. \A p \in Orders : order[p].status = "CLOSED" => order'[p] = order[p]
    BY <1>2
  <2>. QED
    BY <1>1, <1>8, <2>1, <2>2, ClosingsStay
<1>13. ASSUME NEW p \in Orders PROVE LineOK(rows', made'[p], p)
  <2>1. \A k \in DOMAIN ext : ext[k].owner = p => ext[k].ref \notin {"REPORT", "SALE"}
    BY <1>5, <1>8
  <2>2. LineOK(rows', made[p], p)
    BY <1>1, <1>8, <2>1, LineAlone
  <2>. QED
    BY <1>2, <2>2
<1>14. FineRows(rows')
  <2>1. \A k \in DOMAIN ext : ext[k].reverses = 0 => RowFine(ext, k)
    BY <1>5, <1>8 DEF RowFine, ProductionAssumption
  <2>. QED
    BY <1>1, <1>8, <2>1, FineStays
<1>15. closedBy' \in [Coils -> CauseType]
  <2>1. Cause(Nobody, Len(rows')) \in CauseType
    BY <1>1, <1>8 DEF Cause, CauseType
  <2>. QED
    BY <1>1, <1>2, <2>1 DEF Terminated
<1>16. TypeInv'
  BY <1>1, <1>2, <1>9, <1>15 DEF TypeInv
<1>. QED
  BY <1>11, <1>12, <1>13, <1>14, <1>16 DEF IInv

LEMMA CancelScrapStep ==
  ASSUME ProductionAssumption, IInv, NEW c \in Coils, CancelScrap(c)
  PROVE  IInv'
<1>1. /\ RowsTyped(rows) /\ Len(rows) \in Nat /\ Orderly(rows, order, mount) /\ FineRows(rows)
      /\ order \in [Orders -> OrderType] /\ mount \in [Orders -> [Coils -> CellType]]
      /\ closedBy \in [Coils -> CauseType]
      /\ raw \in [Orders -> PromiseType] /\ made \in [Orders -> PromiseType]
      /\ \A d \in Coils : CoilOK(rows, order, mount, closedBy[d], d)
      /\ \A p \in Orders : order[p].rowsThen \in 0..Len(rows)
      /\ \A p \in Orders : LineOK(rows, made[p], p)
      /\ Closings(rows, order, Product)
  BY InvIs
<1>2. PICK i \in DOMAIN rows :
        /\ rows[i].item = c /\ rows[i].ref = "SCRAP" /\ LiveRow(i)
        /\ Free(mount, c)
        /\ rows' = Append(rows, Undo(i, "IN"))
        /\ closedBy' = Reopened({c}, Cause(Nobody, i))
        /\ order' = order /\ mount' = mount /\ raw' = raw /\ made' = made
  BY DEF CancelScrap
<1>3. i \in LiveOf(rows, c) /\ i \in Standing(rows)
  BY <1>2 DEF LiveRow, LiveOf, Standing, Stands
<1>4. rows[i].owner = Nobody
  BY <1>1, <1>2, <1>3 DEF FineRows, RowFine
<1>5. PICK r : r = Undo(i, "IN")
  OBVIOUS
<1>6. /\ r \in RowType /\ Mirrors(rows[i], r) /\ r.type = "IN" /\ r.reverses = i
      /\ r.item = c /\ r.owner = Nobody /\ r.ref = "SCRAP" /\ r.reverses # 0
  <2>1. PICK t : t = "IN"
    OBVIOUS
  <2>2. /\ r \in RowType /\ Mirrors(rows[i], r) /\ r.type = t /\ r.reverses = i
        /\ r.item = rows[i].item /\ r.owner = rows[i].owner /\ r.ref = rows[i].ref
    BY <1>1, <1>5, <2>1, UndoIs
  <2>3. i # 0
    BY <1>1, RowsAre
  <2>. QED
    BY <1>2, <1>4, <2>1, <2>2, <2>3
<1>7. PICK ext : ext = <<r>>
  OBVIOUS
<1>8. rows' = Append(rows, r)
  BY <1>2, <1>5
<1>9. /\ RowsGo(rows, rows', ext) /\ Grows(rows, rows')
      /\ DOMAIN ext = {1} /\ ext[1] = r /\ Len(rows') = Len(rows) + 1
  BY <1>1, <1>6, <1>7, <1>8, AppendGo
<1>10. Orderly(rows', order, mount)
  BY <1>1, <1>9, OrderlyStays
<1>11. CoilOK(rows', order, mount, closedBy'[c], c)
  <2>1. PICK j \in DOMAIN rows' : Gives(rows, rows', c, i, j)
    BY <1>3, <1>6, <1>9, GivesWhen
  <2>2. closedBy'[c] = IF closedBy[c] = Cause(Nobody, i) THEN Open ELSE closedBy[c]
    BY <1>2 DEF Reopened
  <2>3. /\ rows[i].owner = Nobody /\ rows[i].ref = "SCRAP"
        /\ Free(mount, c) /\ CoilOK(rows, order, mount, closedBy[c], c)
        /\ Orderly(rows, order, mount)
    BY <1>1, <1>2, <1>4
  <2>. QED
    BY <1>10, <2>1, <2>2, <2>3, CoilUnscrapped
<1>12. ASSUME NEW d \in Coils PROVE CoilOK(rows', order', mount', closedBy'[d], d)
  <2>1. CASE d = c
    BY <1>2, <1>11, <2>1
  <2>2. CASE d # c
    <3>1. \A k \in DOMAIN ext : ext[k].item # d
      BY <1>6, <1>9, <2>2
    <3>2. CoilOK(rows', order, mount, closedBy[d], d)
      BY <1>1, <1>9, <1>10, <3>1, CoilAlone
    <3>3. closedBy'[d] = closedBy[d]
      BY <1>2, <2>2 DEF Reopened
    <3>. QED
      BY <1>2, <3>2, <3>3
  <2>. QED
    BY <2>1, <2>2
<1>13. Closings(rows', order', Product)
  <2>1. \A k \in DOMAIN ext : ext[k].ref # "CLOSE"
    BY <1>6, <1>9
  <2>2. \A p \in Orders : order[p].status = "CLOSED" => order'[p] = order[p]
    BY <1>2
  <2>. QED
    BY <1>1, <1>9, <2>1, <2>2, ClosingsStay
<1>14. ASSUME NEW p \in Orders PROVE LineOK(rows', made'[p], p)
  <2>1. \A k \in DOMAIN ext : ext[k].owner = p => ext[k].ref \notin {"REPORT", "SALE"}
    BY <1>6, <1>9
  <2>2. LineOK(rows', made[p], p)
    BY <1>1, <1>9, <2>1, LineAlone
  <2>. QED
    BY <1>2, <2>2
<1>15. FineRows(rows')
  <2>1. \A k \in DOMAIN ext : ext[k].reverses = 0 => RowFine(ext, k)
    BY <1>6, <1>9
  <2>. QED
    BY <1>1, <1>9, <2>1, FineStays
<1>16. closedBy' \in [Coils -> CauseType]
  BY <1>1, <1>2 DEF Reopened, Open, Cause, CauseType
<1>17. TypeInv'
  BY <1>1, <1>2, <1>10, <1>16 DEF TypeInv
<1>. QED
  BY <1>12, <1>13, <1>14, <1>15, <1>17 DEF IInv

-----------------------------------------------------------------------------
(* Dispatches.                                                              *)

\* A row of the product alone leaves the coils, and what is not of its line.
LEMMA DispatchStep ==
  ASSUME ProductionAssumption, IInv, NEW o \in Orders, Dispatch(o)
  PROVE  IInv'
<1>1. /\ RowsTyped(rows) /\ Len(rows) \in Nat /\ Orderly(rows, order, mount) /\ FineRows(rows)
      /\ order \in [Orders -> OrderType] /\ mount \in [Orders -> [Coils -> CellType]]
      /\ closedBy \in [Coils -> CauseType]
      /\ raw \in [Orders -> PromiseType] /\ made \in [Orders -> PromiseType]
      /\ \A d \in Coils : CoilOK(rows, order, mount, closedBy[d], d)
      /\ \A p \in Orders : order[p].rowsThen \in 0..Len(rows)
      /\ \A p \in Orders : LineOK(rows, made[p], p)
      /\ Closings(rows, order, Product)
      /\ Dispatched(o) \in Nat /\ Plain(made[o])
  BY InvIs
<1>2. PICK q \in 1..(Plan - Dispatched(o)) :
        /\ made[o].status = "ACTIVE" /\ q <= made[o].qty
        /\ made' = [made EXCEPT ![o] = Consumed(@, q)]
        /\ rows' = Append(rows, Row(Product, "OUT", q, "SALE", o, 0))
        /\ order' = order /\ mount' = mount /\ closedBy' = closedBy /\ raw' = raw
  BY DEF Dispatch
<1>3. q \in Nat \ {0}
  BY <1>1 DEF ProductionAssumption
<1>4. PICK r : r = Row(Product, "OUT", q, "SALE", o, 0)
  OBVIOUS
<1>5. /\ r \in RowType /\ r.item = Product /\ r.type = "OUT" /\ r.qty = q /\ r.ref = "SALE"
      /\ r.owner = o /\ r.reverses = 0
  BY <1>3, <1>4 DEF Row, RowType
<1>6. PICK ext : ext = <<r>>
  OBVIOUS
<1>7. rows' = Append(rows, r)
  BY <1>2, <1>4
<1>8. /\ RowsGo(rows, rows', ext) /\ Grows(rows, rows')
      /\ DOMAIN ext = {1} /\ ext[1] = r /\ Len(rows') = Len(rows) + 1
  BY <1>1, <1>5, <1>6, <1>7, AppendGo
<1>9. Orderly(rows', order, mount)
  BY <1>1, <1>8, OrderlyStays
<1>10. ASSUME NEW d \in Coils PROVE CoilOK(rows', order', mount', closedBy'[d], d)
  <2>1. \A k \in DOMAIN ext : ext[k].item # d
    BY <1>5, <1>8 DEF ProductionAssumption
  <2>2. CoilOK(rows', order, mount, closedBy[d], d)
    BY <1>1, <1>8, <1>9, <2>1, CoilAlone
  <2>. QED
    BY <1>2, <2>2
<1>11. Closings(rows', order', Product)
  <2>1. \A k \in DOMAIN ext : ext[k].ref # "CLOSE"
    BY <1>5, <1>8
  <2>2. \A p \in Orders : order[p].status = "CLOSED" => order'[p] = order[p]
    BY <1>2
  <2>. QED
    BY <1>1, <1>8, <2>1, <2>2, ClosingsStay
<1>12. PICK v : v = Consumed(made[o], q)
  OBVIOUS
<1>13. v \in PromiseType /\ (v.status # "ACTIVE" => v.qty = 0) /\ v.qty = made[o].qty - q
  BY <1>1, <1>2, <1>3, <1>12, ConsumedIs DEF Plain
<1>14. made' \in [Orders -> PromiseType] /\ made'[o] = v /\ \A p \in Orders : p # o => made'[p] = made[p]
  <2>1. made' = [made EXCEPT ![o] = v]
    BY <1>2, <1>12
  <2>. QED
    BY <1>1, <1>13, <2>1, PromiseIsSet
<1>15. LineOK(rows', v, o)
  <2>1. PICK k : k = Len(rows) + 1
    OBVIOUS
  <2>2. k \in DOMAIN rows' /\ rows'[k] = r
    BY <1>8, <2>1, Gone
  <2>3. ReportsOf(rows', o) = ReportsOf(rows, o)
    <3>1. PICK ref : ref = "REPORT"
      OBVIOUS
    <3>2. \A l \in DOMAIN ext : ~(ext[l].ref = ref /\ ext[l].owner = o)
      BY <1>5, <1>8, <3>1
    <3>. QED
      BY <1>8, <3>1, <3>2, OutsRest DEF ReportsOf
  <2>4. SalesOf(rows', o) = SalesOf(rows, o) \cup {k}
    <3>1. PICK ref : ref = "SALE"
      OBVIOUS
    <3>2. PICK l : l = 1
      OBVIOUS
    <3>3. /\ l \in DOMAIN ext /\ ext[l].ref = ref /\ ext[l].owner = o /\ ext[l].type = "OUT"
          /\ \A n \in DOMAIN ext : ext[n].reverses = 0 /\ (ext[n].type = "OUT" => n = l)
      BY <1>5, <1>8, <3>1, <3>2
    <3>4. OutsOf(rows', o, ref) = OutsOf(rows, o, ref) \cup {Len(rows) + l}
      BY <1>8, <3>3, OutsGrow
    <3>. QED
      BY <2>1, <3>1, <3>2, <3>4 DEF SalesOf
  <2>5. v.qty = made[o].qty - rows'[k].qty /\ LineOK(rows, made[o], o)
    BY <1>1, <1>5, <1>13, <2>2
  <2>. QED
    BY <1>1, <1>8, <1>13, <2>1, <2>2, <2>3, <2>4, <2>5, LineSells
<1>16. ASSUME NEW p \in Orders PROVE LineOK(rows', made'[p], p)
  <2>1. CASE p = o
    BY <1>14, <1>15, <2>1
  <2>2. CASE p # o
    <3>1. \A k \in DOMAIN ext : ext[k].owner = p => ext[k].ref \notin {"REPORT", "SALE"}
      BY <1>5, <1>8, <2>2
    <3>2. LineOK(rows', made[p], p)
      BY <1>1, <1>8, <3>1, LineAlone
    <3>. QED
      BY <1>14, <2>2, <3>2
  <2>. QED
    BY <2>1, <2>2
<1>17. FineRows(rows')
  <2>1. \A k \in DOMAIN ext : ext[k].reverses = 0 => RowFine(ext, k)
    BY <1>5, <1>8 DEF RowFine, ProductionAssumption
  <2>. QED
    BY <1>1, <1>8, <2>1, FineStays
<1>18. TypeInv'
  BY <1>1, <1>2, <1>9, <1>14 DEF TypeInv
<1>. QED
  BY <1>10, <1>11, <1>16, <1>17, <1>18 DEF IInv

LEMMA ReverseDispatchStep ==
  ASSUME ProductionAssumption, IInv, NEW o \in Orders, ReverseDispatch(o)
  PROVE  IInv'
<1>1. /\ RowsTyped(rows) /\ Len(rows) \in Nat /\ Orderly(rows, order, mount) /\ FineRows(rows)
      /\ order \in [Orders -> OrderType] /\ mount \in [Orders -> [Coils -> CellType]]
      /\ closedBy \in [Coils -> CauseType]
      /\ raw \in [Orders -> PromiseType] /\ made \in [Orders -> PromiseType]
      /\ \A d \in Coils : CoilOK(rows, order, mount, closedBy[d], d)
      /\ \A p \in Orders : order[p].rowsThen \in 0..Len(rows)
      /\ \A p \in Orders : LineOK(rows, made[p], p)
      /\ Closings(rows, order, Product)
      /\ Dispatches(o) = SalesOf(rows, o) /\ Plain(made[o])
  BY InvIs
<1>2. PICK i \in SalesOf(rows, o) :
        /\ made' = [made EXCEPT ![o] = Restored(@, rows[i].qty)]
        /\ rows' = Append(rows, Undo(i, "IN"))
        /\ order' = order /\ mount' = mount /\ closedBy' = closedBy /\ raw' = raw
  BY <1>1 DEF ReverseDispatch
<1>3. /\ i \in DOMAIN rows /\ i # 0 /\ rows[i].ref = "SALE" /\ rows[i].owner = o /\ rows[i].item = Product
      /\ rows[i].qty \in Nat
  <2>1. i \in Standing(rows) /\ rows[i].ref = "SALE" /\ rows[i].owner = o
    BY DEF SalesOf, OutsOf
  <2>2. rows[i].item = Product
    BY <1>1, <2>1 DEF FineRows, RowFine
  <2>3. i \in DOMAIN rows
    BY <2>1 DEF Standing
  <2>. QED
    BY <1>1, <2>1, <2>2, <2>3, RowsAre
<1>5. PICK r : r = Undo(i, "IN")
  OBVIOUS
<1>6. /\ r \in RowType /\ Mirrors(rows[i], r) /\ r.type = "IN" /\ r.reverses = i
      /\ r.item = Product /\ r.owner = o /\ r.ref = "SALE" /\ r.reverses # 0
  <2>1. PICK t : t = "IN"
    OBVIOUS
  <2>2. /\ r \in RowType /\ Mirrors(rows[i], r) /\ r.type = t /\ r.reverses = i
        /\ r.item = rows[i].item /\ r.owner = rows[i].owner /\ r.ref = rows[i].ref
    BY <1>1, <1>3, <1>5, <2>1, UndoIs
  <2>. QED
    BY <1>3, <2>1, <2>2
<1>7. PICK ext : ext = <<r>>
  OBVIOUS
<1>8. rows' = Append(rows, r)
  BY <1>2, <1>5
<1>9. /\ RowsGo(rows, rows', ext) /\ Grows(rows, rows')
      /\ DOMAIN ext = {1} /\ ext[1] = r /\ Len(rows') = Len(rows) + 1
  <2>1. r.reverses \in DOMAIN rows /\ Mirrors(rows[r.reverses], r) /\ r \in RowType
    BY <1>3, <1>6
  <2>. QED
    BY <1>1, <1>7, <1>8, <2>1, AppendGo
<1>10. Orderly(rows', order, mount)
  BY <1>1, <1>9, OrderlyStays
<1>11. ASSUME NEW d \in Coils PROVE CoilOK(rows', order', mount', closedBy'[d], d)
  <2>1. \A k \in DOMAIN ext : ext[k].item # d
    BY <1>6, <1>9 DEF ProductionAssumption
  <2>2. CoilOK(rows', order, mount, closedBy[d], d)
    BY <1>1, <1>9, <1>10, <2>1, CoilAlone
  <2>. QED
    BY <1>2, <2>2
<1>12. Closings(rows', order', Product)
  <2>1. \A k \in DOMAIN ext : ext[k].ref # "CLOSE"
    BY <1>6, <1>9
  <2>2. \A p \in Orders : order[p].status = "CLOSED" => order'[p] = order[p]
    BY <1>2
  <2>. QED
    BY <1>1, <1>9, <2>1, <2>2, ClosingsStay
<1>13. PICK v : v = Restored(made[o], rows[i].qty)
  OBVIOUS
<1>14. /\ v \in PromiseType /\ (v.status # "ACTIVE" => v.qty = 0)
       /\ v.qty <= made[o].qty + rows[i].qty
  BY <1>1, <1>3, <1>13, RestoredIs DEF Plain
<1>15. made' \in [Orders -> PromiseType] /\ made'[o] = v /\ \A p \in Orders : p # o => made'[p] = made[p]
  <2>1. made' = [made EXCEPT ![o] = v]
    BY <1>2, <1>13
  <2>. QED
    BY <1>1, <1>14, <2>1, PromiseIsSet
<1>16. LineOK(rows', v, o)
  <2>1. ReportsOf(rows', o) = ReportsOf(rows, o)
    <3>1. PICK ref : ref = "REPORT"
      OBVIOUS
    <3>2. \A l \in DOMAIN ext : ~(ext[l].ref = ref /\ ext[l].owner = o)
      BY <1>6, <1>9, <3>1
    <3>. QED
      BY <1>9, <3>1, <3>2, OutsRest DEF ReportsOf
  <2>2. SalesOf(rows', o) = SalesOf(rows, o) \ {i}
    <3>1. PICK ref : ref = "SALE"
      OBVIOUS
    <3>2. PICK l : l = 1
      OBVIOUS
    <3>3. /\ l \in DOMAIN ext /\ ext[l].reverses = i /\ i \in OutsOf(rows, o, ref)
          /\ \A n \in DOMAIN ext : /\ ext[n].reverses # 0
                                   /\ ext[n].reverses \in OutsOf(rows, o, ref) => n = l
      BY <1>6, <1>9, <3>1, <3>2 DEF SalesOf
    <3>4. OutsOf(rows', o, ref) = OutsOf(rows, o, ref) \ {i}
      BY <1>9, <3>3, OutsShrink
    <3>. QED
      BY <3>1, <3>4 DEF SalesOf
  <2>3. LineOK(rows, made[o], o)
    BY <1>1
  <2>. QED
    BY <1>1, <1>9, <1>14, <2>1, <2>2, <2>3, LineUnsells
<1>17. ASSUME NEW p \in Orders PROVE LineOK(rows', made'[p], p)
  <2>1. CASE p = o
    BY <1>15, <1>16, <2>1
  <2>2. CASE p # o
    <3>1. \A k \in DOMAIN ext : ext[k].owner = p => ext[k].ref \notin {"REPORT", "SALE"}
      BY <1>6, <1>9, <2>2
    <3>2. LineOK(rows', made[p], p)
      BY <1>1, <1>9, <3>1, LineAlone
    <3>. QED
      BY <1>15, <2>2, <3>2
  <2>. QED
    BY <2>1, <2>2
<1>18. FineRows(rows')
  <2>1. \A k \in DOMAIN ext : ext[k].reverses = 0 => RowFine(ext, k)
    BY <1>6, <1>9
  <2>. QED
    BY <1>1, <1>9, <2>1, FineStays
<1>19. TypeInv'
  BY <1>1, <1>2, <1>10, <1>15 DEF TypeInv
<1>. QED
  BY <1>11, <1>12, <1>17, <1>18, <1>19 DEF IInv

\* A new row, or the reversal of one.
Follows(rs, r) ==
  /\ r \in RowType
  /\ r.reverses = 0 \/ (r.reverses \in DOMAIN rs /\ Mirrors(rs[r.reverses], r))

LEMMA RowsJoin ==
  ASSUME NEW rs, RowsTyped(rs), NEW ext, IsSeq(ext), NEW rt, rt = rs \o ext,
         \A k \in DOMAIN ext : Follows(rs, ext[k])
  PROVE  RowsGo(rs, rt, ext) /\ Grows(rs, rt)
<1>1. IsSeq(rs)
  BY TypedIsSeq DEF RowsTyped
<1>2. Joins(rt, rs, ext)
  BY <1>1, Joined
<1>3. RowsGo(rs, rt, ext)
  BY <1>2 DEF RowsGo, Follows
<1>. QED
  BY <1>3, Gone

\* A promise of an order that goes on is kept by the others.
LEMMA LinesOf ==
  ASSUME NEW rs, NEW rt, NEW ext, RowsGo(rs, rt, ext), FineRows(rs), NEW o \in Orders,
         NEW ps \in [Orders -> PromiseType], NEW ps2, \A p \in Orders : p # o => ps2[p] = ps[p],
         \A k \in DOMAIN ext : ext[k].owner = o, \A p \in Orders : LineOK(rs, ps[p], p),
         LineOK(rt, ps2[o], o)
  PROVE  \A p \in Orders : LineOK(rt, ps2[p], p)
<1>1. ASSUME NEW p \in Orders, p # o PROVE LineOK(rt, ps2[p], p)
  <2>1. \A k \in DOMAIN ext : ext[k].owner = p => ext[k].ref \notin {"REPORT", "SALE"}
    BY <1>1
  <2>2. LineOK(rt, ps[p], p)
    BY <2>1, LineAlone
  <2>. QED
    BY <1>1, <2>2
<1>. QED
  BY <1>1

LEMMA ReportStep ==
  ASSUME ProductionAssumption, IInv, NEW o \in Orders, NEW c \in Coils, Report(o, c)
  PROVE  IInv'
<1>1. /\ RowsTyped(rows) /\ Len(rows) \in Nat /\ Orderly(rows, order, mount) /\ FineRows(rows)
      /\ order \in [Orders -> OrderType] /\ mount \in [Orders -> [Coils -> CellType]]
      /\ closedBy \in [Coils -> CauseType]
      /\ raw \in [Orders -> PromiseType] /\ made \in [Orders -> PromiseType]
      /\ \A d \in Coils : CoilOK(rows, order, mount, closedBy[d], d)
      /\ \A p \in Orders : order[p].rowsThen \in 0..Len(rows)
      /\ \A p \in Orders : LineOK(rows, made[p], p)
      /\ Closings(rows, order, Product)
      /\ Produced(o) \in Nat /\ Plain(made[o])
  BY InvIs
<1>0. PICK metres \in 1..(Plan - Produced(o)) : \E kg :
        /\ kg = KilosFor(o, c, metres)
        /\ order[o].status = "IN_PROGRESS" /\ Has(mount, o, c) /\ Left(o, c) > 0
        /\ raw' = [raw EXCEPT ![o] = Consumed(@, kg)]
        /\ made' = [made EXCEPT ![o] = Raised(@, metres)]
        /\ mount' = [mount EXCEPT ![o][c].consumed = @ + kg]
        /\ rows' = rows \o <<Row(c, "OUT", kg, "REPORT", o, 0),
                             Row(Product, "IN", metres, "REPORT", o, 0)>>
        /\ order' = order /\ closedBy' = closedBy
  BY DEF Report
<1>2. PICK kg :
        /\ kg = KilosFor(o, c, metres)
        /\ order[o].status = "IN_PROGRESS" /\ Has(mount, o, c) /\ Left(o, c) > 0
        /\ raw' = [raw EXCEPT ![o] = Consumed(@, kg)]
        /\ made' = [made EXCEPT ![o] = Raised(@, metres)]
        /\ mount' = [mount EXCEPT ![o][c].consumed = @ + kg]
        /\ rows' = rows \o <<Row(c, "OUT", kg, "REPORT", o, 0),
                             Row(Product, "IN", metres, "REPORT", o, 0)>>
        /\ order' = order /\ closedBy' = closedBy
  BY <1>0
<1>3. metres \in Nat \ {0}
  BY <1>1 DEF ProductionAssumption
<1>4. /\ mount[o][c].assigned \in Nat /\ mount[o][c].consumed \in Nat
      /\ Left(o, c) = LeftOf(mount, o, c) /\ Left(o, c) \in Int
  BY <1>1 DEF CellType, Left, LeftOf
<1>5. kg \in Nat \ {0} /\ kg <= LeftOf(mount, o, c)
  <2>1. kg \in {metres, Left(o, c)} /\ kg <= Left(o, c)
    <3>1. PICK a \in Int, b \in Int : a = metres /\ b = Left(o, c)
      BY <1>3, <1>4
    <3>2. kg = Min({a, b})
      BY <1>2, <3>1 DEF KilosFor
    <3>3. kg \in {a, b} /\ kg <= b
      BY <3>2, MinOfTwo
    <3>. QED
      BY <3>1, <3>3
  <2>. QED
    BY <1>2, <1>3, <1>4, <2>1
<1>6. PICK r : r = Row(c, "OUT", kg, "REPORT", o, 0)
  OBVIOUS
<1>7. /\ r \in RowType /\ r.item = c /\ r.type = "OUT" /\ r.qty = kg /\ r.ref = "REPORT"
      /\ r.owner = o /\ r.reverses = 0
  BY <1>5, <1>6 DEF Row, RowType
<1>8. PICK s : s = Row(Product, "IN", metres, "REPORT", o, 0)
  OBVIOUS
<1>9. /\ s \in RowType /\ s.item = Product /\ s.type = "IN" /\ s.qty = metres /\ s.ref = "REPORT"
      /\ s.owner = o /\ s.reverses = 0
  BY <1>3, <1>8 DEF Row, RowType
<1>10. PICK ext : ext = <<r, s>>
  OBVIOUS
<1>11. /\ RowsGo(rows, rows', ext) /\ Grows(rows, rows')
       /\ DOMAIN ext = {1, 2} /\ ext[1] = r /\ ext[2] = s
  <2>1. rows' = rows \o ext
    BY <1>2, <1>6, <1>8, <1>10
  <2>2. Follows(rows, r) /\ Follows(rows, s) /\ RowsTyped(rows)
    BY <1>1, <1>7, <1>9 DEF Follows
  <2>3. IsSeq(ext) /\ DOMAIN ext = {1, 2} /\ ext[1] = r /\ ext[2] = s
    BY <1>10, PairIs
  <2>4. \A k \in DOMAIN ext : Follows(rows, ext[k])
    BY <2>2, <2>3
  <2>5. RowsGo(rows, rows', ext) /\ Grows(rows, rows')
    BY <2>1, <2>2, <2>3, <2>4, RowsJoin
  <2>. QED
    BY <2>3, <2>5
<1>28. RowsGo(rows, rows', ext)
  BY <1>11
<1>12. c # Product
  BY DEF ProductionAssumption
<1>13. PICK n \in Nat : n = mount[o][c].consumed + kg
  BY <1>4, <1>5
<1>14. /\ mount' \in [Orders -> [Coils -> CellType]]
       /\ mount'[o][c].consumed = n /\ mount'[o][c].assigned = mount[o][c].assigned
       /\ mount'[o][c].state = mount[o][c].state
       /\ \A p \in Orders, d \in Coils : (p # o \/ d # c) => mount'[p][d] = mount[p][d]
  <2>1. mount' = WithUsed(mount, o, c, n)
    BY <1>2, <1>13 DEF WithUsed
  <2>2. mount \in [Orders -> [Coils -> CellType]]
    BY <1>1
  <2>. QED
    BY <2>1, <2>2, CellUses
<1>15. Orderly(rows', order, mount')
  BY <1>1, <1>11, <1>14, OrderlyStays
<1>16. Going(order, o)
  BY <1>2 DEF Going
<1>17. CoilOK(rows', order, mount', closedBy[c], c)
  <2>1. PICK k : k = 1
    OBVIOUS
  <2>2. PICK j \in DOMAIN rows' : Takes(rows, rows', c, j) /\ rows'[j] = r
    <3>1. /\ k \in DOMAIN ext /\ ext[k].item = c /\ ext[k].type = "OUT" /\ ext[k].reverses = 0
          /\ ext[k] = r /\ \A l \in DOMAIN ext : ext[l].item = c => l = k
      BY <1>7, <1>9, <1>11, <1>12, <2>1
    <3>2. \E j \in DOMAIN rows' : Takes(rows, rows', c, j) /\ j = Len(rows) + k /\ rows'[j] = ext[k]
      BY <1>11, <3>1, TakesWhen
    <3>. QED
      BY <3>1, <3>2
  <2>3. OthersSame(order, order, mount, mount', o, c)
    BY <1>14 DEF OthersSame
  <2>4. Has(mount, o, c) /\ Has(mount', o, c)
    BY <1>2, <1>14 DEF Has
  <2>5. /\ rows'[j].owner = o /\ rows'[j].ref = "REPORT" /\ rows'[j].qty <= LeftOf(mount, o, c)
        /\ mount'[o][c].consumed = mount[o][c].consumed + rows'[j].qty
        /\ mount'[o][c].assigned = mount[o][c].assigned
        /\ CoilOK(rows, order, mount, closedBy[c], c) /\ Orderly(rows, order, mount)
    BY <1>1, <1>5, <1>7, <1>13, <1>14, <2>2
  <2>. QED
    BY <1>15, <1>16, <2>2, <2>3, <2>4, <2>5, CoilReported
<1>18. ASSUME NEW d \in Coils PROVE CoilOK(rows', order', mount', closedBy'[d], d)
  <2>1. CASE d = c
    BY <1>2, <1>17, <2>1
  <2>2. CASE d # c
    <3>1. d # Product
      BY DEF ProductionAssumption
    <3>2. \A k \in DOMAIN ext : ext[k].item # d
      BY <1>7, <1>9, <1>11, <2>2, <3>1
    <3>3. Rests(rows, rows', d)
      BY <1>11, <3>2, RestsWhen
    <3>4. SameOrders(order, order, mount, mount', d)
      BY <1>14, <2>2 DEF SameOrders
    <3>5. CoilOK(rows', order, mount', closedBy[d], d)
      BY <1>1, <1>15, <3>3, <3>4, CoilRests
    <3>. QED
      BY <1>2, <3>5
  <2>. QED
    BY <2>1, <2>2
<1>19. Closings(rows', order', Product)
  <2>1. \A k \in DOMAIN ext : ext[k].ref # "CLOSE"
    BY <1>7, <1>9, <1>11
  <2>2. \A p \in Orders : order[p].status = "CLOSED" => order'[p] = order[p]
    BY <1>2
  <2>3. Closings(rows, order, Product)
    BY <1>1
  <2>. QED
    BY <1>28, <2>1, <2>2, <2>3, ClosingsStay
<1>20. FineRows(rows')
  <2>1. RowFine(ext, 1)
    BY <1>7, <1>9, <1>11 DEF RowFine
  <2>2. RowFine(ext, 2)
    BY <1>9, <1>11 DEF RowFine, ProductionAssumption
  <2>3. \A k \in DOMAIN ext : ext[k].reverses = 0 => RowFine(ext, k)
    BY <1>11, <2>1, <2>2
  <2>. QED
    BY <1>1, <1>11, <2>3, FineStays
<1>21. PICK v : v = Raised(made[o], metres)
  OBVIOUS
<1>22. /\ v \in PromiseType /\ (v.status # "ACTIVE" => v.qty = 0)
       /\ v.qty <= made[o].qty + metres
  BY <1>1, <1>3, <1>21, RaisedIs DEF Plain
<1>23. made' \in [Orders -> PromiseType] /\ made'[o] = v /\ \A p \in Orders : p # o => made'[p] = made[p]
  <2>1. made' = [made EXCEPT ![o] = v]
    BY <1>2, <1>21
  <2>. QED
    BY <1>1, <1>22, <2>1, PromiseIsSet
<1>24. LineOK(rows', v, o)
  <2>1. PICK k : k = Len(rows) + 1
    OBVIOUS
  <2>2. rows'[k + 1] = s
    <3>1. PICK t : t = 2
      OBVIOUS
    <3>2. PICK j \in DOMAIN rows' \ DOMAIN rows : j = Len(rows) + t /\ rows'[j] = ext[t]
      BY <1>11, <3>1, Gone
    <3>3. j = k + 1
      BY <1>1, <2>1, <3>1, <3>2
    <3>. QED
      BY <1>11, <3>1, <3>2, <3>3
  <2>3. SalesOf(rows', o) = SalesOf(rows, o)
    <3>1. PICK ref : ref = "SALE"
      OBVIOUS
    <3>2. \A l \in DOMAIN ext : ~(ext[l].ref = ref /\ ext[l].owner = o)
      BY <1>7, <1>9, <1>11, <3>1
    <3>. QED
      BY <1>11, <3>1, <3>2, OutsRest DEF SalesOf
  <2>4. ReportsOf(rows', o) = ReportsOf(rows, o) \cup {k}
    <3>1. PICK ref : ref = "REPORT"
      OBVIOUS
    <3>2. PICK l : l = 1
      OBVIOUS
    <3>3. /\ l \in DOMAIN ext /\ ext[l].ref = ref /\ ext[l].owner = o /\ ext[l].type = "OUT"
          /\ \A t \in DOMAIN ext : ext[t].reverses = 0 /\ (ext[t].type = "OUT" => t = l)
      BY <1>7, <1>9, <1>11, <3>1, <3>2
    <3>4. OutsOf(rows', o, ref) = OutsOf(rows, o, ref) \cup {Len(rows) + l}
      BY <1>28, <3>3, OutsGrow
    <3>. QED
      BY <2>1, <3>1, <3>2, <3>4 DEF ReportsOf
  <2>5. v.qty <= made[o].qty + rows'[k + 1].qty /\ LineOK(rows, made[o], o)
    BY <1>1, <1>9, <1>22, <2>2
  <2>. QED
    BY <1>1, <1>11, <1>20, <1>22, <2>1, <2>3, <2>4, <2>5, LineReports
<1>25. \A p \in Orders : LineOK(rows', made'[p], p)
  <2>1. \A k \in DOMAIN ext : ext[k].owner = o
    BY <1>7, <1>9, <1>11
  <2>2. LineOK(rows', made'[o], o)
    BY <1>23, <1>24
  <2>3. \A p \in Orders : p # o => made'[p] = made[p]
    BY <1>23
  <2>4. \A p \in Orders : LineOK(rows, made[p], p)
    BY <1>1
  <2>5. made \in [Orders -> PromiseType] /\ FineRows(rows)
    BY <1>1
  <2>. QED
    BY <1>28, <2>1, <2>2, <2>3, <2>4, <2>5, LinesOf
<1>26. raw' \in [Orders -> PromiseType]
  <2>1. PICK w : w = Consumed(raw[o], kg)
    OBVIOUS
  <2>2. w \in PromiseType
    BY <1>1, <1>5, <2>1, RawIs
  <2>3. raw' = [raw EXCEPT ![o] = w]
    BY <1>2, <2>1
  <2>. QED
    BY <1>1, <2>2, <2>3, PromiseIsSet
<1>27. TypeInv'
  BY <1>1, <1>2, <1>15, <1>23, <1>26 DEF TypeInv
<1>. QED
  BY <1>18, <1>19, <1>20, <1>25, <1>27 DEF IInv

LEMMA ReverseReportStep ==
  ASSUME ProductionAssumption, IInv, NEW o \in Orders, ReverseReport(o)
  PROVE  IInv'
<1>1. /\ RowsTyped(rows) /\ Len(rows) \in Nat /\ Orderly(rows, order, mount) /\ FineRows(rows)
      /\ order \in [Orders -> OrderType] /\ mount \in [Orders -> [Coils -> CellType]]
      /\ closedBy \in [Coils -> CauseType]
      /\ raw \in [Orders -> PromiseType] /\ made \in [Orders -> PromiseType]
      /\ \A d \in Coils : CoilOK(rows, order, mount, closedBy[d], d)
      /\ \A p \in Orders : order[p].rowsThen \in 0..Len(rows)
      /\ \A p \in Orders : LineOK(rows, made[p], p)
      /\ Closings(rows, order, Product)
      /\ Plain(made[o]) /\ Reports(o) = ReportsOf(rows, o)
  BY InvIs
<1>2. PICK i : i = Max(Reports(o))
  OBVIOUS
<1>3. PICK c : c = rows[i].item
  OBVIOUS
<1>4. /\ order[o].status = "IN_PROGRESS" /\ Reports(o) # {} /\ Has(mount, o, c)
      /\ NothingLeftAfter(i + 1)
      /\ made' = [made EXCEPT ![o] = Lowered(@, rows[i + 1].qty)]
      /\ mount' = [mount EXCEPT ![o][c].consumed = @ - rows[i].qty]
      /\ rows' = rows \o <<Undo(i + 1, "OUT"), Undo(i, "IN")>>
      /\ order' = [order EXCEPT ![o].status = StatusWith(mount', o, Reports(o) \ {i})]
      /\ raw' = [raw EXCEPT ![o] = Restored(@, rows[i].qty)]
      /\ closedBy' = closedBy
  BY <1>2, <1>3 DEF ReverseReport
<1>5. i \in ReportsOf(rows, o) /\ \A j \in ReportsOf(rows, o) : i >= j
  <2>1. ReportsOf(rows, o) \in SUBSET DOMAIN rows /\ DOMAIN rows = 1..Len(rows)
    BY <1>1, LineRows, RowsAre
  <2>. QED
    BY <1>1, <1>2, <1>4, <2>1, MaxIs
<1>6. /\ i \in Standing(rows) /\ i \in DOMAIN rows /\ i # 0 /\ i \in Nat
      /\ rows[i].ref = "REPORT" /\ rows[i].owner = o /\ rows[i].type = "OUT"
      /\ rows[i].qty \in Nat
  <2>1. i \in Standing(rows) /\ rows[i].ref = "REPORT" /\ rows[i].owner = o /\ rows[i].type = "OUT"
    BY <1>5 DEF ReportsOf, OutsOf
  <2>2. i \in DOMAIN rows
    BY <2>1 DEF Standing
  <2>. QED
    BY <1>1, <2>1, <2>2, RowsAre
<1>7. /\ c \in Coils /\ i + 1 \in DOMAIN rows
      /\ rows[i + 1].item = Product /\ rows[i + 1].type = "IN"
      /\ rows[i + 1].ref = "REPORT" /\ rows[i + 1].owner = o /\ rows[i + 1].qty \in Nat
  <2>1. RowFine(rows, i)
    BY <1>1, <1>6 DEF FineRows
  <2>2. /\ c \in Coils /\ i + 1 \in DOMAIN rows
        /\ rows[i + 1].item = Product /\ rows[i + 1].type = "IN"
        /\ rows[i + 1].ref = "REPORT" /\ rows[i + 1].owner = o
    BY <1>3, <1>6, <2>1 DEF RowFine
  <2>. QED
    BY <1>1, <2>2, RowsAre
<1>8. PICK r : r = Undo(i + 1, "OUT")
  OBVIOUS
<1>9. /\ r \in RowType /\ Mirrors(rows[i + 1], r) /\ r.type = "OUT" /\ r.reverses = i + 1
      /\ r.item = Product /\ r.owner = o /\ r.ref = "REPORT"
  <2>1. PICK t : t = "OUT"
    OBVIOUS
  <2>2. PICK l \in DOMAIN rows : l = i + 1
    BY <1>7
  <2>3. /\ r \in RowType /\ Mirrors(rows[l], r) /\ r.type = t /\ r.reverses = l
        /\ r.item = rows[l].item /\ r.owner = rows[l].owner /\ r.ref = rows[l].ref
    BY <1>1, <1>8, <2>1, <2>2, UndoIs
  <2>. QED
    BY <1>7, <2>1, <2>2, <2>3
<1>10. PICK s : s = Undo(i, "IN")
  OBVIOUS
<1>11. /\ s \in RowType /\ Mirrors(rows[i], s) /\ s.type = "IN" /\ s.reverses = i
       /\ s.item = c /\ s.owner = o /\ s.ref = "REPORT"
  <2>1. PICK t : t = "IN"
    OBVIOUS
  <2>2. /\ s \in RowType /\ Mirrors(rows[i], s) /\ s.type = t /\ s.reverses = i
        /\ s.item = rows[i].item /\ s.owner = rows[i].owner /\ s.ref = rows[i].ref
    BY <1>1, <1>6, <1>10, <2>1, UndoIs
  <2>. QED
    BY <1>3, <1>6, <2>1, <2>2
<1>12. PICK ext : ext = <<r, s>>
  OBVIOUS
<1>13. /\ RowsGo(rows, rows', ext) /\ Grows(rows, rows')
       /\ DOMAIN ext = {1, 2} /\ ext[1] = r /\ ext[2] = s
  <2>1. rows' = rows \o ext
    BY <1>4, <1>8, <1>10, <1>12
  <2>2. Follows(rows, r)
    BY <1>7, <1>9 DEF Follows
  <2>3. Follows(rows, s)
    BY <1>6, <1>11 DEF Follows
  <2>4. IsSeq(ext) /\ DOMAIN ext = {1, 2} /\ ext[1] = r /\ ext[2] = s
    BY <1>12, PairIs
  <2>5. \A k \in DOMAIN ext : Follows(rows, ext[k])
    BY <2>2, <2>3, <2>4
  <2>6. RowsTyped(rows)
    BY <1>1
  <2>7. RowsGo(rows, rows', ext) /\ Grows(rows, rows')
    BY <2>1, <2>4, <2>5, <2>6, RowsJoin
  <2>. QED
    BY <2>4, <2>7
<1>14. RowsGo(rows, rows', ext)
  BY <1>13
<1>15. i + 1 # 0 /\ i + 1 # i
  BY <1>6
<1>16. /\ \A k \in DOMAIN ext : ext[k].reverses # 0 /\ ext[k].owner = o /\ ext[k].ref = "REPORT"
       /\ c # Product
  BY <1>6, <1>7, <1>9, <1>11, <1>13, <1>15 DEF ProductionAssumption
<1>17. PICK n \in Nat : n = mount[o][c].consumed - rows[i].qty
  <2>1. mount[o][c].consumed = QtyOf(rows, UsedBy(rows, o, c))
    BY <1>1, <1>7 DEF CoilOK, UsedUp
  <2>2. i \in UsedBy(rows, o, c) /\ UsedBy(rows, o, c) \in SUBSET DOMAIN rows
    BY <1>3, <1>6, UsedIsLive DEF UsedBy, LiveOf
  <2>3. {i} \in SUBSET UsedBy(rows, o, c)
    BY <2>2
  <2>4. QtyOf(rows, {i}) <= QtyOf(rows, UsedBy(rows, o, c))
    BY <1>1, <2>2, <2>3, QtyLess
  <2>5. QtyOf(rows, {i}) = rows[i].qty /\ QtyOf(rows, UsedBy(rows, o, c)) \in Nat
    BY <1>1, <1>6, <2>2, QtyOfOne, QtyNat
  <2>. QED
    BY <1>6, <2>1, <2>4, <2>5
<1>18. /\ mount' \in [Orders -> [Coils -> CellType]]
       /\ mount'[o][c].consumed = n /\ mount'[o][c].assigned = mount[o][c].assigned
       /\ mount'[o][c].state = mount[o][c].state
       /\ \A p \in Orders, d \in Coils : (p # o \/ d # c) => mount'[p][d] = mount[p][d]
  <2>1. mount' = WithUsed(mount, o, c, n)
    BY <1>4, <1>17 DEF WithUsed
  <2>2. mount \in [Orders -> [Coils -> CellType]] /\ c \in Coils
    BY <1>1, <1>7
  <2>. QED
    BY <2>1, <2>2, CellUses
<1>19. StatusSet(order, order', o) /\ Going(order', o)
  <2>1. PICK t : t = StatusWith(mount', o, Reports(o) \ {i})
    OBVIOUS
  <2>2. t \in {"DRAFT", "IN_PROGRESS"} /\ order' = WithStatus(order, o, t)
    BY <1>4, <2>1, StatusWithIs DEF WithStatus
  <2>3. StatusSet(order, order', o) /\ order'[o].status = t
    BY <1>1, <2>2, StatusIsSet
  <2>. QED
    BY <2>2, <2>3 DEF Going
<1>20. Orderly(rows', order', mount')
  <2>1. \A p \in Orders : order'[p].rowsThen \in 0..Len(rows)
    BY <1>1, <1>19 DEF StatusSet
  <2>2. order' \in [Orders -> OrderType]
    BY <1>19 DEF StatusSet
  <2>. QED
    BY <1>1, <1>13, <1>18, <2>1, <2>2, OrderlyStays
<1>21. CoilOK(rows', order', mount', closedBy[c], c)
  <2>1. PICK k : k = 2
    OBVIOUS
  <2>2. PICK j \in DOMAIN rows' : Gives(rows, rows', c, i, j)
    <3>1. /\ k \in DOMAIN ext /\ ext[k].type = "IN" /\ ext[k].reverses = i
          /\ \A l \in DOMAIN ext : ext[l].item = c => l = k
      BY <1>9, <1>11, <1>13, <1>16, <2>1
    <3>2. i \in LiveOf(rows, c)
      BY <1>3, <1>6 DEF LiveOf
    <3>. QED
      BY <1>14, <3>1, <3>2, GivesWhen
  <2>3. OthersSame(order, order', mount, mount', o, c)
    BY <1>7, <1>18, <1>19 DEF OthersSame, StatusSet
  <2>4. Has(mount, o, c) /\ Has(mount', o, c)
    BY <1>4, <1>18 DEF Has
  <2>5. /\ rows[i].owner = o /\ rows[i].ref = "REPORT"
        /\ mount'[o][c].consumed = mount[o][c].consumed - rows[i].qty
        /\ mount'[o][c].assigned = mount[o][c].assigned
        /\ CoilOK(rows, order, mount, closedBy[c], c) /\ Orderly(rows, order, mount)
    BY <1>1, <1>6, <1>7, <1>17, <1>18
  <2>. QED
    BY <1>7, <1>19, <1>20, <2>2, <2>3, <2>4, <2>5, CoilUnreported
<1>22. ASSUME NEW d \in Coils PROVE CoilOK(rows', order', mount', closedBy'[d], d)
  <2>1. CASE d = c
    BY <1>4, <1>21, <2>1
  <2>2. CASE d # c
    <3>1. d # Product
      BY DEF ProductionAssumption
    <3>2. \A k \in DOMAIN ext : ext[k].item # d
      BY <1>9, <1>11, <1>13, <2>2, <3>1
    <3>3. Rests(rows, rows', d)
      BY <1>14, <3>2, RestsWhen
    <3>4. SameOrders(order, order', mount, mount', d)
      <4>1. \A p \in Orders : mount'[p][d] = mount[p][d]
        BY <1>18, <2>2
      <4>2. Going(order, o)
        BY <1>4 DEF Going
      <4>. QED
        BY <1>19, <4>1, <4>2, OtherCoils
    <3>5. CoilOK(rows', order', mount', closedBy[d], d)
      BY <1>1, <1>20, <3>3, <3>4, CoilRests
    <3>. QED
      BY <1>4, <3>5
  <2>. QED
    BY <2>1, <2>2
<1>23. Closings(rows', order', Product)
  <2>1. \A k \in DOMAIN ext : ext[k].ref # "CLOSE"
    BY <1>16
  <2>2. \A p \in Orders : order[p].status = "CLOSED" => order'[p] = order[p]
    BY <1>4, <1>19 DEF StatusSet
  <2>3. Closings(rows, order, Product)
    BY <1>1
  <2>. QED
    BY <1>14, <2>1, <2>2, <2>3, ClosingsStay
<1>24. FineRows(rows')
  BY <1>1, <1>14, <1>16, FineStays
<1>25. PICK v : v = Lowered(made[o], rows[i + 1].qty)
  OBVIOUS
<1>26. /\ v \in PromiseType /\ (v.status # "ACTIVE" => v.qty = 0)
       /\ v.qty = 0 \/ v.qty <= made[o].qty - rows[i + 1].qty
  BY <1>1, <1>7, <1>25, LoweredIs DEF Plain
<1>27. made' \in [Orders -> PromiseType] /\ made'[o] = v /\ \A p \in Orders : p # o => made'[p] = made[p]
  <2>1. made' = [made EXCEPT ![o] = v]
    BY <1>4, <1>25
  <2>. QED
    BY <1>1, <1>26, <2>1, PromiseIsSet
\* What was dispatched left before the report that is undone.
<1>28. ASSUME NEW j \in SalesOf(rows, o) PROVE j < i
  <2>1. j \in Standing(rows) /\ rows[j].ref = "SALE"
    BY DEF SalesOf, OutsOf
  <2>2. rows[j].item = Product /\ rows[j].type = "OUT" /\ j \in DOMAIN rows /\ LiveRow(j)
    BY <1>1, <2>1 DEF FineRows, RowFine, Standing, Stands, LiveRow
  <2>3. ~(j > i + 1)
    BY <1>4, <2>2 DEF NothingLeftAfter
  <2>4. j # i + 1 /\ j # i
    BY <1>6, <1>7, <2>1
  <2>5. j \in Nat
    BY <1>1, <2>2, RowsAre
  <2>. QED
    BY <1>6, <2>3, <2>4, <2>5
<1>29. LineOK(rows', v, o)
  <2>1. SalesOf(rows', o) = SalesOf(rows, o)
    <3>1. PICK ref : ref = "SALE"
      OBVIOUS
    <3>2. \A l \in DOMAIN ext : ~(ext[l].ref = ref /\ ext[l].owner = o)
      BY <1>16, <3>1
    <3>. QED
      BY <1>14, <3>1, <3>2, OutsRest DEF SalesOf
  <2>2. ReportsOf(rows', o) = ReportsOf(rows, o) \ {i}
    <3>1. PICK ref : ref = "REPORT"
      OBVIOUS
    <3>2. PICK l : l = 2
      OBVIOUS
    <3>3. i \in OutsOf(rows, o, ref) /\ i + 1 \notin OutsOf(rows, o, ref)
      BY <1>5, <1>7, <3>1 DEF ReportsOf, OutsOf
    <3>4. /\ l \in DOMAIN ext /\ ext[l].reverses = i
          /\ \A t \in DOMAIN ext : /\ ext[t].reverses # 0
                                   /\ ext[t].reverses \in OutsOf(rows, o, ref) => t = l
      BY <1>9, <1>11, <1>13, <1>16, <3>2, <3>3
    <3>5. OutsOf(rows', o, ref) = OutsOf(rows, o, ref) \ {i}
      BY <1>14, <3>3, <3>4, OutsShrink
    <3>. QED
      BY <3>1, <3>5 DEF ReportsOf
  <2>3. LineOK(rows, made[o], o) /\ Grows(rows, rows') /\ FineRows(rows)
    BY <1>1, <1>13
  <2>4. \A j \in SalesOf(rows, o) : j < i
    BY <1>28
  <2>. QED
    BY <1>5, <1>26, <2>1, <2>2, <2>3, <2>4, LineUnreports
<1>30. \A p \in Orders : LineOK(rows', made'[p], p)
  <2>1. \A k \in DOMAIN ext : ext[k].owner = o
    BY <1>16
  <2>2. LineOK(rows', made'[o], o)
    BY <1>27, <1>29
  <2>3. \A p \in Orders : p # o => made'[p] = made[p]
    BY <1>27
  <2>4. \A p \in Orders : LineOK(rows, made[p], p)
    BY <1>1
  <2>5. made \in [Orders -> PromiseType] /\ FineRows(rows)
    BY <1>1
  <2>. QED
    BY <1>14, <2>1, <2>2, <2>3, <2>4, <2>5, LinesOf
<1>31. raw' \in [Orders -> PromiseType]
  <2>1. PICK w : w = Restored(raw[o], rows[i].qty)
    OBVIOUS
  <2>2. w \in PromiseType
    BY <1>1, <1>6, <2>1, RawIs
  <2>3. raw' = [raw EXCEPT ![o] = w]
    BY <1>4, <2>1
  <2>. QED
    BY <1>1, <2>2, <2>3, PromiseIsSet
<1>32. TypeInv'
  BY <1>1, <1>4, <1>20, <1>27, <1>31 DEF TypeInv
<1>. QED
  BY <1>22, <1>23, <1>24, <1>30, <1>32 DEF IInv

-----------------------------------------------------------------------------
(* A closing.                                                               *)

\* Its rows: the scrap of each coil, and the adjustment of the product.
ClosingExt(ext, o, s) ==
  /\ IsSeq(ext)
  /\ \A k \in DOMAIN ext :
       /\ ext[k] \in RowType /\ ext[k].ref = "CLOSE" /\ ext[k].owner = o /\ ext[k].reverses = 0
       /\ ext[k].item \in Coils =>
            ext[k].type = "OUT" /\ s[ext[k].item] > 0 /\ ext[k].qty = s[ext[k].item]
  /\ \A c \in Coils : s[c] > 0 => \E k \in DOMAIN ext : ext[k].item = c
  /\ \A k, l \in DOMAIN ext : ext[k].item = ext[l].item => k = l

LEMMA ScrapRowsAre ==
  ASSUME ProductionAssumption, NEW o \in Orders, NEW s \in [Coils -> Nat]
  PROVE  /\ ClosingExt(ScrapRows(o, s), o, s)
         /\ \A k \in DOMAIN ScrapRows(o, s) : ScrapRows(o, s)[k].item \in Coils
<1>1. PICK S : S = {c \in Coils : s[c] > 0}
  OBVIOUS
<1>2. IsFiniteSet(S)
  BY <1>1, FS_Subset DEF ProductionAssumption
<1>0. PICK n \in Nat : n = Cardinality(S)
  BY <1>2, FS_CardinalityType
<1>3. PICK cs : cs = SetToSeq(S)
  OBVIOUS
<1>4. /\ DOMAIN cs = 1..n /\ \A k \in 1..n : cs[k] \in S
      /\ \A c \in S : \E k \in 1..n : cs[k] = c
      /\ \A k, l \in 1..n : cs[k] = cs[l] => k = l
  BY <1>0, <1>2, <1>3, SetToSeqIs
<1>5. PICK outs : outs = ScrapRows(o, s)
  OBVIOUS
<1>6. outs = [k \in 1..n |-> Row(cs[k], "OUT", s[cs[k]], "CLOSE", o, 0)]
  BY <1>1, <1>3, <1>4, <1>5 DEF ScrapRows
<1>7. IsSeq(outs) /\ DOMAIN outs = 1..n
  <2>1. outs = [k \in 1..n |-> outs[k]]
    BY <1>6
  <2>. QED
    BY <2>1, FunctionIsSeq
<1>8. ASSUME NEW k \in 1..n
      PROVE  /\ outs[k] \in RowType /\ outs[k].item = cs[k] /\ outs[k].type = "OUT"
             /\ outs[k].qty = s[cs[k]] /\ outs[k].ref = "CLOSE" /\ outs[k].owner = o
             /\ outs[k].reverses = 0 /\ cs[k] \in Coils /\ s[cs[k]] > 0
  <2>1. cs[k] \in Coils /\ s[cs[k]] \in Nat /\ s[cs[k]] > 0
    BY <1>1, <1>4
  <2>2. outs[k] = Row(cs[k], "OUT", s[cs[k]], "CLOSE", o, 0)
    BY <1>6
  <2>. QED
    BY <2>1, <2>2 DEF Row, RowType
<1>9. \A c \in Coils : s[c] > 0 => \E k \in 1..n : outs[k].item = c
  BY <1>1, <1>4, <1>8
<1>10. \A k, l \in 1..n : outs[k].item = outs[l].item => k = l
  BY <1>4, <1>8
<1>. QED
  BY <1>5, <1>7, <1>8, <1>9, <1>10 DEF ClosingExt

LEMMA CloseRowsAre ==
  ASSUME ProductionAssumption, NEW o \in Orders, NEW s \in [Coils -> Nat],
         NEW outs, outs = ScrapRows(o, s), NEW adjust, NEW q \in Nat \ {0},
         adjust \in {<<>>, <<Row(Product, "ADJUST", q, "CLOSE", o, 0)>>},
         NEW ext, ext = outs \o adjust
  PROVE  IsSeq(outs) /\ IsSeq(adjust) /\ ClosingExt(ext, o, s)
<1>1. ClosingExt(outs, o, s) /\ \A k \in DOMAIN outs : outs[k].item \in Coils
  BY ScrapRowsAre
<1>2. IsSeq(outs)
  BY <1>1 DEF ClosingExt
<1>3. PICK r : r = Row(Product, "ADJUST", q, "CLOSE", o, 0)
  OBVIOUS
<1>4. /\ r \in RowType /\ r.item = Product /\ r.ref = "CLOSE" /\ r.owner = o /\ r.reverses = 0
  BY <1>3 DEF Row, RowType
<1>5. adjust = <<>> \/ adjust = <<r>>
  BY <1>3
<1>6. IsSeq(adjust) /\ \A l \in DOMAIN adjust : l = 1 /\ adjust[l] = r
  <2>1. CASE adjust = <<>>
    <3>1. adjust \in Seq({r}) /\ DOMAIN adjust = {}
      BY <2>1
    <3>. QED
      BY <3>1, TypedIsSeq
  <2>2. CASE adjust = <<r>>
    <3>1. adjust \in Seq({r}) /\ DOMAIN adjust = {1} /\ adjust[1] = r
      BY <2>2
    <3>. QED
      BY <3>1, TypedIsSeq
  <2>. QED
    BY <1>5, <2>1, <2>2
<1>7. Joins(ext, outs, adjust)
  BY <1>2, <1>6, Joined
<1>8. /\ IsSeq(ext)
      /\ \A k \in DOMAIN outs : k \in DOMAIN ext /\ ext[k] = outs[k]
      /\ \A k \in DOMAIN ext \ DOMAIN outs : k = Len(outs) + 1 /\ ext[k] = r
  BY <1>6, <1>7 DEF Joins
<1>9. Product \notin Coils
  BY DEF ProductionAssumption
<1>10. ASSUME NEW k \in DOMAIN ext
       PROVE  /\ ext[k] \in RowType /\ ext[k].ref = "CLOSE" /\ ext[k].owner = o /\ ext[k].reverses = 0
              /\ ext[k].item \in Coils =>
                   ext[k].type = "OUT" /\ s[ext[k].item] > 0 /\ ext[k].qty = s[ext[k].item]
  <2>1. CASE k \in DOMAIN outs
    BY <1>1, <1>8, <2>1 DEF ClosingExt
  <2>2. CASE k \notin DOMAIN outs
    BY <1>4, <1>8, <1>9, <2>2
  <2>. QED
    BY <2>1, <2>2
<1>11. ASSUME NEW c \in Coils, s[c] > 0 PROVE \E k \in DOMAIN ext : ext[k].item = c
  BY <1>1, <1>8, <1>11 DEF ClosingExt
<1>12. ASSUME NEW k \in DOMAIN ext, NEW l \in DOMAIN ext, ext[k].item = ext[l].item PROVE k = l
  <2>1. CASE k \in DOMAIN outs /\ l \in DOMAIN outs
    BY <1>1, <1>8, <1>12, <2>1 DEF ClosingExt
  <2>2. CASE k \notin DOMAIN outs /\ l \notin DOMAIN outs
    BY <1>8, <2>2
  <2>3. CASE k \in DOMAIN outs /\ l \notin DOMAIN outs
    BY <1>1, <1>4, <1>8, <1>9, <1>12, <2>3
  <2>4. CASE k \notin DOMAIN outs /\ l \in DOMAIN outs
    BY <1>1, <1>4, <1>8, <1>9, <1>12, <2>4
  <2>. QED
    BY <2>1, <2>2, <2>3, <2>4
<1>. QED
  BY <1>2, <1>6, <1>8, <1>10, <1>11, <1>12 DEF ClosingExt

\* Sequences one after another, whichever are joined first.
LEMMA JoinedTwice ==
  ASSUME NEW s, NEW t, NEW u, IsSeq(s), IsSeq(t), IsSeq(u)
  PROVE  (s \o t) \o u = s \o (t \o u)
<1>1. PICK S : S = {s[i] : i \in DOMAIN s} \cup {t[i] : i \in DOMAIN t} \cup {u[i] : i \in DOMAIN u}
  OBVIOUS
<1>2. /\ {s[i] : i \in DOMAIN s} \subseteq S /\ {t[i] : i \in DOMAIN t} \subseteq S
      /\ {u[i] : i \in DOMAIN u} \subseteq S
  BY <1>1
<1>3. s \in Seq(S) /\ t \in Seq(S) /\ u \in Seq(S)
  BY <1>2, SeqMonotonic DEF IsSeq
<1>. QED
  BY <1>3, ConcatAssociative

\* The custody of the coils it gives back.
WithClosed(m, o, s) ==
  [m EXCEPT ![o] = [c \in Coils |->
     IF ~Has(m, o, c) THEN m[o][c]
     ELSE [m[o][c] EXCEPT !.state = "closed", !.consumed = @ + s[c]]]]

LEMMA CellsClosed ==
  ASSUME NEW m \in [Orders -> [Coils -> CellType]], NEW o \in Orders, NEW s \in [Coils -> Nat],
         NEW m2, m2 = WithClosed(m, o, s)
  PROVE  /\ m2 \in [Orders -> [Coils -> CellType]]
         /\ \A p \in Orders : p # o => m2[p] = m[p]
         /\ \A c \in Coils : /\ ~Has(m, o, c) => m2[o][c] = m[o][c]
                             /\ Has(m, o, c) => /\ GaveBack(m2, o, c)
                                                /\ m2[o][c].assigned = m[o][c].assigned
                                                /\ m2[o][c].consumed = m[o][c].consumed + s[c]
<1>. DEFINE Cell(c) == IF ~Has(m, o, c) THEN m[o][c]
                       ELSE [m[o][c] EXCEPT !.state = "closed", !.consumed = @ + s[c]]
<1>1. ASSUME NEW c \in Coils
      PROVE  /\ Cell(c) \in CellType
             /\ Has(m, o, c) => /\ Cell(c).state = "closed"
                                /\ Cell(c).assigned = m[o][c].assigned
                                /\ Cell(c).consumed = m[o][c].consumed + s[c]
  <2>1. PICK r \in CellType, n \in Nat : r = m[o][c] /\ n = s[c]
    OBVIOUS
  <2>2. CASE ~Has(m, o, c)
    BY <2>1, <2>2
  <2>3. CASE Has(m, o, c)
    <3>1. Cell(c) = [r EXCEPT !.state = "closed", !.consumed = @ + n]
      BY <2>1, <2>3
    <3>2. Cell(c) = [state |-> "closed", assigned |-> r.assigned, consumed |-> r.consumed + n]
      BY <3>1 DEF CellType
    <3>3. r.assigned \in Nat /\ r.consumed + n \in Nat
      BY DEF CellType
    <3>. HIDE DEF Cell
    <3>. QED
      BY <2>1, <3>2, <3>3 DEF CellType
  <2>. QED
    BY <2>2, <2>3
<1>2. \A c \in Coils : m2[o][c] = Cell(c)
  BY DEF WithClosed
<1>3. m2 = [m EXCEPT ![o] = [c \in Coils |-> Cell(c)]]
  BY DEF WithClosed
<1>4. \A c \in Coils : ~Has(m, o, c) => Cell(c) = m[o][c]
  OBVIOUS
<1>. HIDE DEF Cell
<1>5. m2 \in [Orders -> [Coils -> CellType]] /\ \A p \in Orders : p # o => m2[p] = m[p]
  BY <1>1, <1>3
<1>. QED
  BY <1>1, <1>2, <1>4, <1>5 DEF GaveBack

\* The order it closes, with or without a recost of its reports.
WithClosing(ord, o, then, t) ==
  [ord EXCEPT ![o] = [status |-> "CLOSED", rowsThen |-> then, recosted |-> t]]

LEMMA ClosingIsSet ==
  ASSUME NEW ord \in [Orders -> OrderType], NEW o \in Orders, NEW then \in Nat, NEW t \in BOOLEAN,
         NEW ord2, ord2 = WithClosing(ord, o, then, t)
  PROVE  /\ ord2 \in [Orders -> OrderType]
         /\ ord2[o].status = "CLOSED" /\ ord2[o].rowsThen = then
         /\ \A p \in Orders : p # o => ord2[p] = ord[p]
BY DEF WithClosing, OrderType

\* It is the only one of which rows of a closing are added.
LEMMA ClosingsClose ==
  ASSUME NEW rs, NEW rt, NEW ext, RowsGo(rs, rt, ext), NEW ord, NEW ord2, NEW o \in Orders,
         NEW s, NEW x, Closings(rs, ord, x), ClosingExt(ext, o, s),
         ord[o].status # "CLOSED", ord2[o].status = "CLOSED", ord2[o].rowsThen = Len(rs),
         \A p \in Orders : p # o => ord2[p] = ord[p]
  PROVE  Closings(rt, ord2, x)
<1>1. \A i \in DOMAIN rs : i \in Standing(rt) => i \in Standing(rs) /\ rt[i] = rs[i]
  BY Gone DEF Grows
<1>2. ASSUME NEW p \in Orders, p # o, NEW i \in ClosingOf(rt, p, x) PROVE i \in ClosingOf(rs, p, x)
  <2>1. i \in Standing(rt) /\ rt[i].item = x /\ rt[i].owner = p /\ rt[i].ref = "CLOSE"
    BY DEF ClosingOf, LiveOf
  <2>2. CASE i \in DOMAIN rs
    BY <1>1, <2>1, <2>2 DEF ClosingOf, LiveOf
  <2>3. CASE i \notin DOMAIN rs
    <3>1. \E k \in DOMAIN ext : rt[i] = ext[k]
      BY <2>1, <2>3, Gone DEF Standing
    <3>. QED
      BY <1>2, <2>1, <3>1 DEF ClosingExt
  <2>. QED
    BY <2>2, <2>3
<1>3. ASSUME NEW i \in ClosingOf(rt, o, x)
      PROVE  \E k \in DOMAIN ext : i = Len(rs) + k /\ ext[k].item = x
  <2>1. i \in Standing(rt) /\ rt[i].item = x /\ rt[i].owner = o /\ rt[i].ref = "CLOSE"
    BY DEF ClosingOf, LiveOf
  <2>2. i \notin DOMAIN rs
    <3>1. SUFFICES ASSUME i \in DOMAIN rs PROVE FALSE
      OBVIOUS
    <3>2. i \in ClosingOf(rs, o, x)
      BY <1>1, <2>1, <3>1 DEF ClosingOf, LiveOf
    <3>. QED
      BY <3>2 DEF Closings
  <2>3. \E k \in DOMAIN ext : i = Len(rs) + k /\ rt[i] = ext[k]
    BY <2>1, <2>2, Gone DEF Standing
  <2>. QED
    BY <2>1, <2>3
<1>4. ASSUME NEW i \in ClosingOf(rt, o, x) PROVE i > Len(rs)
  <2>1. PICK k \in DOMAIN ext : i = Len(rs) + k
    BY <1>3
  <2>2. k \in Nat /\ k # 0 /\ Len(rs) \in Nat
    BY SeqIs, RowsAre DEF RowsGo
  <2>. QED
    BY <2>1, <2>2
<1>5. ASSUME NEW i \in ClosingOf(rt, o, x), NEW j \in ClosingOf(rt, o, x) PROVE i = j
  BY <1>3 DEF ClosingExt
<1>6. ASSUME NEW p \in Orders
      PROVE  /\ \A i \in ClosingOf(rt, p, x) : ord2[p].status = "CLOSED" /\ i > ord2[p].rowsThen
             /\ \A i, j \in ClosingOf(rt, p, x) : i = j
  <2>1. CASE p = o
    BY <1>4, <1>5, <2>1
  <2>2. CASE p # o
    BY <1>2, <2>2 DEF Closings
  <2>. QED
    BY <2>1, <2>2
<1>. QED
  BY <1>6 DEF Closings

LEMMA CloseStep ==
  ASSUME ProductionAssumption, IInv, NEW o \in Orders, Close(o)
  PROVE  IInv'
<1>1. /\ RowsTyped(rows) /\ Len(rows) \in Nat /\ Orderly(rows, order, mount) /\ FineRows(rows)
      /\ order \in [Orders -> OrderType] /\ mount \in [Orders -> [Coils -> CellType]]
      /\ closedBy \in [Coils -> CauseType]
      /\ raw \in [Orders -> PromiseType] /\ made \in [Orders -> PromiseType]
      /\ \A d \in Coils : CoilOK(rows, order, mount, closedBy[d], d)
      /\ \A p \in Orders : order[p].rowsThen \in 0..Len(rows)
      /\ \A p \in Orders : LineOK(rows, made[p], p)
      /\ Closings(rows, order, Product)
  BY InvIs
<1>2. PICK s \in Scraps(o) :
        LET stock == Stock(rows, Product)
            scrap == SumFunctionOnSet(s, Coils)
            adjust == IF scrap > 0 /\ stock > 0
                      THEN <<Row(Product, "ADJUST", stock, "CLOSE", o, 0)>> ELSE <<>>
        IN  /\ order[o].status = "IN_PROGRESS"
            /\ rows' = rows \o ScrapRows(o, s) \o adjust
            /\ raw' = [raw EXCEPT ![o] = Ended(Consumed(@, scrap))]
            /\ mount' = WithClosed(mount, o, s)
            /\ order' = [order EXCEPT ![o] =
                           [status |-> "CLOSED", rowsThen |-> Len(rows),
                            recosted |-> @.recosted \/ (scrap > 0 /\ stock = 0)]]
            /\ closedBy' = Terminated(rows', mount', {c \in Coils : Has(mount, o, c)}, ClosesAs(o))
            /\ made' = made
  BY Zenon DEF Close, WithClosed
<1>30. PICK scrap : scrap = SumFunctionOnSet(s, Coils)
  OBVIOUS
<1>31. PICK stock : stock = Stock(rows, Product)
  OBVIOUS
<1>32. PICK outs : outs = ScrapRows(o, s)
  OBVIOUS
<1>33. PICK adjust : adjust = IF scrap > 0 /\ stock > 0
                           THEN <<Row(Product, "ADJUST", stock, "CLOSE", o, 0)>> ELSE <<>>
  OBVIOUS
<1>3. /\ order[o].status = "IN_PROGRESS"
      /\ scrap = SumFunctionOnSet(s, Coils) /\ outs = ScrapRows(o, s) /\ stock = Stock(rows, Product)
      /\ adjust = IF scrap > 0 /\ stock > 0
                  THEN <<Row(Product, "ADJUST", stock, "CLOSE", o, 0)>> ELSE <<>>
      /\ rows' = rows \o outs \o adjust
      /\ raw' = [raw EXCEPT ![o] = Ended(Consumed(@, scrap))]
      /\ mount' = WithClosed(mount, o, s)
      /\ order' = [order EXCEPT ![o] =
                     [status |-> "CLOSED", rowsThen |-> Len(rows),
                      recosted |-> @.recosted \/ (scrap > 0 /\ stock = 0)]]
      /\ closedBy' = Terminated(rows', mount', {c \in Coils : Has(mount, o, c)}, ClosesAs(o))
      /\ made' = made
  BY <1>2, <1>30, <1>31, <1>32, <1>33
<1>4. /\ s \in [Coils -> Nat]
      /\ \A c \in Coils : /\ Has(mount, o, c) => s[c] <= LeftOf(mount, o, c)
                          /\ ~Has(mount, o, c) => s[c] = 0
  <2>1. /\ s \in [Coils -> 0..Weight]
        /\ \A c \in Coils : s[c] <= IF Has(mount, o, c) THEN Left(o, c) ELSE 0
    BY DEF Scraps
  <2>2. \A c \in Coils : s[c] \in Nat
    BY <2>1 DEF ProductionAssumption
  <2>. QED
    BY <2>1, <2>2 DEF Left, LeftOf
<1>5. scrap \in Nat /\ stock \in Int
  <2>1. scrap \in Nat
    BY <1>3, <1>4, SumNat DEF ProductionAssumption
  <2>2. stock \in Int
    BY <1>1, <1>3, StockInt
  <2>. QED
    BY <2>1, <2>2
<1>6. PICK ext : ext = outs \o adjust
  OBVIOUS
<1>7. IsSeq(outs) /\ IsSeq(adjust) /\ ClosingExt(ext, o, s)
  <2>1. PICK q \in Nat \ {0} : adjust \in {<<>>, <<Row(Product, "ADJUST", q, "CLOSE", o, 0)>>}
    <3>1. CASE scrap > 0 /\ stock > 0
      BY <1>3, <1>5, <3>1
    <3>2. CASE ~(scrap > 0 /\ stock > 0)
      <4>1. adjust = <<>>
        BY <1>3, <3>2
      <4>2. 1 \in Nat \ {0}
        OBVIOUS
      <4>. QED
        BY <4>1, <4>2
    <3>. QED
      BY <3>1, <3>2
  <2>2. outs = ScrapRows(o, s)
    BY <1>3
  <2>. QED
    BY <1>4, <1>6, <2>1, <2>2, CloseRowsAre
<1>8. RowsGo(rows, rows', ext) /\ Grows(rows, rows')
  <2>1. IsSeq(rows)
    BY <1>1, TypedIsSeq DEF RowsTyped
  <2>2. rows' = rows \o ext
    <3>1. (rows \o outs) \o adjust = rows \o (outs \o adjust)
      BY <1>7, <2>1, JoinedTwice
    <3>. QED
      BY <1>3, <1>6, <3>1
  <2>3. IsSeq(ext) /\ \A k \in DOMAIN ext : Follows(rows, ext[k])
    BY <1>7 DEF ClosingExt, Follows
  <2>. QED
    BY <1>1, <2>2, <2>3, RowsJoin
<1>9. /\ mount' \in [Orders -> [Coils -> CellType]]
      /\ \A p \in Orders : p # o => mount'[p] = mount[p]
      /\ \A c \in Coils : /\ ~Has(mount, o, c) => mount'[o][c] = mount[o][c]
                          /\ Has(mount, o, c) => /\ GaveBack(mount', o, c)
                                                 /\ mount'[o][c].assigned = mount[o][c].assigned
                                                 /\ mount'[o][c].consumed = mount[o][c].consumed + s[c]
  <2>1. mount \in [Orders -> [Coils -> CellType]] /\ mount' = WithClosed(mount, o, s)
    BY <1>1, <1>3
  <2>. QED
    BY <1>4, <2>1, CellsClosed
<1>10. /\ order' \in [Orders -> OrderType]
       /\ order'[o].status = "CLOSED" /\ order'[o].rowsThen = Len(rows)
       /\ \A p \in Orders : p # o => order'[p] = order[p]
  <2>1. PICK t \in BOOLEAN : t = (order[o].recosted \/ (scrap > 0 /\ stock = 0))
    OBVIOUS
  <2>2. order' = WithClosing(order, o, Len(rows), t)
    BY <1>3, <2>1 DEF WithClosing
  <2>3. order \in [Orders -> OrderType] /\ Len(rows) \in Nat
    BY <1>1
  <2>. QED
    BY <2>2, <2>3, ClosingIsSet
<1>11. Orderly(rows', order', mount')
  <2>1. \A p \in Orders : order'[p].rowsThen \in 0..Len(rows)
    BY <1>1, <1>10
  <2>. QED
    BY <1>1, <1>8, <1>9, <1>10, <2>1, OrderlyStays
<1>12. ASSUME NEW c \in Coils PROVE ClosesRows(rows, rows', o, c, s[c])
  <2>1. CASE s[c] = 0
    <3>1. \A k \in DOMAIN ext : ext[k].item # c
      BY <1>7, <2>1 DEF ClosingExt
    <3>2. Rests(rows, rows', c)
      BY <1>8, <3>1, RestsWhen
    <3>. QED
      BY <2>1, <3>2 DEF ClosesRows
  <2>2. CASE s[c] # 0
    <3>1. s[c] > 0
      BY <1>4, <2>2
    <3>2. PICK k \in DOMAIN ext : ext[k].item = c
      BY <1>7, <3>1 DEF ClosingExt
    <3>3. /\ ext[k].type = "OUT" /\ ext[k].qty = s[c] /\ ext[k].reverses = 0
          /\ ext[k].owner = o /\ ext[k].ref = "CLOSE"
          /\ \A l \in DOMAIN ext : ext[l].item = c => l = k
      BY <1>7, <3>2 DEF ClosingExt
    <3>4. PICK j \in DOMAIN rows' : Takes(rows, rows', c, j) /\ rows'[j] = ext[k]
      BY <1>8, <3>2, <3>3, TakesWhen
    <3>. QED
      BY <3>3, <3>4 DEF ClosesRows
  <2>. QED
    BY <2>1, <2>2
<1>13. ASSUME NEW d \in Coils PROVE CoilOK(rows', order', mount', closedBy'[d], d)
  <2>1. CASE Has(mount, o, d)
    <3>1. closedBy'[d] = IF closedBy[d] = Open /\ Stock(rows', d) = 0 /\ Free(mount', d)
                         THEN ClosesAs(o) ELSE closedBy[d]
      <4>1. d \in {c \in Coils : Has(mount, o, c)}
        BY <2>1
      <4>. QED
        BY <1>3, <4>1, TerminatedIs
    <3>2. OthersSame(order, order', mount, mount', o, d)
      BY <1>9, <1>10 DEF OthersSame
    <3>3. /\ s[d] <= LeftOf(mount, o, d) /\ GaveBack(mount', o, d)
          /\ mount'[o][d].assigned = mount[o][d].assigned
          /\ mount'[o][d].consumed = mount[o][d].consumed + s[d]
          /\ order'[o].status = "CLOSED" /\ order'[o].rowsThen = Len(rows)
          /\ CoilOK(rows, order, mount, closedBy[d], d) /\ Orderly(rows, order, mount)
      BY <1>1, <1>4, <1>9, <1>10, <2>1
    <3>. QED
      BY <1>11, <1>12, <2>1, <3>1, <3>2, <3>3, CoilCloses
  <2>2. CASE ~Has(mount, o, d)
    <3>1. ~Involved(mount, o, d)
      <4>1. ~GaveBack(mount, o, d)
        BY <1>1, <1>3 DEF CoilOK, Custody
      <4>. QED
        BY <1>1, <2>2, <4>1, CellsAre
    <3>2. SameOrders(order, order', mount, mount', d)
      BY <1>9, <1>10, <2>2, <3>1 DEF SameOrders, Going
    <3>3. Rests(rows, rows', d)
      <4>1. s[d] = 0
        BY <1>4, <2>2
      <4>2. \A k \in DOMAIN ext : ext[k].item # d
        BY <1>7, <4>1 DEF ClosingExt
      <4>. QED
        BY <1>8, <4>2, RestsWhen
    <3>4. CoilOK(rows', order', mount', closedBy[d], d)
      BY <1>1, <1>11, <3>2, <3>3, CoilRests
    <3>5. closedBy'[d] = closedBy[d]
      <4>1. d \notin {c \in Coils : Has(mount, o, c)}
        BY <2>2
      <4>. QED
        BY <1>3, <4>1, TerminatedIs
    <3>. QED
      BY <3>4, <3>5
  <2>. QED
    BY <2>1, <2>2
<1>14. Closings(rows', order', Product)
  <2>1. Closings(rows, order, Product) /\ order[o].status # "CLOSED"
    BY <1>1, <1>3
  <2>. QED
    BY <1>7, <1>8, <1>10, <2>1, ClosingsClose
<1>15. ASSUME NEW p \in Orders PROVE LineOK(rows', made'[p], p)
  <2>1. \A k \in DOMAIN ext : ext[k].owner = p => ext[k].ref \notin {"REPORT", "SALE"}
    BY <1>7 DEF ClosingExt
  <2>2. LineOK(rows', made[p], p)
    BY <1>1, <1>8, <2>1, LineAlone
  <2>. QED
    BY <1>3, <2>2
<1>16. FineRows(rows')
  <2>1. \A k \in DOMAIN ext : ext[k].reverses = 0 => RowFine(ext, k)
    BY <1>7 DEF ClosingExt, RowFine
  <2>. QED
    BY <1>1, <1>8, <2>1, FineStays
<1>17. closedBy' \in [Coils -> CauseType]
  <2>1. ClosesAs(o) \in CauseType
    BY DEF ClosesAs, Cause, CauseType
  <2>. QED
    BY <1>1, <1>3, <2>1 DEF Terminated
<1>18. raw' \in [Orders -> PromiseType]
  <2>1. PICK v : v = Consumed(raw[o], scrap)
    OBVIOUS
  <2>2. v \in PromiseType
    BY <1>1, <1>5, <2>1, RawIs
  <2>3. PICK w : w = Ended(v)
    OBVIOUS
  <2>4. w \in PromiseType
    BY <2>2, <2>3, EndedIs
  <2>5. raw' = [raw EXCEPT ![o] = w]
    BY <1>3, <2>1, <2>3
  <2>. QED
    BY <1>1, <2>4, <2>5, PromiseIsSet
<1>19. TypeInv'
  BY <1>1, <1>3, <1>11, <1>17, <1>18 DEF TypeInv
<1>. QED
  BY <1>13, <1>14, <1>15, <1>16, <1>19 DEF IInv

-----------------------------------------------------------------------------
(* A reopening.                                                             *)

\* Its rows: the reversal of each row of a set, once.
ReversesAll(rs, ext, S) ==
  /\ IsSeq(ext)
  /\ \A k \in DOMAIN ext :
       /\ ext[k] \in RowType /\ ext[k].reverses \in S /\ Mirrors(rs[ext[k].reverses], ext[k])
       /\ ext[k].item \in Coils => ext[k].type = "IN"
  /\ \A i \in S : \E k \in DOMAIN ext : ext[k].reverses = i
  /\ \A k, l \in DOMAIN ext : ext[k].reverses = ext[l].reverses => k = l

Undone(i) == Undo(i, IF rows[i].item = Product THEN "ADJUST" ELSE "IN")
UndoneRows(S) == LET own == SetToSeq(S) IN [k \in DOMAIN own |-> Undone(own[k])]

LEMMA UndoneIs ==
  ASSUME ProductionAssumption, RowsTyped(rows), NEW i \in DOMAIN rows, NEW r, r = Undone(i)
  PROVE  /\ r \in RowType /\ r.reverses = i /\ Mirrors(rows[i], r)
         /\ r.item \in Coils => r.type = "IN"
<1>1. PICK t : t = IF rows[i].item = Product THEN "ADJUST" ELSE "IN"
  OBVIOUS
<1>2. r = Undo(i, t) /\ t \in {"IN", "OUT", "ADJUST"}
  BY <1>1 DEF Undone
<1>3. r \in RowType /\ Mirrors(rows[i], r) /\ r.type = t /\ r.reverses = i /\ r.item = rows[i].item
  BY <1>2, UndoIs
<1>4. rows[i].item \in Coils => t = "IN"
  BY <1>1 DEF ProductionAssumption
<1>. QED
  BY <1>3, <1>4

LEMMA UndoneRowsAre ==
  ASSUME ProductionAssumption, RowsTyped(rows), NEW S \in SUBSET DOMAIN rows, NEW ext, ext = UndoneRows(S)
  PROVE  ReversesAll(rows, ext, S)
<1>1. IsFiniteSet(S)
  BY RowsAre, FS_Subset
<1>2. PICK n \in Nat : n = Cardinality(S)
  BY <1>1, FS_CardinalityType
<1>3. PICK own : own = SetToSeq(S)
  OBVIOUS
<1>4. /\ DOMAIN own = 1..n /\ \A k \in 1..n : own[k] \in S
      /\ \A i \in S : \E k \in 1..n : own[k] = i
      /\ \A k, l \in 1..n : own[k] = own[l] => k = l
  BY <1>1, <1>2, <1>3, SetToSeqIs
<1>5. ext = [k \in 1..n |-> Undone(own[k])]
  BY <1>3, <1>4 DEF UndoneRows
<1>6. IsSeq(ext) /\ DOMAIN ext = 1..n
  <2>1. ext = [k \in 1..n |-> ext[k]]
    BY <1>5
  <2>. QED
    BY <2>1, FunctionIsSeq
<1>7. ASSUME NEW k \in 1..n
      PROVE  /\ ext[k] \in RowType /\ ext[k].reverses = own[k] /\ Mirrors(rows[own[k]], ext[k])
             /\ ext[k].item \in Coils => ext[k].type = "IN"
  <2>1. PICK i \in S : i = own[k]
    BY <1>4
  <2>2. PICK r : r = Undone(i)
    OBVIOUS
  <2>3. ext[k] = r
    BY <1>5, <2>1, <2>2
  <2>4. /\ r \in RowType /\ r.reverses = i /\ Mirrors(rows[i], r)
        /\ r.item \in Coils => r.type = "IN"
    BY <2>2, UndoneIs
  <2>. QED
    BY <2>1, <2>3, <2>4
<1>. QED
  BY <1>4, <1>6, <1>7 DEF ReversesAll

\* The custody of the coils it takes back.
WithLive(m, o, r) ==
  [m EXCEPT ![o] = [c \in Coils |->
     IF ~GaveBack(m, o, c) THEN m[o][c]
     ELSE [m[o][c] EXCEPT !.state = "live", !.consumed = @ - r[c]]]]

LEMMA CellsLive ==
  ASSUME NEW m \in [Orders -> [Coils -> CellType]], NEW o \in Orders, NEW r \in [Coils -> Nat],
         \A c \in Coils : GaveBack(m, o, c) => r[c] <= m[o][c].consumed,
         NEW m2, m2 = WithLive(m, o, r)
  PROVE  /\ m2 \in [Orders -> [Coils -> CellType]]
         /\ \A p \in Orders : p # o => m2[p] = m[p]
         /\ \A c \in Coils : /\ ~GaveBack(m, o, c) => m2[o][c] = m[o][c]
                             /\ GaveBack(m, o, c) => /\ Has(m2, o, c)
                                                     /\ m2[o][c].assigned = m[o][c].assigned
                                                     /\ m2[o][c].consumed = m[o][c].consumed - r[c]
<1>. DEFINE Cell(c) == IF ~GaveBack(m, o, c) THEN m[o][c]
                       ELSE [m[o][c] EXCEPT !.state = "live", !.consumed = @ - r[c]]
<1>1. ASSUME NEW c \in Coils
      PROVE  /\ Cell(c) \in CellType
             /\ GaveBack(m, o, c) => /\ Cell(c).state = "live"
                                     /\ Cell(c).assigned = m[o][c].assigned
                                     /\ Cell(c).consumed = m[o][c].consumed - r[c]
  <2>1. PICK v \in CellType, n \in Nat : v = m[o][c] /\ n = r[c]
    OBVIOUS
  <2>2. CASE ~GaveBack(m, o, c)
    BY <2>1, <2>2
  <2>3. CASE GaveBack(m, o, c)
    <3>1. Cell(c) = [v EXCEPT !.state = "live", !.consumed = @ - n]
      BY <2>1, <2>3
    <3>2. Cell(c) = [state |-> "live", assigned |-> v.assigned, consumed |-> v.consumed - n]
      BY <3>1 DEF CellType
    <3>3. v.assigned \in Nat /\ v.consumed \in Nat /\ n <= v.consumed
      BY <2>1, <2>3 DEF CellType
    <3>4. v.consumed - n \in Nat
      BY <3>3
    <3>. HIDE DEF Cell
    <3>. QED
      BY <2>1, <3>2, <3>3, <3>4 DEF CellType
  <2>. QED
    BY <2>2, <2>3
<1>2. \A c \in Coils : m2[o][c] = Cell(c)
  BY DEF WithLive
<1>3. m2 = [m EXCEPT ![o] = [c \in Coils |-> Cell(c)]]
  BY DEF WithLive
<1>4. \A c \in Coils : ~GaveBack(m, o, c) => Cell(c) = m[o][c]
  OBVIOUS
<1>. HIDE DEF Cell
<1>5. m2 \in [Orders -> [Coils -> CellType]] /\ \A p \in Orders : p # o => m2[p] = m[p]
  BY <1>1, <1>3
<1>. QED
  BY <1>1, <1>2, <1>4, <1>5 DEF Has

WithReopening(ord, o) == [ord EXCEPT ![o].status = "IN_PROGRESS", ![o].rowsThen = 0]

LEMMA ReopeningIsSet ==
  ASSUME NEW ord \in [Orders -> OrderType], NEW o \in Orders, NEW ord2, ord2 = WithReopening(ord, o)
  PROVE  /\ ord2 \in [Orders -> OrderType]
         /\ ord2[o].status = "IN_PROGRESS" /\ ord2[o].rowsThen = 0
         /\ \A p \in Orders : p # o => ord2[p] = ord[p]
<1>1. PICK r \in OrderType : r = ord[o]
  OBVIOUS
<1>2. ord2[o] = [status |-> "IN_PROGRESS", rowsThen |-> 0, recosted |-> r.recosted]
  BY <1>1 DEF WithReopening, OrderType
<1>3. ord2[o] \in OrderType
  BY <1>2 DEF OrderType
<1>4. DOMAIN ord2 = Orders /\ ord2 = [p \in Orders |-> ord2[p]]
      /\ \A p \in Orders : p # o => ord2[p] = ord[p]
  BY DEF WithReopening
<1>. QED
  BY <1>2, <1>3, <1>4

\* Reversals leave fewer rows of closings, and none of the order.
LEMMA ClosingsReopen ==
  ASSUME NEW rs, NEW rt, NEW ext, RowsGo(rs, rt, ext), NEW ord, NEW ord2, NEW o \in Orders, NEW S,
         NEW x, Closings(rs, ord, x), ReversesAll(rs, ext, S), ClosingOf(rs, o, x) \subseteq S,
         \A i \in S : i # 0, \A p \in Orders : p # o => ord2[p] = ord[p]
  PROVE  Closings(rt, ord2, x)
<1>1. \A k \in DOMAIN ext : ext[k].reverses # 0
  BY DEF ReversesAll
<1>2. \A i \in Standing(rt) : i \in DOMAIN rs /\ i \in Standing(rs) /\ rt[i] = rs[i]
  <2>1. \A i \in Standing(rt) : i \in DOMAIN rs
    BY <1>1, Gone DEF Standing
  <2>. QED
    BY <2>1, Gone DEF Grows
<1>3. \A p : ClosingOf(rt, p, x) \subseteq ClosingOf(rs, p, x)
  BY <1>2 DEF ClosingOf, LiveOf
<1>4. ClosingOf(rt, o, x) = {}
  <2>1. SUFFICES ASSUME NEW i \in ClosingOf(rt, o, x) PROVE FALSE
    OBVIOUS
  <2>2. i \in S /\ i \in Standing(rt)
    BY <1>3 DEF ClosingOf, LiveOf
  <2>3. \E k \in DOMAIN ext : ext[k].reverses = i
    BY <2>2 DEF ReversesAll
  <2>. QED
    BY <1>2, <2>2, <2>3, Gone
<1>. QED
  BY <1>3, <1>4 DEF Closings

LEMMA ReopenStep ==
  ASSUME ProductionAssumption, IInv, NEW o \in Orders, Reopen(o)
  PROVE  IInv'
<1>1. /\ RowsTyped(rows) /\ Len(rows) \in Nat /\ Orderly(rows, order, mount) /\ FineRows(rows)
      /\ order \in [Orders -> OrderType] /\ mount \in [Orders -> [Coils -> CellType]]
      /\ closedBy \in [Coils -> CauseType]
      /\ raw \in [Orders -> PromiseType] /\ made \in [Orders -> PromiseType]
      /\ \A d \in Coils : CoilOK(rows, order, mount, closedBy[d], d)
      /\ \A p \in Orders : order[p].rowsThen \in 0..Len(rows)
      /\ \A p \in Orders : LineOK(rows, made[p], p)
      /\ Closings(rows, order, Product)
  BY InvIs
<1>2. PICK r : r = [c \in Coils |-> Returned(o, c)]
  OBVIOUS
<1>3. /\ order[o].status = "CLOSED" /\ CoilsFree(o) /\ CoilsOpen(o) /\ CoilsUntouched(o)
      /\ rows' = rows \o UndoneRows(LiveOwn(o))
      /\ order' = WithReopening(order, o)
      /\ closedBy' = Reopened(Back(o), ClosesAs(o))
      /\ raw' = raw /\ made' = made
  BY DEF Reopen, MayReopen, UndoneRows, Undone, WithReopening
<1>4. mount' = WithLive(mount, o, r)
  <2>1. mount' = [mount EXCEPT ![o] = [c \in Coils |->
                    IF c \notin Back(o) THEN mount[o][c]
                    ELSE [mount[o][c] EXCEPT !.state = "live", !.consumed = @ - Returned(o, c)]]]
    BY DEF Reopen
  <2>2. \A c \in Coils : (c \notin Back(o) <=> ~GaveBack(mount, o, c)) /\ Returned(o, c) = r[c]
    BY <1>2 DEF Back, GaveBack
  <2>3. [c \in Coils |->
           IF c \notin Back(o) THEN mount[o][c]
           ELSE [mount[o][c] EXCEPT !.state = "live", !.consumed = @ - Returned(o, c)]]
        = [c \in Coils |->
             IF ~GaveBack(mount, o, c) THEN mount[o][c]
             ELSE [mount[o][c] EXCEPT !.state = "live", !.consumed = @ - r[c]]]
    BY <2>2
  <2>. QED
    BY <2>1, <2>3 DEF WithLive
<1>5. PICK S : S = LiveOwn(o)
  OBVIOUS
<1>6. /\ \A i \in S : /\ i \in Standing(rows) /\ i \in DOMAIN rows /\ i # 0
                      /\ rows[i].ref = "CLOSE" /\ rows[i].owner = o
                      /\ i \in ClosingOf(rows, o, rows[i].item)
      /\ \A x : ClosingOf(rows, o, x) = {i \in S : rows[i].item = x}
      /\ S \in SUBSET DOMAIN rows
  <2>1. S = {i \in Standing(rows) : rows[i].ref = "CLOSE" /\ rows[i].owner = o}
    BY <1>5 DEF LiveOwn, OwnRows, LiveRow, Standing, Stands
  <2>2. \A x : ClosingOf(rows, o, x) = {i \in S : rows[i].item = x}
    BY <2>1 DEF ClosingOf, LiveOf
  <2>3. \A i \in S : i \in DOMAIN rows /\ i # 0
    BY <1>1, <2>1, RowsAre DEF Standing
  <2>. QED
    BY <2>1, <2>2, <2>3
<1>7. PICK ext : ext = UndoneRows(S)
  OBVIOUS
<1>8. ReversesAll(rows, ext, S)
  BY <1>1, <1>6, <1>7, UndoneRowsAre
<1>9. RowsGo(rows, rows', ext) /\ Grows(rows, rows')
  <2>1. IsSeq(ext) /\ \A k \in DOMAIN ext : Follows(rows, ext[k])
    BY <1>6, <1>8 DEF ReversesAll, Follows
  <2>2. rows' = rows \o ext
    BY <1>3, <1>5, <1>7
  <2>. QED
    BY <1>1, <2>1, <2>2, RowsJoin
<1>10. \A k \in DOMAIN ext : /\ ext[k].reverses # 0 /\ ext[k].reverses \in S
                             /\ ext[k].item = rows[ext[k].reverses].item
                             /\ ext[k].owner = o /\ ext[k].ref = "CLOSE"
  BY <1>6, <1>8 DEF ReversesAll, Mirrors
<1>11. ASSUME NEW c \in Coils
       PROVE  /\ r[c] = QtyOf(rows, ClosingOf(rows, o, c)) /\ r[c] \in Nat
              /\ r[c] <= mount[o][c].consumed
  <2>1. ClosingOf(rows, o, c) \in SUBSET UsedBy(rows, o, c) /\ UsedBy(rows, o, c) \in SUBSET DOMAIN rows
    BY UsedIsLive
  <2>2. r[c] = QtyOf(rows, ClosingOf(rows, o, c))
    BY <1>2, <1>5, <1>6 DEF Returned
  <2>3. mount[o][c].consumed = QtyOf(rows, UsedBy(rows, o, c))
    BY <1>1 DEF CoilOK, UsedUp
  <2>4. QtyOf(rows, ClosingOf(rows, o, c)) <= QtyOf(rows, UsedBy(rows, o, c))
    BY <1>1, <2>1, QtyLess
  <2>5. QtyOf(rows, ClosingOf(rows, o, c)) \in Nat
    BY <1>1, <2>1, QtyNat
  <2>. QED
    BY <2>2, <2>3, <2>4, <2>5
<1>12. /\ mount' \in [Orders -> [Coils -> CellType]]
       /\ \A p \in Orders : p # o => mount'[p] = mount[p]
       /\ \A c \in Coils : /\ ~GaveBack(mount, o, c) => mount'[o][c] = mount[o][c]
                           /\ GaveBack(mount, o, c) => /\ Has(mount', o, c)
                                                       /\ mount'[o][c].assigned = mount[o][c].assigned
                                                       /\ mount'[o][c].consumed = mount[o][c].consumed - r[c]
  <2>1. r \in [Coils -> Nat]
    BY <1>2, <1>11
  <2>2. mount \in [Orders -> [Coils -> CellType]]
    BY <1>1
  <2>. QED
    BY <1>4, <1>11, <2>1, <2>2, CellsLive
<1>13. /\ order' \in [Orders -> OrderType]
       /\ order'[o].status = "IN_PROGRESS" /\ order'[o].rowsThen = 0
       /\ \A p \in Orders : p # o => order'[p] = order[p]
  BY <1>1, <1>3, ReopeningIsSet
<1>14. Orderly(rows', order', mount')
  <2>1. \A p \in Orders : order'[p].rowsThen \in 0..Len(rows)
    BY <1>1, <1>13
  <2>. QED
    BY <1>1, <1>9, <1>12, <1>13, <2>1, OrderlyStays
<1>15. ASSUME NEW c \in Coils, ClosingOf(rows, o, c) = {} PROVE Rests(rows, rows', c)
  <2>1. \A k \in DOMAIN ext : ext[k].item # c
    BY <1>6, <1>10, <1>15
  <2>. QED
    BY <1>9, <2>1, RestsWhen
<1>16. ASSUME NEW c \in Coils PROVE ReopensRows(rows, rows', o, c)
  <2>1. CASE ClosingOf(rows, o, c) = {}
    BY <1>15, <2>1 DEF ReopensRows
  <2>2. CASE ClosingOf(rows, o, c) # {}
    <3>1. PICK i \in ClosingOf(rows, o, c) : TRUE
      BY <2>2
    <3>2. ClosingOf(rows, o, c) = {i}
      BY <1>1, <3>1 DEF CoilOK, Closings
    <3>3. i \in S /\ rows[i].item = c /\ i \in LiveOf(rows, c) /\ i \in DOMAIN rows
      BY <1>6, <3>1 DEF ClosingOf
    <3>4. PICK k \in DOMAIN ext : ext[k].reverses = i
      BY <1>8, <3>3 DEF ReversesAll
    <3>5. ext[k].item = c /\ ext[k].type = "IN"
      BY <1>8, <1>10, <3>3, <3>4 DEF ReversesAll
    <3>6. ASSUME NEW l \in DOMAIN ext, ext[l].item = c PROVE l = k
      <4>1. ext[l].reverses \in ClosingOf(rows, o, c)
        BY <1>6, <1>10, <3>6
      <4>. QED
        BY <1>8, <3>2, <3>4, <4>1 DEF ReversesAll
    <3>7. PICK j \in DOMAIN rows' : Gives(rows, rows', c, i, j)
      BY <1>9, <3>3, <3>4, <3>5, <3>6, GivesWhen
    <3>. QED
      BY <3>2, <3>3, <3>7 DEF ReopensRows
  <2>. QED
    BY <2>1, <2>2
<1>17. ASSUME NEW d \in Coils PROVE CoilOK(rows', order', mount', closedBy'[d], d)
  <2>1. CASE GaveBack(mount, o, d)
    <3>1. d \in Back(o)
      BY <2>1 DEF Back, GaveBack
    <3>2. closedBy'[d] = Open /\ closedBy[d] \in {Open, ClosesAs(o)} /\ Free(mount, d)
      BY <1>3, <3>1 DEF CoilsOpen, CoilsFree, Reopened
    <3>3. ASSUME NEW j \in LiveOf(rows, d) PROVE j <= LastOf(rows, order[o].rowsThen, o, d)
      <4>1. j \in DOMAIN rows /\ rows[j].item = d /\ LiveRow(j)
        BY DEF LiveOf, Standing, Stands, LiveRow
      <4>2. LastOwn(o, d) = LastOf(rows, order[o].rowsThen, o, d)
        <5>1. {i \in OwnRows(o) : rows[i].item = d} = ClosingRows(rows, o, d)
          BY DEF OwnRows, ClosingRows
        <5>. QED
          BY <5>1 DEF LastOwn, LastOf
      <4>. QED
        BY <1>3, <3>1, <4>1, <4>2 DEF CoilsUntouched
    <3>4. OthersSame(order, order', mount, mount', o, d)
      BY <1>12, <1>13 DEF OthersSame
    <3>5. Going(order', o)
      BY <1>13 DEF Going
    <3>6. /\ Has(mount', o, d) /\ mount'[o][d].assigned = mount[o][d].assigned
          /\ mount'[o][d].consumed = mount[o][d].consumed - r[d]
          /\ r[d] = QtyOf(rows, ClosingOf(rows, o, d))
          /\ CoilOK(rows, order, mount, closedBy[d], d) /\ Orderly(rows, order, mount)
      BY <1>1, <1>11, <1>12, <2>1
    <3>7. CoilOK(rows', order', mount', Open, d)
      BY <1>14, <1>16, <2>1, <3>2, <3>3, <3>4, <3>5, <3>6, CoilReopens
    <3>. QED
      BY <3>2, <3>7
  <2>2. CASE ~GaveBack(mount, o, d)
    <3>1. ~Involved(mount, o, d)
      <4>1. ~Has(mount, o, d)
        BY <1>1, <1>3 DEF CoilOK, Custody, Going
      <4>. QED
        BY <1>1, <2>2, <4>1, CellsAre
    <3>2. ClosingOf(rows, o, d) = {}
      BY <1>1, <2>2 DEF CoilOK, ClosedWith
    <3>3. Rests(rows, rows', d)
      BY <1>15, <3>2
    <3>4. SameOrders(order, order', mount, mount', d)
      BY <1>12, <1>13, <2>2, <3>1 DEF SameOrders, Going
    <3>5. CoilOK(rows', order', mount', closedBy[d], d)
      BY <1>1, <1>14, <3>3, <3>4, CoilRests
    <3>6. closedBy'[d] = closedBy[d]
      <4>1. d \notin Back(o)
        BY <2>2 DEF Back, GaveBack
      <4>. QED
        BY <1>3, <4>1 DEF Reopened
    <3>. QED
      BY <3>5, <3>6
  <2>. QED
    BY <2>1, <2>2
<1>18. Closings(rows', order', Product)
  <2>1. ClosingOf(rows, o, Product) \subseteq S /\ \A i \in S : i # 0
    BY <1>6
  <2>2. Closings(rows, order, Product)
    BY <1>1
  <2>3. \A p \in Orders : p # o => order'[p] = order[p]
    BY <1>13
  <2>. QED
    BY <1>8, <1>9, <2>1, <2>2, <2>3, ClosingsReopen
<1>19. ASSUME NEW p \in Orders PROVE LineOK(rows', made'[p], p)
  <2>1. \A k \in DOMAIN ext : ext[k].owner = p => ext[k].ref \notin {"REPORT", "SALE"}
    BY <1>10
  <2>2. LineOK(rows', made[p], p)
    BY <1>1, <1>9, <2>1, LineAlone
  <2>. QED
    BY <1>3, <2>2
<1>20. FineRows(rows')
  BY <1>1, <1>9, <1>10, FineStays
<1>21. closedBy' \in [Coils -> CauseType]
  BY <1>1, <1>3 DEF Reopened, Open, Cause, CauseType
<1>22. TypeInv'
  BY <1>1, <1>3, <1>14, <1>21 DEF TypeInv
<1>. QED
  BY <1>17, <1>18, <1>19, <1>20, <1>22 DEF IInv

-----------------------------------------------------------------------------
(* The invariant holds.                                                     *)

LEMMA NoRows ==
  ASSUME ProductionAssumption, NEW rs, rs = <<>>
  PROVE  /\ RowsTyped(rs) /\ Len(rs) = 0 /\ Standing(rs) = {}
         /\ \A x : LiveOf(rs, x) = {} /\ \A p : UsedBy(rs, p, x) = {} /\ ClosingOf(rs, p, x) = {}
         /\ \A p : ReportsOf(rs, p) = {} /\ SalesOf(rs, p) = {}
         /\ \A c \in Coils : Stock(rs, c) = Weight
<1>1. RowsTyped(rs) /\ Len(rs) = 0 /\ DOMAIN rs = {}
  BY DEF RowsTyped
<1>2. Standing(rs) = {}
  BY <1>1 DEF Standing
<1>3. \A x : LiveOf(rs, x) = {} /\ \A p : UsedBy(rs, p, x) = {} /\ ClosingOf(rs, p, x) = {}
  BY <1>2 DEF LiveOf, UsedBy, ClosingOf
<1>4. \A p : ReportsOf(rs, p) = {} /\ SalesOf(rs, p) = {}
  BY <1>2 DEF ReportsOf, SalesOf, OutsOf
<1>5. ASSUME NEW c \in Coils PROVE Stock(rs, c) = Weight
  <2>1. RowsOf(rs, c, "IN") = {} /\ RowsOf(rs, c, "OUT") = {}
    BY <1>1 DEF RowsOf
  <2>2. QtyOf(rs, {}) = 0
    BY QtyNone
  <2>3. Stock(rs, c) = Weight + QtyOf(rs, RowsOf(rs, c, "IN")) - QtyOf(rs, RowsOf(rs, c, "OUT"))
    BY StockIs
  <2>4. QtyOf(rs, RowsOf(rs, c, "IN")) = 0 /\ QtyOf(rs, RowsOf(rs, c, "OUT")) = 0
    BY <2>1, <2>2
  <2>5. Weight \in Nat /\ Weight + 0 - 0 = Weight
    BY DEF ProductionAssumption
  <2>. QED
    BY <2>3, <2>4, <2>5
<1>. QED
  BY <1>1, <1>2, <1>3, <1>4, <1>5

LEMMA InitInv ==
  ASSUME ProductionAssumption, Init
  PROVE  IInv
<1>1. /\ RowsTyped(rows) /\ Len(rows) = 0 /\ Standing(rows) = {}
      /\ \A x : LiveOf(rows, x) = {} /\ \A p : UsedBy(rows, p, x) = {} /\ ClosingOf(rows, p, x) = {}
      /\ \A p : ReportsOf(rows, p) = {} /\ SalesOf(rows, p) = {}
      /\ \A c \in Coils : Stock(rows, c) = Weight
  BY NoRows DEF Init
<1>2. QtyOf(rows, {}) = 0
  BY QtyNone
<1>3. /\ order \in [Orders -> OrderType] /\ \A o \in Orders : order[o].rowsThen = 0
      /\ \A o \in Orders : order[o].status = "DRAFT"
  BY DEF Init, OrderType
<1>4. /\ mount \in [Orders -> [Coils -> CellType]]
      /\ \A o \in Orders, c \in Coils :
           /\ mount[o][c] = NotMounted /\ mount[o][c].consumed = 0
           /\ ~Has(mount, o, c) /\ ~GaveBack(mount, o, c) /\ ~Involved(mount, o, c)
  BY DEF Init, CellType, NotMounted, Has, GaveBack, Involved
<1>5. /\ closedBy \in [Coils -> CauseType] /\ \A c \in Coils : closedBy[c] = Open
      /\ Open.order = Nobody /\ Open \in CauseType
  BY DEF Init, CauseType, Open, Cause
<1>6. raw \in [Orders -> PromiseType] /\ made \in [Orders -> PromiseType]
  BY DEF Init, PromiseType, Promise, NoPromise, ProductionAssumption
<1>7. \A o \in Orders : made[o].qty = 0 /\ made[o].status = "NONE"
  BY DEF Init, Promise, NoPromise
<1>8. Orderly(rows, order, mount)
  BY <1>1, <1>3, <1>4 DEF Orderly
<1>9. \A x : Closings(rows, order, x)
  BY <1>1 DEF Closings
<1>10. ASSUME NEW c \in Coils PROVE CoilOK(rows, order, mount, closedBy[c], c)
  <2>1. Custody(order, mount, closedBy[c], c)
    BY <1>4 DEF Custody
  <2>2. UsedUp(rows, mount, c)
    BY <1>1, <1>2, <1>4 DEF UsedUp
  <2>3. InCoil(rows, mount, c)
    <3>1. Stock(rows, c) = Weight /\ QtyOf(rows, LiveOf(rows, c)) = 0 /\ Weight \in Nat
      BY <1>1, <1>2 DEF ProductionAssumption
    <3>. QED
      BY <1>4, <3>1 DEF InCoil
  <2>4. LeftThen(rows, order, mount, c)
    BY <1>4 DEF LeftThen
  <2>5. Ends(rows, mount, closedBy[c], c)
    <3>1. Stock(rows, c) # 0
      BY <1>1 DEF ProductionAssumption
    <3>. QED
      BY <1>5, <3>1 DEF Ends
  <2>6. ClosedWith(rows, mount, c)
    BY <1>1 DEF ClosedWith
  <2>7. Later(rows, order, mount, closedBy[c], c)
    BY <1>4 DEF Later
  <2>8. ScrapLater(order, mount, closedBy[c], c)
    BY <1>4 DEF ScrapLater
  <2>. QED
    BY <1>5, <1>9, <2>1, <2>2, <2>3, <2>4, <2>5, <2>6, <2>7, <2>8 DEF CoilOK
<1>11. ASSUME NEW o \in Orders PROVE LineOK(rows, made[o], o)
  <2>1. Entries({}) = {}
    BY DEF Entries
  <2>2. made[o].qty <= QtyOf(rows, Entries(ReportsOf(rows, o))) - QtyOf(rows, SalesOf(rows, o))
    <3>1. ReportsOf(rows, o) = {} /\ SalesOf(rows, o) = {} /\ made[o].qty = 0
      BY <1>1, <1>7
    <3>2. QtyOf(rows, Entries(ReportsOf(rows, o))) = 0 /\ QtyOf(rows, SalesOf(rows, o)) = 0
      BY <1>2, <2>1, <3>1
    <3>. QED
      BY <3>1, <3>2
  <2>3. Ahead(rows, ReportsOf(rows, o), SalesOf(rows, o))
    BY <1>1 DEF Ahead
  <2>. QED
    BY <1>6, <1>7, <2>2, <2>3 DEF LineOK
<1>12. FineRows(rows)
  BY <1>1 DEF FineRows
<1>. QED
  BY <1>5, <1>6, <1>8, <1>9, <1>10, <1>11, <1>12 DEF IInv, TypeInv

LEMMA NextInv ==
  ASSUME ProductionAssumption, IInv, [Next]_vars
  PROVE  IInv'
<1>1. ASSUME NEW o \in Orders, NEW c \in Coils, MountCoil(o, c) PROVE IInv'
  BY <1>1, MountCoilStep
<1>2. ASSUME NEW o \in Orders, NEW c \in Coils, ReleaseCoil(o, c) PROVE IInv'
  BY <1>2, ReleaseCoilStep
<1>3. ASSUME NEW o \in Orders, NEW c \in Coils, Report(o, c) PROVE IInv'
  BY <1>3, ReportStep
<1>4. ASSUME NEW o \in Orders, ReverseReport(o) PROVE IInv'
  BY <1>4, ReverseReportStep
<1>5. ASSUME NEW o \in Orders, Close(o) PROVE IInv'
  BY <1>5, CloseStep
<1>6. ASSUME NEW o \in Orders, Reopen(o) PROVE IInv'
  BY <1>6, ReopenStep
<1>7. ASSUME NEW o \in Orders, Cancel(o) PROVE IInv'
  BY <1>7, CancelStep
<1>8. ASSUME NEW o \in Orders, Dispatch(o) PROVE IInv'
  BY <1>8, DispatchStep
<1>9. ASSUME NEW o \in Orders, ReverseDispatch(o) PROVE IInv'
  BY <1>9, ReverseDispatchStep
<1>10. ASSUME NEW c \in Coils, Scrap(c) PROVE IInv'
  BY <1>10, ScrapStep
<1>11. ASSUME NEW c \in Coils, CancelScrap(c) PROVE IInv'
  BY <1>11, CancelScrapStep
<1>12. CASE UNCHANGED vars
  BY <1>12 DEF vars, IInv, TypeInv
<1>. QED
  BY <1>1, <1>2, <1>3, <1>4, <1>5, <1>6, <1>7, <1>8, <1>9, <1>10, <1>11, <1>12 DEF Next

\* Whatever the orders, the coils and the kilos, and in whatever order they are mounted,
\* reported, closed, undone, scrapped and dispatched, every reachable state satisfies
\* the invariant: custody, the kardex, what ended each coil and the promises agree.
THEOREM InvariantHolds ==
  ASSUME ProductionAssumption
  PROVE  Spec => []IInv
<1>1. Init => IInv
  BY InitInv
<1>2. IInv /\ [Next]_vars => IInv'
  BY NextInv
<1>. QED
  BY <1>1, <1>2, PTL DEF Spec

-----------------------------------------------------------------------------
(* What it says of the properties of the model.                             *)

LEMMA TypesFollow ==
  ASSUME ProductionAssumption, IInv
  PROVE  TypeOK
<1>1. /\ RowsTyped(rows) /\ order \in [Orders -> OrderType] /\ mount \in [Orders -> [Coils -> CellType]]
      /\ raw \in [Orders -> PromiseType] /\ made \in [Orders -> PromiseType]
      /\ \A o \in Orders : order[o].rowsThen \in 0..Len(rows)
  BY InvIs
<1>2. ASSUME NEW o \in Orders
      PROVE  /\ order[o].status \in {"DRAFT", "IN_PROGRESS", "CLOSED", "CANCELLED"}
             /\ order[o].recosted \in BOOLEAN
             /\ raw[o].qty \in Nat /\ made[o].qty \in Nat
             /\ \A c \in Coils : mount[o][c].assigned \in Nat /\ mount[o][c].consumed \in Nat
  <2>1. order[o] \in OrderType /\ raw[o] \in PromiseType /\ made[o] \in PromiseType
    BY <1>1
  <2>2. \A c \in Coils : mount[o][c] \in CellType
    BY <1>1
  <2>. QED
    BY <2>1, <2>2 DEF OrderType, PromiseType, CellType
<1>3. ASSUME NEW i \in DOMAIN rows PROVE rows[i].qty \in Nat \ {0} /\ rows[i].reverses \in 0..(i - 1)
  <2>1. rows[i] \in RowType /\ i \in Nat /\ rows[i].reverses < i
    BY <1>1, RowsAre DEF RowsTyped
  <2>. QED
    BY <2>1 DEF RowType
<1>. QED
  BY <1>1, <1>2, <1>3 DEF TypeOK

LEMMA CustodianFollows ==
  ASSUME ProductionAssumption, IInv
  PROVE  OneCustodian
<1>1. ASSUME NEW c \in Coils PROVE Cardinality({o \in Orders : IsLive(o) /\ Has(mount, o, c)}) <= 1
  <2>1. PICK S : S = {o \in Orders : IsLive(o) /\ Has(mount, o, c)}
    OBVIOUS
  <2>2. \A o, p \in S : o = p
    BY <2>1, InvIs DEF CoilOK, Custody
  <2>3. CASE S = {}
    <3>1. Cardinality(S) = 0
      BY <2>3, FS_EmptySet
    <3>. QED
      BY <2>1, <3>1
  <2>4. CASE S # {}
    <3>1. PICK o \in S : TRUE
      BY <2>4
    <3>2. S = {o}
      BY <2>2, <3>1
    <3>3. Cardinality(S) = 1
      BY <3>2, FS_Singleton
    <3>. QED
      BY <2>1, <3>3
  <2>. QED
    BY <2>3, <2>4
<1>. QED
  BY <1>1 DEF OneCustodian

LEMMA HeldFollows ==
  ASSUME ProductionAssumption, IInv
  PROVE  HeldIsThere
<1>1. ASSUME NEW o \in Orders, NEW c \in Coils, Has(mount, o, c)
      PROVE  Left(o, c) >= 0 /\ Left(o, c) <= Stock(rows, c)
  <2>1. InCoil(rows, mount, c)
    BY InvIs DEF CoilOK
  <2>2. Involved(mount, o, c)
    BY <1>1 DEF Has, Involved
  <2>. QED
    BY <1>1, <2>1, <2>2 DEF InCoil, Left, LeftOf
<1>. QED
  BY <1>1 DEF HeldIsThere

LEMMA ConsumedFollows ==
  ASSUME ProductionAssumption, IInv
  PROVE  ConsumedIsOut
<1>1. ASSUME NEW o \in Orders, NEW c \in Coils
      PROVE  mount[o][c].consumed =
               QtyOf(rows, {i \in DOMAIN rows : /\ rows[i].item = c /\ rows[i].owner = o
                                                /\ rows[i].ref \in {"REPORT", "CLOSE"} /\ LiveRow(i)})
  <2>1. UsedBy(rows, o, c) = {i \in DOMAIN rows : /\ rows[i].item = c /\ rows[i].owner = o
                                                  /\ rows[i].ref \in {"REPORT", "CLOSE"} /\ LiveRow(i)}
    BY DEF UsedBy, LiveOf, Standing, Stands, LiveRow
  <2>2. mount[o][c].consumed = QtyOf(rows, UsedBy(rows, o, c))
    BY InvIs DEF CoilOK, UsedUp
  <2>. QED
    BY <2>1, <2>2
<1>. QED
  BY <1>1 DEF ConsumedIsOut

LEMMA TerminatedFollows ==
  ASSUME ProductionAssumption, IInv
  PROVE  EmptyIsTerminated
<1>1. ASSUME NEW c \in Coils, closedBy[c] = Open, Stock(rows, c) = 0 PROVE ~Free(mount, c)
  BY <1>1, InvIs DEF CoilOK, Ends
<1>2. ASSUME NEW c \in Coils, closedBy[c] # Open, closedBy[c].order = Nobody
      PROVE  LiveRow(closedBy[c].row)
  <2>1. closedBy[c].row \in LiveOf(rows, c)
    BY <1>2, InvIs DEF CoilOK, Ends
  <2>. QED
    BY <2>1 DEF LiveOf, Standing, Stands, LiveRow
<1>3. ASSUME NEW c \in Coils, closedBy[c].order # Nobody
      PROVE  order[closedBy[c].order].status = "CLOSED"
  <2>1. closedBy[c] \in CauseType /\ CoilOK(rows, order, mount, closedBy[c], c)
    BY InvIs
  <2>2. closedBy[c].order \in Orders
    BY <1>3, <2>1 DEF CauseType
  <2>3. GaveBack(mount, closedBy[c].order, c)
    BY <1>3, <2>1 DEF CoilOK, Ends
  <2>. QED
    BY <2>1, <2>2, <2>3 DEF CoilOK, Custody
<1>. QED
  BY <1>1, <1>2, <1>3 DEF EmptyIsTerminated

LEMMA PromisedFollows ==
  ASSUME ProductionAssumption, IInv
  PROVE  PromisedIsProduced
BY InvIs DEF PromisedIsProduced, LineOK

\* What the reopening of an order asks, of a closing that nobody built on.
LEMMA UntouchedReopens ==
  ASSUME ProductionAssumption, IInv, NEW o \in Orders, order[o].status = "CLOSED",
         ~order[o].recosted, Untouched(o)
  PROVE  MayReopen(o)
<1>1. /\ RowsTyped(rows) /\ \A d \in Coils : CoilOK(rows, order, mount, closedBy[d], d)
      /\ Closings(rows, order, Product) /\ order[o].rowsThen \in 0..Len(rows)
      /\ Len(rows) \in Nat
  BY InvIs
<1>2. /\ OwnRows(o) = LiveOwn(o)
      /\ \A j \in DOMAIN rows : (j > order[o].rowsThen /\ LiveRow(j)) => j \in OwnRows(o)
      /\ \A c \in Back(o) : Free(mount, c)
  BY DEF Untouched
<1>3. \A i : i \in LiveOwn(o) <=> (i \in Standing(rows) /\ rows[i].ref = "CLOSE" /\ rows[i].owner = o)
  BY DEF LiveOwn, OwnRows, LiveRow, Standing, Stands
<1>4. \A x : ClosingOf(rows, o, x) = {i \in LiveOwn(o) : rows[i].item = x}
  BY <1>3 DEF ClosingOf, LiveOf
<1>5. \A x : ClosingRows(rows, o, x) = {i \in OwnRows(o) : rows[i].item = x}
  BY DEF ClosingRows, OwnRows
<1>6. \A j : j \in Standing(rows) <=> (j \in DOMAIN rows /\ LiveRow(j))
  BY DEF Standing, Stands, LiveRow
<1>7. ASSUME NEW i \in LiveOwn(o), rows[i].item = Product PROVE NothingLeftAfter(i)
  <2>1. ASSUME NEW j \in DOMAIN rows, j > i, rows[j].item = Product, LiveRow(j) PROVE FALSE
    <3>1. i \in ClosingOf(rows, o, Product)
      BY <1>4, <1>7
    <3>2. i > order[o].rowsThen /\ i \in DOMAIN rows
      BY <1>1, <3>1 DEF Closings, ClosingOf, LiveOf, Standing
    <3>3. i \in Nat /\ j \in Nat /\ order[o].rowsThen \in Nat
      BY <1>1, <3>2, RowsAre
    <3>4. j > order[o].rowsThen /\ i # j
      BY <2>1, <3>2, <3>3
    <3>5. j \in ClosingOf(rows, o, Product)
      BY <1>2, <1>4, <2>1, <3>4
    <3>. QED
      BY <1>1, <3>1, <3>4, <3>5 DEF Closings
  <2>. QED
    BY <2>1 DEF NothingLeftAfter
<1>8. ASSUME NEW c \in Back(o) PROVE Reopened(Back(o), ClosesAs(o))[c] = Open
  <2>1. c \in Coils /\ GaveBack(mount, o, c)
    BY DEF Back, GaveBack
  <2>2. PICK b : b = closedBy[c]
    OBVIOUS
  <2>3. b \in CauseType /\ CoilOK(rows, order, mount, b, c)
    BY <1>1, <2>1, <2>2 DEF CoilOK
  <2>4. b = Open \/ b = ClosesAs(o)
    <3>1. CASE b # Open /\ b.order = Nobody
      <4>1. b.row \in Standing(rows) /\ rows[b.row].ref = "SCRAP"
        BY <2>3, <3>1 DEF CoilOK, Ends, LiveOf
      <4>2. b.row > order[o].rowsThen
        BY <2>1, <2>3, <3>1 DEF CoilOK, ScrapLater
      <4>3. b.row \in LiveOwn(o)
        BY <1>2, <1>6, <4>1, <4>2
      <4>. QED
        BY <1>3, <4>1, <4>3
    <3>2. CASE b.order # Nobody /\ b.order # o
      <4>1. PICK p \in Orders : p = b.order
        BY <2>3, <3>2 DEF CauseType
      <4>2. b = ClosesAs(p) /\ o # p
        BY <2>3, <3>2, <4>1 DEF CoilOK, Ends
      <4>3. PICK i \in Since(rows, order, o, p, c) : TRUE
        BY <2>1, <2>3, <4>2 DEF CoilOK, Later
      <4>4. i \in Standing(rows) /\ rows[i].owner = p /\ i > order[o].rowsThen
        BY <4>3 DEF Since, UsedBy, LiveOf
      <4>5. i \in LiveOwn(o)
        BY <1>2, <1>6, <4>4
      <4>. QED
        BY <1>3, <4>2, <4>4, <4>5
    <3>3. CASE b.order # Nobody /\ b.order = o
      BY <2>3, <3>3 DEF CoilOK, Ends
    <3>. QED
      BY <3>1, <3>2, <3>3
  <2>. QED
    BY <2>1, <2>2, <2>4 DEF Reopened
<1>9. ASSUME NEW c \in Back(o), NEW j \in DOMAIN rows, rows[j].item = c, LiveRow(j)
      PROVE  j <= LastOwn(o, c)
  <2>1. c \in Coils
    BY DEF Back
  <2>2. LastOwn(o, c) = LastOf(rows, order[o].rowsThen, o, c)
    BY <1>5 DEF LastOwn, LastOf
  <2>3. /\ LastOwn(o, c) \in 0..Len(rows)
        /\ \A i \in ClosingRows(rows, o, c) : i <= LastOwn(o, c)
    BY <1>1, <2>2, LastIs
  <2>4. CASE j > order[o].rowsThen
    <3>1. j \in ClosingRows(rows, o, c)
      BY <1>2, <1>5, <1>9, <2>4
    <3>. QED
      BY <2>3, <3>1
  <2>5. CASE ~(j > order[o].rowsThen)
    <3>1. j \in Nat /\ order[o].rowsThen \in Nat /\ j <= order[o].rowsThen
      BY <1>1, <2>5, RowsAre
    <3>2. CASE ClosingRows(rows, o, c) = {}
      BY <2>2, <3>1, <3>2 DEF LastOf
    <3>3. CASE ClosingRows(rows, o, c) # {}
      <4>1. PICK i \in ClosingRows(rows, o, c) : TRUE
        BY <3>3
      <4>2. i \in ClosingOf(rows, o, c)
        BY <1>2, <1>4, <1>5, <4>1
      <4>3. i > order[o].rowsThen /\ i \in DOMAIN rows
        BY <1>1, <2>1, <4>1, <4>2 DEF CoilOK, Closings, ClosingRows
      <4>4. i \in Nat /\ i <= LastOwn(o, c) /\ LastOwn(o, c) \in Nat
        BY <1>1, <2>3, <4>1, <4>3, RowsAre
      <4>. QED
        BY <3>1, <4>3, <4>4
    <3>. QED
      BY <3>2, <3>3
  <2>. QED
    BY <2>4, <2>5
<1>10. CoilsFree(o) /\ CoilsOpen(o) /\ CoilsUntouched(o)
  BY <1>2, <1>8, <1>9 DEF CoilsFree, CoilsOpen, CoilsUntouched
<1>. QED
  BY <1>7, <1>10 DEF MayReopen

LEMMA ClosingFollows ==
  ASSUME ProductionAssumption, IInv
  PROVE  ClosingCanBeUndone
BY UntouchedReopens DEF ClosingCanBeUndone

-----------------------------------------------------------------------------
(* The theorems.                                                            *)

\* Every state of the orders, their custody, their promises and the rows is typed.
THEOREM ProductionTyped ==
  ASSUME ProductionAssumption
  PROVE  Spec => []TypeOK
<1>1. IInv => TypeOK
  BY TypesFollow
<1>. QED
  BY <1>1, InvariantHolds, PTL

\* No coil is ever with two orders that go on: neither a mounting nor the reopening of
\* an order gives one a coil another has (D-060, assertStripsNotAssigned).
THEOREM CoilsHaveOneCustodian ==
  ASSUME ProductionAssumption
  PROVE  Spec => []OneCustodian
<1>1. IInv => OneCustodian
  BY CustodianFollows
<1>. QED
  BY <1>1, InvariantHolds, PTL

\* The kilos an order has of a coil and has not used are in it: no report finds less
\* than what is mounted, also after a reopening (D-060).
THEOREM HeldKilosAreThere ==
  ASSUME ProductionAssumption
  PROVE  Spec => []HeldIsThere
<1>1. IInv => HeldIsThere
  BY HeldFollows
<1>. QED
  BY <1>1, InvariantHolds, PTL

\* What an order says it used of a coil is what the rows of its reports and of its
\* closing that stand took from the coil (D-089).
THEOREM ConsumptionIsInTheKardex ==
  ASSUME ProductionAssumption
  PROVE  Spec => []ConsumedIsOut
<1>1. IInv => ConsumedIsOut
  BY ConsumedFollows
<1>. QED
  BY <1>1, InvariantHolds, PTL

\* A coil without kilos that nobody has is terminated, and what terminated a coil still
\* stands, so that undoing it reopens the coil (D-360).
THEOREM EmptyCoilsAreTerminated ==
  ASSUME ProductionAssumption
  PROVE  Spec => []EmptyIsTerminated
<1>1. IInv => EmptyIsTerminated
  BY TerminatedFollows
<1>. QED
  BY <1>1, InvariantHolds, PTL

\* The metres promised to a line were made for it and have not been dispatched (D-088).
THEOREM PromisesAreProduced ==
  ASSUME ProductionAssumption
  PROVE  Spec => []PromisedIsProduced
<1>1. IInv => PromisedIsProduced
  BY PromisedFollows
<1>. QED
  BY <1>1, InvariantHolds, PTL

\* A closing that nobody built on satisfies every guard of its reopening (D-360).
THEOREM ClosingsCanBeUndone ==
  ASSUME ProductionAssumption
  PROVE  Spec => []ClosingCanBeUndone
<1>1. IInv => ClosingCanBeUndone
  BY ClosingFollows
<1>. QED
  BY <1>1, InvariantHolds, PTL

=============================================================================
