---------------------------- MODULE KardexProofs ----------------------------
(***************************************************************************)
(* The quantities of an item, Kardex.tla, for any days, quantities, costs  *)
(* and limits, and any operations in any order of dates: the balance has   *)
(* what the kardex adds up to, no day is left below zero, and every        *)
(* operation is one of those of DatedStock.  Of its costs, a row and its   *)
(* reversal stay together.                                                 *)
(***************************************************************************)
EXTENDS Kardex, Lemmas

-----------------------------------------------------------------------------
(* The quantity of a kardex.                                                *)

QtyIn(rs) == [i \in DOMAIN rs |-> Signed(rs[i])]

IsSumOf(rs, S, g) ==
  g = [s \in SUBSET S |-> IF s = {} THEN 0 ELSE Signed(rs[Pick(s)]) + g[s \ {Pick(s)}]]

LEMMA SumOfUnfolds ==
  ASSUME NEW rs, NEW S
  PROVE  SumOf(rs, S) = (CHOOSE g : IsSumOf(rs, S, g))[S]
BY DEF SumOf, MapThenSumSet, MapThenFoldSet, IsSumOf, Pick

\* The sums of the engine are those of the lemmas.
LEMMA SumOfIs ==
  ASSUME NEW rs, NEW S \in SUBSET DOMAIN rs, IsFiniteSet(S)
  PROVE  SumOf(rs, S) = SumFunctionOnSet(QtyIn(rs), S)
<1> DEFINE f == QtyIn(rs)
<1>1. ASSUME NEW g PROVE IsSum(f, S, g) <=> IsSumOf(rs, S, g)
  <2>1. ASSUME NEW s \in SUBSET S
        PROVE  (IF s = {} THEN 0 ELSE f[Pick(s)] + g[s \ {Pick(s)}])
               = (IF s = {} THEN 0 ELSE Signed(rs[Pick(s)]) + g[s \ {Pick(s)}])
    <3>1. CASE s = {}
      BY <3>1
    <3>2. CASE s # {}
      <4>1. Pick(s) \in DOMAIN rs
        BY <3>2, PickIn
      <4>2. f[Pick(s)] = Signed(rs[Pick(s)])
        BY <4>1 DEF QtyIn
      <4>. QED
        BY <4>2
    <3>. QED
      BY <3>1, <3>2
  <2>2. [s \in SUBSET S |-> IF s = {} THEN 0 ELSE f[Pick(s)] + g[s \ {Pick(s)}]]
        = [s \in SUBSET S |-> IF s = {} THEN 0 ELSE Signed(rs[Pick(s)]) + g[s \ {Pick(s)}]]
    BY <2>1
  <2>. QED
    BY <2>2 DEF IsSum, IsSumOf
<1> DEFINE one == CHOOSE g : IsSum(f, S, g)
           two == CHOOSE g : IsSumOf(rs, S, g)
<1>2. \E g : IsSum(f, S, g)
  BY SumExists
<1>3. IsSum(f, S, one) /\ IsSumOf(rs, S, two)
  BY <1>1, <1>2
<1>4. IsSum(f, S, two)
  BY <1>1, <1>3
<1>5. one[S] = two[S]
  <2>1. S \in SUBSET S
    OBVIOUS
  <2> HIDE DEF one, two, f
  <2>. QED
    BY <1>3, <1>4, <2>1, SumIsOne
<1>. QED
  BY <1>5, SumOfUnfolds, SumUnfolds

-----------------------------------------------------------------------------
(* Rows.                                                                    *)

Fields == {"type", "ref", "qty", "day", "recorded", "effective", "recosted", "reverses", "returns"}

\* What a row is, as far as quantities go.
RowIs(r) ==
  /\ DOMAIN r = Fields
  /\ r.type \in {"IN", "OUT", "ADJUST"} /\ r.qty \in Nat \ {0} /\ r.day \in 1..MaxDay

\* It reverses a row before it that is not a reversal, nor reversed by another, and
\* with the opposite quantity.
Reverses(rs, j, i) ==
  /\ i \in DOMAIN rs /\ i < j /\ rs[i].reverses = 0
  /\ Signed(rs[j]) = -Signed(rs[i])

RowsAre(rs) ==
  /\ IsSeq(rs)
  /\ \A j \in DOMAIN rs : /\ RowIs(rs[j]) /\ rs[j].reverses \in Nat
                          /\ rs[j].reverses # 0 => Reverses(rs, j, rs[j].reverses)
  /\ \A j, k \in DOMAIN rs : (rs[j].reverses # 0 /\ rs[j].reverses = rs[k].reverses) => j = k

\* Two rows with the same quantity at the same place.
SameQty(r, s) ==
  r.type = s.type /\ r.qty = s.qty /\ r.day = s.day /\ r.reverses = s.reverses

LEMMA SignedIs ==
  ASSUME NEW r, RowIs(r) PROVE Signed(r) \in Int
BY DEF RowIs, Signed

LEMMA DomainIs ==
  ASSUME NEW rs, RowsAre(rs)
  PROVE  /\ Len(rs) \in Nat /\ DOMAIN rs = 1..Len(rs) /\ IsFiniteSet(DOMAIN rs)
         /\ \A i \in DOMAIN rs : i \in Nat /\ i # 0 /\ i <= Len(rs) /\ rs[i].day \in Nat
<1>1. Len(rs) \in Nat /\ DOMAIN rs = 1..Len(rs)
  BY SeqIs DEF RowsAre
<1>2. IsFiniteSet(1..Len(rs))
  BY <1>1, FS_Interval
<1>. QED
  BY <1>1, <1>2 DEF RowsAre, RowIs

\* The sums of a kardex, by their parts.
UpToDay(rs, S, d) == {i \in S : rs[i].day <= d}

LEMMA QtyInt ==
  ASSUME NEW rs, RowsAre(rs), NEW S \in SUBSET DOMAIN rs
  PROVE  IsFiniteSet(S) /\ (\A i \in S : QtyIn(rs)[i] = Signed(rs[i]) /\ QtyIn(rs)[i] \in Int)
<1>1. IsFiniteSet(S)
  BY DomainIs, FS_Subset
<1>. QED
  BY <1>1, SignedIs DEF RowsAre, QtyIn

LEMMA SumOfInt ==
  ASSUME NEW rs, RowsAre(rs), NEW S \in SUBSET DOMAIN rs
  PROVE  SumOf(rs, S) \in Int
<1>1. IsFiniteSet(S) /\ \A i \in S : QtyIn(rs)[i] \in Int
  BY QtyInt
<1>. QED
  BY <1>1, SumOfIs, SumInt

LEMMA SumOfTakes ==
  ASSUME NEW rs, RowsAre(rs), NEW S \in SUBSET DOMAIN rs, NEW i \in S
  PROVE  SumOf(rs, S) = Signed(rs[i]) + SumOf(rs, S \ {i})
<1>1. IsFiniteSet(S) /\ (\A j \in S : QtyIn(rs)[j] = Signed(rs[j]) /\ QtyIn(rs)[j] \in Int)
  BY QtyInt
<1>2. SumFunctionOnSet(QtyIn(rs), S) = QtyIn(rs)[i] + SumFunctionOnSet(QtyIn(rs), S \ {i})
  BY <1>1, SumTakes
<1>3. S \ {i} \in SUBSET DOMAIN rs /\ IsFiniteSet(S \ {i})
  BY <1>1, FS_Subset
<1>. QED
  BY <1>1, <1>2, <1>3, SumOfIs

LEMMA SumOfNone ==
  ASSUME NEW rs PROVE SumOf(rs, {}) = 0
<1>1. IsFiniteSet({})
  BY FS_EmptySet
<1>. QED
  BY <1>1, SumOfIs, SumEmpty

LEMMA SumOfSame ==
  ASSUME NEW rs, RowsAre(rs), NEW rt, RowsAre(rt), NEW S \in SUBSET DOMAIN rs,
         S \in SUBSET DOMAIN rt, \A i \in S : SameQty(rs[i], rt[i])
  PROVE  SumOf(rs, S) = SumOf(rt, S)
<1>1. IsFiniteSet(S) /\ \A j \in S : QtyIn(rs)[j] = Signed(rs[j])
  BY QtyInt
<1>2. \A j \in S : QtyIn(rt)[j] = Signed(rt[j])
  BY QtyInt
<1>3. \A j \in S : QtyIn(rs)[j] = QtyIn(rt)[j]
  BY <1>1, <1>2 DEF SameQty, Signed
<1>4. SumFunctionOnSet(QtyIn(rs), S) = SumFunctionOnSet(QtyIn(rt), S)
  BY <1>1, <1>3, SumSame
<1>. QED
  BY <1>1, <1>4, SumOfIs

-----------------------------------------------------------------------------
(* A row more, and rows whose cost changes.                                 *)

\* A row that may be written after some.
MayFollow(rs, r) ==
  /\ RowIs(r) /\ r.reverses \in Nat
  /\ r.reverses # 0 => /\ r.reverses \in DOMAIN rs /\ rs[r.reverses].reverses = 0
                       /\ Signed(r) = -Signed(rs[r.reverses])
                       /\ \A k \in DOMAIN rs : rs[k].reverses # r.reverses

\* The rows with one more, at place m.
GrownAt(rs, r, rt, m) ==
  /\ DOMAIN rt = DOMAIN rs \cup {m} /\ m \notin DOMAIN rs /\ \A i \in DOMAIN rs : i < m
  /\ rt[m] = r /\ \A i \in DOMAIN rs : rt[i] = rs[i]
Grown(rs, r, rt) == IsSeq(rt) /\ \E m \in Nat : GrownAt(rs, r, rt, m)

LEMMA RowAdded ==
  ASSUME NEW rs, RowsAre(rs), NEW r, NEW rt, rt = Append(rs, r)
  PROVE  Grown(rs, r, rt)
<1>1. PICK one : one = <<r>>
  OBVIOUS
<1>2. rt = rs \o one /\ IsSeq(one) /\ Len(one) = 1 /\ DOMAIN one = 1..1 /\ one[1] = r
  BY <1>1, Appended DEF RowsAre
<1>3. Joins(rt, rs, one)
  BY <1>2, Joined DEF RowsAre
<1>4. PICK n \in Nat : n = Len(rs) /\ DOMAIN rs = 1..n
  BY DomainIs
<1>5. IsSeq(rt) /\ Len(rt) = n + 1 /\ \A i \in DOMAIN rs : rt[i] = rs[i]
  BY <1>2, <1>3, <1>4 DEF Joins
<1>6. DOMAIN rt = 1..(n + 1)
  BY <1>5, SeqIs
<1>7. rt[n + 1] = r
  <2>1. 1 \in DOMAIN one
    BY <1>2
  <2>2. \E i \in DOMAIN rt \ DOMAIN rs : i = Len(rs) + 1 /\ rt[i] = one[1]
    BY <1>3, <2>1 DEF Joins
  <2>. QED
    BY <1>2, <1>4, <2>2
<1>8. 1..(n + 1) = 1..n \cup {n + 1} /\ n + 1 \notin 1..n
  OBVIOUS
<1>9. GrownAt(rs, r, rt, n + 1)
  BY <1>4, <1>5, <1>6, <1>7, <1>8 DEF GrownAt
<1>. QED
  BY <1>5, <1>9 DEF Grown

LEMMA RowsStayRows ==
  ASSUME NEW rs, RowsAre(rs), NEW r, MayFollow(rs, r), NEW rt, Grown(rs, r, rt)
  PROVE  RowsAre(rt)
<1>1. PICK m \in Nat : GrownAt(rs, r, rt, m)
  BY DEF Grown
<1>0. IsSeq(rt)
  BY DEF Grown
<1>2. ASSUME NEW j \in DOMAIN rt
      PROVE  /\ RowIs(rt[j]) /\ rt[j].reverses \in Nat
             /\ rt[j].reverses # 0 => Reverses(rt, j, rt[j].reverses)
  <2>1. CASE j \in DOMAIN rs
    <3>1. /\ RowIs(rs[j]) /\ rs[j].reverses \in Nat
          /\ rs[j].reverses # 0 => Reverses(rs, j, rs[j].reverses)
      BY <2>1 DEF RowsAre
    <3>. QED
      BY <1>1, <2>1, <3>1 DEF Reverses, GrownAt
  <2>2. CASE j = m
    <3>1. RowIs(r) /\ r.reverses \in Nat
      BY DEF MayFollow
    <3>2. ASSUME r.reverses # 0 PROVE Reverses(rt, m, r.reverses)
      <4>1. /\ r.reverses \in DOMAIN rs /\ rs[r.reverses].reverses = 0
            /\ Signed(r) = -Signed(rs[r.reverses])
        BY <3>2 DEF MayFollow
      <4>2. r.reverses < m /\ rt[r.reverses] = rs[r.reverses]
        BY <1>1, <4>1 DEF GrownAt
      <4>. QED
        BY <1>1, <4>1, <4>2 DEF Reverses, GrownAt
    <3>. QED
      BY <1>1, <2>2, <3>1, <3>2 DEF GrownAt
  <2>. QED
    BY <1>1, <2>1, <2>2 DEF GrownAt
<1>3. ASSUME NEW j \in DOMAIN rt, NEW k \in DOMAIN rt,
             rt[j].reverses # 0, rt[j].reverses = rt[k].reverses
      PROVE  j = k
  <2>1. CASE j \in DOMAIN rs /\ k \in DOMAIN rs
    BY <1>1, <1>3, <2>1 DEF RowsAre, GrownAt
  <2>2. CASE j = m /\ k \in DOMAIN rs
    BY <1>1, <1>3, <2>2 DEF MayFollow, GrownAt
  <2>3. CASE j \in DOMAIN rs /\ k = m
    BY <1>1, <1>3, <2>3 DEF MayFollow, GrownAt
  <2>. QED
    BY <1>1, <2>1, <2>2, <2>3 DEF GrownAt
<1>. QED
  BY <1>0, <1>2, <1>3 DEF RowsAre

\* What a row adds to a day.
FromDay(r, d) == IF r.day <= d THEN Signed(r) ELSE 0

LEMMA SumAdded ==
  ASSUME NEW rs, RowsAre(rs), NEW r, MayFollow(rs, r), NEW rt, Grown(rs, r, rt),
         NEW m, GrownAt(rs, r, rt, m), NEW S \in SUBSET DOMAIN rs
  PROVE  /\ SumOf(rs, S) \in Int /\ SumOf(rt, S) = SumOf(rs, S)
         /\ SumOf(rt, S \cup {m}) = SumOf(rs, S) + Signed(r)
<1>1. RowsAre(rt)
  BY RowsStayRows
<1>2. SumOf(rt, S) = SumOf(rs, S) /\ SumOf(rs, S) \in Int
  <2>1. S \in SUBSET DOMAIN rt /\ \A i \in S : SameQty(rs[i], rt[i])
    BY DEF SameQty, GrownAt
  <2>. QED
    BY <1>1, <2>1, SumOfSame, SumOfInt
<1>3. Signed(r) \in Int
  BY SignedIs DEF MayFollow
<1>4. PICK T : T = S \cup {m}
  OBVIOUS
<1>5. T \in SUBSET DOMAIN rt /\ m \in T /\ T \ {m} = S /\ rt[m] = r
  BY <1>4 DEF GrownAt
<1>6. SumOf(rt, T) = Signed(rt[m]) + SumOf(rt, T \ {m})
  BY <1>1, <1>5, SumOfTakes
<1>7. SumOf(rt, T) = Signed(r) + SumOf(rt, S)
  BY <1>5, <1>6
<1>8. SumOf(rt, T) = SumOf(rs, S) + Signed(r)
  BY <1>2, <1>3, <1>7
<1>. QED
  BY <1>2, <1>4, <1>8

LEMMA DaysAdded ==
  ASSUME NEW rs, RowsAre(rs), NEW r, MayFollow(rs, r), NEW rt, Grown(rs, r, rt), NEW d \in Nat
  PROVE  /\ Closing(rt, DOMAIN rt, d) = Closing(rs, DOMAIN rs, d) + FromDay(r, d)
         /\ SumOf(rt, DOMAIN rt) = SumOf(rs, DOMAIN rs) + Signed(r)
<1>1. PICK m \in Nat : GrownAt(rs, r, rt, m)
  BY DEF Grown
<1>2. SumOf(rt, DOMAIN rt) = SumOf(rs, DOMAIN rs) + Signed(r)
  <2>1. PICK S : S = DOMAIN rs
    OBVIOUS
  <2>2. S \in SUBSET DOMAIN rs /\ DOMAIN rt = S \cup {m}
    BY <1>1, <2>1 DEF GrownAt
  <2>3. SumOf(rt, S \cup {m}) = SumOf(rs, S) + Signed(r)
    BY <1>1, <2>2, SumAdded
  <2>. QED
    BY <2>1, <2>2, <2>3
<1>3. PICK S : S = UpToDay(rs, DOMAIN rs, d)
  OBVIOUS
<1>4. S \in SUBSET DOMAIN rs /\ Closing(rs, DOMAIN rs, d) = SumOf(rs, S)
  BY <1>3 DEF UpToDay, Closing
<1>5. /\ SumOf(rs, S) \in Int /\ SumOf(rt, S) = SumOf(rs, S)
      /\ SumOf(rt, S \cup {m}) = SumOf(rs, S) + Signed(r)
  BY <1>1, <1>4, SumAdded
<1>6. Closing(rt, DOMAIN rt, d) = SumOf(rt, UpToDay(rt, DOMAIN rt, d))
  BY DEF Closing, UpToDay
<1>7. Closing(rt, DOMAIN rt, d) = Closing(rs, DOMAIN rs, d) + FromDay(r, d)
  <2>1. CASE r.day <= d
    <3>1. UpToDay(rt, DOMAIN rt, d) = S \cup {m}
      BY <1>1, <1>3, <2>1 DEF UpToDay, GrownAt
    <3>. QED
      BY <1>4, <1>5, <1>6, <2>1, <3>1 DEF FromDay
  <2>2. CASE ~(r.day <= d)
    <3>1. UpToDay(rt, DOMAIN rt, d) = S
      BY <1>1, <1>3, <2>2 DEF UpToDay, GrownAt
    <3>. QED
      BY <1>4, <1>5, <1>6, <2>2, <3>1 DEF FromDay
  <2>. QED
    BY <2>1, <2>2
<1>. QED
  BY <1>2, <1>7

\* The rows may come to cost something else.
Recosts(rs, rt) ==
  /\ IsSeq(rt) /\ DOMAIN rt = DOMAIN rs
  /\ \A i \in DOMAIN rs : RowIs(rt[i]) /\ SameQty(rs[i], rt[i])

LEMMA RecostKeepsRows ==
  ASSUME NEW rs, RowsAre(rs), NEW rt, Recosts(rs, rt)
  PROVE  RowsAre(rt)
<1>1. ASSUME NEW j \in DOMAIN rt
      PROVE  /\ RowIs(rt[j]) /\ rt[j].reverses \in Nat
             /\ rt[j].reverses # 0 => Reverses(rt, j, rt[j].reverses)
  <2>1. /\ RowIs(rt[j]) /\ SameQty(rs[j], rt[j]) /\ rs[j].reverses \in Nat
        /\ rs[j].reverses # 0 => Reverses(rs, j, rs[j].reverses)
    BY DEF Recosts, RowsAre
  <2>2. ASSUME rs[j].reverses # 0 PROVE Reverses(rt, j, rs[j].reverses)
    <3>1. PICK i \in DOMAIN rs : i = rs[j].reverses /\ Reverses(rs, j, i)
      BY <2>1, <2>2 DEF Reverses
    <3>2. SameQty(rs[i], rt[i])
      BY DEF Recosts
    <3>3. Signed(rt[i]) = Signed(rs[i]) /\ Signed(rt[j]) = Signed(rs[j])
      BY <2>1, <3>2 DEF SameQty, Signed
    <3>4. rt[i].reverses = 0 /\ i \in DOMAIN rt
      BY <3>1, <3>2 DEF SameQty, Reverses, Recosts
    <3>. QED
      BY <3>1, <3>3, <3>4 DEF Reverses
  <2>. QED
    BY <2>1, <2>2 DEF SameQty
<1>2. ASSUME NEW j \in DOMAIN rt, NEW k \in DOMAIN rt,
             rt[j].reverses # 0, rt[j].reverses = rt[k].reverses
      PROVE  j = k
  BY <1>2 DEF Recosts, SameQty, RowsAre
<1>. QED
  BY <1>1, <1>2 DEF RowsAre, Recosts

LEMMA RecostKeepsDays ==
  ASSUME NEW rs, RowsAre(rs), NEW rt, Recosts(rs, rt)
  PROVE  /\ \A d \in Nat : Closing(rt, DOMAIN rt, d) = Closing(rs, DOMAIN rs, d)
         /\ SumOf(rt, DOMAIN rt) = SumOf(rs, DOMAIN rs)
<1>1. RowsAre(rt)
  BY RecostKeepsRows
<1>2. ASSUME NEW S \in SUBSET DOMAIN rs PROVE SumOf(rt, S) = SumOf(rs, S)
  <2>1. S \in SUBSET DOMAIN rt /\ \A i \in S : SameQty(rs[i], rt[i])
    BY DEF Recosts
  <2>. QED
    BY <1>1, <2>1, SumOfSame
<1>3. SumOf(rt, DOMAIN rt) = SumOf(rs, DOMAIN rs)
  BY <1>2 DEF Recosts
<1>4. ASSUME NEW d \in Nat PROVE Closing(rt, DOMAIN rt, d) = Closing(rs, DOMAIN rs, d)
  <2>1. PICK S : S = UpToDay(rs, DOMAIN rs, d)
    OBVIOUS
  <2>2. UpToDay(rt, DOMAIN rt, d) = S /\ S \in SUBSET DOMAIN rs
    BY <2>1 DEF UpToDay, Recosts, SameQty
  <2>. QED
    BY <1>2, <2>1, <2>2 DEF Closing, UpToDay
<1>. QED
  BY <1>3, <1>4

-----------------------------------------------------------------------------
(* What the checks look at: the rows that count, and their running quantity. *)

\* Two disjoint sets of rows.
LEMMA SumOfBoth ==
  ASSUME NEW rs, RowsAre(rs), NEW A \in SUBSET DOMAIN rs, NEW B \in SUBSET DOMAIN rs,
         A \cap B = {}
  PROVE  SumOf(rs, A \cup B) = SumOf(rs, A) + SumOf(rs, B)
<1> DEFINE T == {t \in SUBSET B : SumOf(rs, A \cup t) # SumOf(rs, A) + SumOf(rs, t)}
<1>1. ASSUME T # {} PROVE FALSE
  <2>1. IsFiniteSet(B)
    BY QtyInt
  <2>2. PICK U \in T : \A V \in T : V \subseteq U => V = U
    <3>1. T \subseteq SUBSET B
      OBVIOUS
    <3> HIDE DEF T
    <3>. QED
      BY <1>1, <2>1, <3>1, LeastSet
  <2>3. U \in SUBSET B /\ SumOf(rs, A \cup U) # SumOf(rs, A) + SumOf(rs, U)
    OBVIOUS
  <2>4. CASE U = {}
    <3>1. PICK a \in Int : a = SumOf(rs, A)
      BY SumOfInt
    <3>2. A \cup U = A /\ SumOf(rs, U) = 0
      BY <2>4, SumOfNone
    <3>3. a # a + 0
      BY <2>3, <3>1, <3>2
    <3>. QED
      BY <3>3
  <2>5. CASE U # {}
    <3>1. PICK x : x \in U
      BY <2>5
    <3>2. PICK V, W : V = U \ {x} /\ W = A \cup U
      OBVIOUS
    <3>3. V \in SUBSET B /\ V \subseteq U /\ V # U /\ x \notin A
      BY <2>3, <3>1, <3>2
    <3>4. SumOf(rs, A \cup V) = SumOf(rs, A) + SumOf(rs, V)
      BY <2>2, <3>3
    <3>5. W \in SUBSET DOMAIN rs /\ x \in W /\ W \ {x} = A \cup V
      BY <2>3, <3>1, <3>2, <3>3
    <3>6. SumOf(rs, W) = Signed(rs[x]) + SumOf(rs, W \ {x})
      BY <3>5, SumOfTakes
    <3>7. SumOf(rs, U) = Signed(rs[x]) + SumOf(rs, V)
      <4>1. U \in SUBSET DOMAIN rs
        BY <2>3
      <4>. QED
        BY <3>1, <3>2, <4>1, SumOfTakes
    <3>8. PICK s \in Int : s = Signed(rs[x])
      BY <3>5, SignedIs DEF RowsAre
    <3>9. PICK a \in Int, v \in Int : a = SumOf(rs, A) /\ v = SumOf(rs, V)
      <4>1. V \in SUBSET DOMAIN rs
        BY <3>3
      <4>. QED
        BY <4>1, SumOfInt
    <3>10. SumOf(rs, W) = s + (a + v) /\ SumOf(rs, U) = s + v
      BY <3>4, <3>5, <3>6, <3>7, <3>8, <3>9
    <3>11. SumOf(rs, W) = SumOf(rs, A) + SumOf(rs, U)
      BY <3>9, <3>10
    <3>. QED
      BY <2>3, <3>2, <3>11
  <2>. QED
    BY <2>4, <2>5
<1>2. B \in SUBSET B /\ B \notin T
  BY <1>1
<1>. QED
  BY <1>2

\* A set of rows in which each has another that undoes it adds nothing.
Undoes(rs, p, U) ==
  \A i \in U : p[i] \in U /\ p[i] # i /\ p[p[i]] = i /\ Signed(rs[p[i]]) = -Signed(rs[i])

LEMMA PairsAddNothing ==
  ASSUME NEW rs, RowsAre(rs), NEW U \in SUBSET DOMAIN rs, NEW p, Undoes(rs, p, U)
  PROVE  SumOf(rs, U) = 0
<1> DEFINE T == {t \in SUBSET U : (\A i \in t : p[i] \in t) /\ SumOf(rs, t) # 0}
<1>1. ASSUME T # {} PROVE FALSE
  <2>1. IsFiniteSet(U)
    BY QtyInt
  <2>2. PICK V \in T : \A W \in T : W \subseteq V => W = V
    <3>1. T \subseteq SUBSET U
      OBVIOUS
    <3> HIDE DEF T
    <3>. QED
      BY <1>1, <2>1, <3>1, LeastSet
  <2>3. V \in SUBSET U /\ (\A i \in V : p[i] \in V) /\ SumOf(rs, V) # 0
    OBVIOUS
  <2>4. V # {}
    BY <2>3, SumOfNone
  <2>5. PICK x, y : x \in V /\ y = p[x]
    BY <2>4
  <2>6. y \in V /\ y # x /\ p[y] = x /\ Signed(rs[y]) = -Signed(rs[x])
    BY <2>3, <2>5 DEF Undoes
  <2>7. PICK W, Z : W = V \ {x} /\ Z = W \ {y}
    OBVIOUS
  <2>8. /\ V \in SUBSET DOMAIN rs /\ W \in SUBSET DOMAIN rs /\ y \in W
        /\ Z \in SUBSET U /\ Z \subseteq V /\ Z # V
    BY <2>3, <2>5, <2>6, <2>7
  <2>9. \A i \in Z : p[i] \in Z
    <3>1. ASSUME NEW i \in Z PROVE p[i] \in Z
      <4>1. i \in V /\ i \in U /\ i # x /\ i # y
        BY <2>3, <2>7
      <4>2. p[i] \in V /\ p[p[i]] = i
        BY <2>3, <4>1 DEF Undoes
      <4>3. p[i] # x /\ p[i] # y
        BY <2>5, <2>6, <4>1, <4>2
      <4>. QED
        BY <2>7, <4>2, <4>3
    <3>. QED
      BY <3>1
  <2>10. SumOf(rs, Z) = 0
    BY <2>2, <2>8, <2>9
  <2>11. SumOf(rs, V) = Signed(rs[x]) + SumOf(rs, W)
    BY <2>5, <2>7, <2>8, SumOfTakes
  <2>12. SumOf(rs, W) = Signed(rs[y]) + SumOf(rs, Z)
    BY <2>7, <2>8, SumOfTakes
  <2>13. Signed(rs[x]) \in Int
    BY <2>5, <2>8, SignedIs DEF RowsAre
  <2>. QED
    BY <2>3, <2>6, <2>10, <2>11, <2>12, <2>13
<1>2. U \in SUBSET U /\ U \notin T /\ \A i \in U : p[i] \in U
  BY <1>1 DEF Undoes
<1>. QED
  BY <1>2

\* A row and what reverses it on its own day.
CancelsAt(rs, j) == j \in DOMAIN rs /\ rs[j].reverses # 0 /\ rs[rs[j].reverses].day = rs[j].day
Partner(rs, i) ==
  IF rs[i].reverses # 0 THEN rs[i].reverses ELSE CHOOSE j \in DOMAIN rs : rs[j].reverses = i

LEMMA PartnersUndo ==
  ASSUME NEW rs, RowsAre(rs), NEW i \in DOMAIN rs \ Counted(rs)
  PROVE  /\ Partner(rs, i) \in DOMAIN rs \ Counted(rs) /\ Partner(rs, i) # i
         /\ Partner(rs, Partner(rs, i)) = i
         /\ rs[Partner(rs, i)].day = rs[i].day
         /\ Signed(rs[Partner(rs, i)]) = -Signed(rs[i])
<1>1. PICK j : CancelsAt(rs, j) /\ i \in {j, rs[j].reverses}
  BY DEF Counted, CancelsAt
<1>2. PICK k : k = rs[j].reverses
  OBVIOUS
<1>3. /\ j \in DOMAIN rs /\ k \in DOMAIN rs /\ k # 0 /\ k < j /\ rs[k].reverses = 0
      /\ Signed(rs[j]) = -Signed(rs[k]) /\ rs[k].day = rs[j].day /\ rs[j].reverses = k
  BY <1>1, <1>2 DEF CancelsAt, RowsAre, Reverses
<1>4. j \in Nat /\ k \in Nat /\ j # k
  BY <1>3, DomainIs
<1>5. Partner(rs, j) = k
  BY <1>3 DEF Partner
<1>6. Partner(rs, k) = j
  <2>1. \A l \in DOMAIN rs : rs[l].reverses = k => l = j
    BY <1>3 DEF RowsAre
  <2>2. (CHOOSE l \in DOMAIN rs : rs[l].reverses = k) = j
    BY <1>3, <2>1
  <2>. QED
    BY <1>3, <2>2 DEF Partner
<1>7. j \notin Counted(rs) /\ k \notin Counted(rs)
  BY <1>3, <1>1 DEF Counted
<1>8. Signed(rs[k]) \in Int
  BY <1>3, SignedIs DEF RowsAre
<1>9. Signed(rs[k]) = -Signed(rs[j])
  BY <1>3, <1>8
<1>10. i = j \/ i = k
  BY <1>1, <1>2
<1>. QED
  BY <1>3, <1>4, <1>5, <1>6, <1>7, <1>9, <1>10

\* So the rows that count close every day with what all of them do.
LEMMA CountedIsEnough ==
  ASSUME NEW rs, RowsAre(rs), NEW d \in Nat
  PROVE  Closing(rs, Counted(rs), d) = Closing(rs, DOMAIN rs, d)
<1>1. PICK A, U : /\ A = UpToDay(rs, Counted(rs), d)
                  /\ U = UpToDay(rs, DOMAIN rs \ Counted(rs), d)
  OBVIOUS
<1>2. /\ A \in SUBSET DOMAIN rs /\ U \in SUBSET DOMAIN rs /\ A \cap U = {}
      /\ A \cup U = UpToDay(rs, DOMAIN rs, d)
  BY <1>1 DEF UpToDay, Counted
<1>3. PICK p : p = [i \in U |-> Partner(rs, i)]
  OBVIOUS
<1>4. Undoes(rs, p, U)
  <2>1. ASSUME NEW i \in U
        PROVE  p[i] \in U /\ p[i] # i /\ p[p[i]] = i /\ Signed(rs[p[i]]) = -Signed(rs[i])
    <3>1. i \in DOMAIN rs \ Counted(rs) /\ rs[i].day <= d
      BY <1>1 DEF UpToDay
    <3>2. PICK j : j = Partner(rs, i)
      OBVIOUS
    <3>3. /\ j \in DOMAIN rs \ Counted(rs) /\ j # i /\ Partner(rs, j) = i
          /\ rs[j].day = rs[i].day /\ Signed(rs[j]) = -Signed(rs[i])
      BY <3>1, <3>2, PartnersUndo
    <3>4. j \in U
      BY <1>1, <3>1, <3>3 DEF UpToDay
    <3>5. p[i] = j /\ p[j] = i
      BY <1>3, <3>2, <3>3, <3>4
    <3>. QED
      BY <3>3, <3>4, <3>5
  <2>. QED
    BY <2>1 DEF Undoes
<1>5. SumOf(rs, U) = 0
  BY <1>2, <1>4, PairsAddNothing
<1>6. SumOf(rs, A \cup U) = SumOf(rs, A) + SumOf(rs, U)
  BY <1>2, SumOfBoth
<1>7. SumOf(rs, A) \in Int
  BY <1>2, SumOfInt
<1>8. SumOf(rs, A \cup U) = SumOf(rs, A)
  BY <1>5, <1>6, <1>7
<1>. QED
  BY <1>1, <1>2, <1>8 DEF Closing, UpToDay

-----------------------------------------------------------------------------
(* The checks by date.                                                      *)

LastIn(rs, T, i) == i \in T /\ \A j \in T : j = i \/ Before(rs, j, i)

LEMMA BeforeIsAnOrder ==
  ASSUME NEW rs, RowsAre(rs), NEW i \in DOMAIN rs, NEW j \in DOMAIN rs
  PROVE  /\ i = j \/ Before(rs, i, j) \/ Before(rs, j, i)
         /\ \A k \in DOMAIN rs : Before(rs, i, j) /\ Before(rs, j, k) => Before(rs, i, k)
BY DomainIs DEF Before

\* A set of rows has a last one.
LEMMA LastRow ==
  ASSUME NEW rs, RowsAre(rs), NEW S \in SUBSET DOMAIN rs, S # {}
  PROVE  \E i : LastIn(rs, S, i)
<1> DEFINE T == {t \in SUBSET S : t # {} /\ ~ \E i : LastIn(rs, t, i)}
<1>1. ASSUME T # {} PROVE FALSE
  <2>1. IsFiniteSet(S)
    BY QtyInt
  <2>2. PICK U \in T : \A V \in T : V \subseteq U => V = U
    <3>1. T \subseteq SUBSET S
      OBVIOUS
    <3> HIDE DEF T
    <3>. QED
      BY <1>1, <2>1, <3>1, LeastSet
  <2>3. U \in SUBSET S /\ U # {} /\ ~ \E i : LastIn(rs, U, i)
    OBVIOUS
  <2>4. PICK x : x \in U
    BY <2>3
  <2>5. PICK V : V = U \ {x}
    OBVIOUS
  <2>6. V # {}
    <3>1. V = {} => LastIn(rs, U, x)
      BY <2>4, <2>5 DEF LastIn
    <3>. QED
      BY <2>3, <3>1
  <2>7. V \in SUBSET S /\ V \subseteq U /\ V # U
    BY <2>3, <2>4, <2>5
  <2>8. PICK y : LastIn(rs, V, y)
    BY <2>2, <2>6, <2>7
  <2>9. x \in DOMAIN rs /\ y \in DOMAIN rs /\ y \in U
    BY <2>3, <2>4, <2>7, <2>8 DEF LastIn
  <2>10. \A j \in U : j = x \/ j \in V
    BY <2>5
  <2>11. CASE Before(rs, x, y) \/ x = y
    <3>1. LastIn(rs, U, y)
      BY <2>8, <2>9, <2>10, <2>11 DEF LastIn
    <3>. QED
      BY <2>3, <3>1
  <2>12. CASE Before(rs, y, x)
    <3>1. ASSUME NEW j \in V PROVE Before(rs, j, x)
      <4>1. j \in DOMAIN rs /\ (j = y \/ Before(rs, j, y))
        BY <2>3, <2>7, <2>8, <3>1 DEF LastIn
      <4>. QED
        BY <2>9, <2>12, <4>1, BeforeIsAnOrder
    <3>2. LastIn(rs, U, x)
      BY <2>4, <2>10, <3>1 DEF LastIn
    <3>. QED
      BY <2>3, <3>2
  <2>. QED
    BY <2>9, <2>11, <2>12, BeforeIsAnOrder
<1>2. S \in SUBSET S /\ S \notin T
  BY <1>1
<1>. QED
  BY <1>2

\* Every later day closes with what there is after its last row, or at the first.
LEMMA Lasting ==
  ASSUME NEW rs, RowsAre(rs), NEW S \in SUBSET DOMAIN rs, NEW d \in Nat, NEW k \in Int,
         Closing(rs, S, d) >= k, \A i \in S : rs[i].day > d => Through(rs, S, i) >= k,
         NEW e \in Nat, e >= d
  PROVE  Closing(rs, S, e) >= k
<1>1. PICK T : T = {i \in S : rs[i].day > d /\ rs[i].day <= e}
  OBVIOUS
<1>2. \A i \in S : rs[i].day \in Nat /\ i \in Nat
  BY DomainIs
<1>3. CASE T = {}
  <2>1. UpToDay(rs, S, e) = UpToDay(rs, S, d)
    BY <1>1, <1>2, <1>3 DEF UpToDay
  <2>2. Closing(rs, S, e) = Closing(rs, S, d)
    BY <2>1 DEF UpToDay, Closing
  <2>. QED
    BY <2>2
<1>4. CASE T # {}
  <2>1. T \in SUBSET DOMAIN rs
    BY <1>1
  <2>2. PICK i : LastIn(rs, T, i)
    BY <1>4, <2>1, LastRow
  <2>3. i \in S /\ rs[i].day > d /\ rs[i].day <= e
    BY <1>1, <2>2 DEF LastIn
  <2>4. ASSUME NEW j \in S PROVE (j = i \/ Before(rs, j, i)) <=> rs[j].day <= e
    <3>1. j \in T => (j = i \/ Before(rs, j, i))
      BY <2>2 DEF LastIn
    <3>2. j \in T <=> rs[j].day > d /\ rs[j].day <= e
      BY <1>1
    <3>. QED
      BY <1>2, <2>3, <3>1, <3>2 DEF Before
  <2>5. {j \in S : j = i \/ Before(rs, j, i)} = {j \in S : rs[j].day <= e}
    BY <2>4
  <2>6. Through(rs, S, i) = Closing(rs, S, e)
    BY <2>5 DEF Through, UpTo, Closing
  <2>. QED
    BY <2>3, <2>6
<1>. QED
  BY <1>3, <1>4

LEMMA FitsEveryDay ==
  ASSUME NEW rs, RowsAre(rs), NEW d \in Nat, NEW q \in Nat, FitsWithoutNegative(rs, d, q),
         NEW e \in Nat, e >= d
  PROVE  Closing(rs, DOMAIN rs, e) >= q
<1>1. PICK S : S = Counted(rs)
  OBVIOUS
<1>2. S \in SUBSET DOMAIN rs
  BY <1>1 DEF Counted
<1>3. Closing(rs, S, d) >= q /\ \A i \in S : rs[i].day > d => Through(rs, S, i) >= q
  BY <1>1 DEF FitsWithoutNegative
<1>4. Closing(rs, S, e) >= q
  BY <1>2, <1>3, Lasting
<1>. QED
  BY <1>1, <1>4, CountedIsEnough

LEMMA ReplacementFitsEveryDay ==
  ASSUME NEW rs, RowsAre(rs), NEW d \in Nat, NEW old \in Nat, NEW new \in Nat,
         FitsReplacement(rs, d, old, new), NEW e \in Nat, e >= d
  PROVE  Closing(rs, DOMAIN rs, e) - old + new >= 0
<1>0. PICK k \in Int : k = old - new
  OBVIOUS
<1>1. PICK S : S = DOMAIN rs
  OBVIOUS
<1>2. S \in SUBSET DOMAIN rs
  BY <1>1
<1>3. ASSUME NEW i \in S, rs[i].day > d PROVE Through(rs, S, i) >= k
  <2>1. Through(rs, S, i) + new >= old
    BY <1>1, <1>3 DEF FitsReplacement
  <2>2. {j \in S : j = i \/ Before(rs, j, i)} \in SUBSET DOMAIN rs
    BY <1>2
  <2>3. Through(rs, S, i) \in Int
    BY <2>2, SumOfInt DEF Through, UpTo
  <2>. QED
    BY <1>0, <2>1, <2>3
<1>4. Closing(rs, S, d) \in Int /\ Closing(rs, S, e) \in Int
  <2>1. {i \in S : rs[i].day <= d} \in SUBSET DOMAIN rs /\ {i \in S : rs[i].day <= e} \in SUBSET DOMAIN rs
    BY <1>2
  <2>. QED
    BY <2>1, SumOfInt DEF Closing
<1>5. Closing(rs, S, d) >= k
  <2>1. Closing(rs, S, d) >= old
    BY <1>1 DEF FitsReplacement
  <2>. QED
    BY <1>0, <1>4, <2>1
<1>6. Closing(rs, S, e) >= k
  BY <1>2, <1>3, <1>5, Lasting
<1>. QED
  BY <1>0, <1>1, <1>4, <1>6

\* With nothing dated later, a day closes with all there is.
LEMMA NothingLater ==
  ASSUME NEW rs, RowsAre(rs), NEW d \in Nat, ~HasLater(rs, d), NEW e \in Nat, e >= d
  PROVE  Closing(rs, DOMAIN rs, e) = SumOf(rs, DOMAIN rs)
<1>1. \A i \in DOMAIN rs : rs[i].day <= e
  BY DomainIs DEF HasLater
<1>2. {i \in DOMAIN rs : rs[i].day <= e} = DOMAIN rs
  BY <1>1
<1>. QED
  BY <1>2 DEF Closing

LEMMA ClosingInt ==
  ASSUME NEW rs, RowsAre(rs), NEW d
  PROVE  Closing(rs, DOMAIN rs, d) \in Int
<1>1. {i \in DOMAIN rs : rs[i].day <= d} \in SUBSET DOMAIN rs
  OBVIOUS
<1>. QED
  BY <1>1, SumOfInt DEF Closing


-----------------------------------------------------------------------------
(* The balance, and what a recost leaves as it was.                         *)

BalanceIs(b) == DOMAIN b = {"qty", "avg"}

LEMMA BalanceHas ==
  ASSUME NEW q, NEW v
  PROVE  BalanceIs(Balance(q, v)) /\ Balance(q, v).qty = q
BY DEF BalanceIs, Balance

LEMMA RowHas ==
  ASSUME NEW type \in {"IN", "OUT", "ADJUST"}, NEW ref, NEW q \in Nat \ {0}, NEW d \in 1..MaxDay,
         NEW cost, NEW reverses, NEW returns, NEW r, r = Row(type, ref, q, d, cost, reverses, returns)
  PROVE  RowIs(r) /\ r.type = type /\ r.qty = q /\ r.day = d /\ r.reverses = reverses
BY DEF Row, RowIs, Fields

LEMMA RowCosts ==
  ASSUME NEW r, RowIs(r), NEW cost,
         NEW s, s = [r EXCEPT !.effective = cost, !.recosted = TRUE]
  PROVE  RowIs(s) /\ SameQty(r, s)
<1>1. DOMAIN s = Fields
  BY DEF RowIs
<1>2. s.type = r.type /\ s.qty = r.qty /\ s.day = r.day /\ s.reverses = r.reverses
  BY DEF RowIs, Fields
<1>. QED
  BY <1>1, <1>2 DEF RowIs, SameQty

\* What becomes of a kardex whose costs may change.
Keeps(k, rs, b) ==
  /\ Recosts(rs, k.rows)
  /\ BalanceIs(k.balance) /\ k.balance.qty = b.qty

LEMMA KardexKeeps ==
  ASSUME NEW rs, RowsAre(rs), NEW rt, Recosts(rs, rt), NEW b, BalanceIs(b), NEW c,
         BalanceIs(c), c.qty = b.qty, NEW p
  PROVE  Keeps(Kardex(rt, c, p), rs, b)
BY DEF Keeps, Kardex

LEMMA StaysSame ==
  ASSUME NEW rs, RowsAre(rs)
  PROVE  Recosts(rs, rs)
BY DEF RowsAre, Recosts, SameQty

LEMMA RecostForwardKeeps ==
  ASSUME NEW rs, RowsAre(rs), NEW b, BalanceIs(b), NEW replayed, NEW overrides, NEW limit
  PROVE  Keeps(RecostForward(rs, b, replayed, overrides, limit), rs, b)
<1> DEFINE cost == Replay(rs, replayed, overrides)
           changed == Corrected(rs, replayed, cost)
           fixed == [i \in DOMAIN rs |->
                       IF i \in changed THEN [rs[i] EXCEPT !.effective = cost[i], !.recosted = TRUE]
                                        ELSE rs[i]]
           value == StockUpToDate(fixed, MaxDay).value
           left == IF changed = {} \/ b.qty <= 0 THEN b
                   ELSE Balance(b.qty, IF value < 0 THEN 0 ELSE value)
<1>1. RecostForward(rs, b, replayed, overrides, limit)
      = IF Cardinality(replayed) > limit THEN Kardex(rs, b, TRUE) ELSE Kardex(fixed, left, pending)
  BY DEF RecostForward
<1>2. Recosts(rs, fixed)
  <2> HIDE DEF cost, changed
  <2>1. PICK n \in Nat : DOMAIN rs = 1..n
    BY DomainIs
  <2>2. fixed = [k \in 1..n |-> fixed[k]]
    BY <2>1
  <2>3. IsSeq(fixed) /\ DOMAIN fixed = DOMAIN rs
    <3> HIDE DEF fixed
    <3>. QED
      BY <2>1, <2>2, FunctionIsSeq
  <2>4. ASSUME NEW i \in DOMAIN rs PROVE RowIs(fixed[i]) /\ SameQty(rs[i], fixed[i])
    <3>1. RowIs(rs[i])
      BY DEF RowsAre
    <3>2. CASE i \in changed
      BY <3>1, <3>2, RowCosts
    <3>3. CASE i \notin changed
      BY <3>1, <3>3 DEF SameQty
    <3>. QED
      BY <3>2, <3>3
  <2>. QED
    BY <2>3, <2>4 DEF Recosts
<1>3. BalanceIs(left) /\ left.qty = b.qty
  <2> HIDE DEF changed, value
  <2>. QED
    BY BalanceHas
<1> HIDE DEF fixed, left
<1>4. Keeps(Kardex(fixed, left, pending), rs, b)
  BY <1>2, <1>3, KardexKeeps
<1>5. Keeps(Kardex(rs, b, TRUE), rs, b)
  BY StaysSame, KardexKeeps
<1>. QED
  BY <1>1, <1>4, <1>5

LEMMA SettledKeeps ==
  ASSUME NEW rs, RowsAre(rs), NEW b, BalanceIs(b), NEW d, NEW replayed
  PROVE  Keeps(Settled(rs, b, d, replayed), rs, b)
<1>1. Keeps(Kardex(rs, b, pending), rs, b)
  BY StaysSame, KardexKeeps
<1>2. Keeps(RecostForward(rs, b, replayed, <<>>, MaxReplayed), rs, b)
  BY RecostForwardKeeps
<1>. QED
  BY <1>1, <1>2 DEF Settled

-----------------------------------------------------------------------------
(* The inductive invariant.                                                 *)

\* A day does not close below zero.
NoneOwed(rs) == \A d \in 1..MaxDay : Closing(rs, DOMAIN rs, d) >= 0

\* What moves a quantity moves one of those there are.
QtysAre(rs) == \A i \in DOMAIN rs : rs[i].type # "ADJUST" => rs[i].qty \in Quantities

IInv ==
  /\ item \in Items
  /\ RowsAre(rows) /\ QtysAre(rows) /\ NoneOwed(rows)
  /\ BalanceIs(balance) /\ balance.qty = SumOf(rows, DOMAIN rows)

LEMMA InitIInv ==
  ASSUME Init PROVE IInv
<1>1. rows = <<>> /\ balance = [qty |-> 0, avg |-> 0] /\ item \in Items
  BY DEF Init
<1>2. PICK n \in Nat : n = 0
  OBVIOUS
<1>3. DOMAIN rows = {} /\ IsSeq(rows)
  <2>1. <<>> \in Seq({})
    OBVIOUS
  <2>2. IsSeq(<<>>)
    BY <2>1, TypedIsSeq
  <2>. QED
    BY <1>1, <2>2
<1>4. RowsAre(rows) /\ QtysAre(rows)
  BY <1>3 DEF RowsAre, QtysAre
<1>5. \A d : Closing(rows, DOMAIN rows, d) = 0
  <2>1. ASSUME NEW d PROVE Closing(rows, DOMAIN rows, d) = 0
    <3>1. {i \in DOMAIN rows : rows[i].day <= d} = {}
      BY <1>3
    <3>. QED
      BY <3>1, SumOfNone DEF Closing
  <2>. QED
    BY <2>1
<1>6. SumOf(rows, DOMAIN rows) = 0
  BY <1>3, SumOfNone
<1>7. BalanceIs(balance) /\ balance.qty = 0
  BY <1>1 DEF BalanceIs
<1>. QED
  BY <1>1, <1>4, <1>5, <1>6, <1>7 DEF IInv, NoneOwed

-----------------------------------------------------------------------------
(* A step of the kardex, by what it writes.                                 *)

\* What a row does to the days.
AddsTo(r) == \A d \in 1..MaxDay : Closings'[d] = Closings[d] + FromDay(r, d)

\* They stand it.
Fits(rs, r) == \A d \in 1..MaxDay : Closing(rs, DOMAIN rs, d) + FromDay(r, d) >= 0

LEMMA DaysIn ==
  ASSUME IInv PROVE Days \subseteq 1..MaxDay
<1>1. item \in Item
  BY KardexAssumption DEF IInv
<1>. QED
  BY <1>1 DEF Item, Days

\* The rows and the balance that an operation leaves, recosted or not.
LEMMA Arrives ==
  ASSUME IInv, NEW rs, RowsAre(rs), QtysAre(rs), NoneOwed(rs),
         NEW b, b.qty = SumOf(rs, DOMAIN rs), NEW k, Keeps(k, rs, b), Becomes(k)
  PROVE  IInv' /\ \A d \in 1..MaxDay : Closings'[d] = Closing(rs, DOMAIN rs, d)
<1>1. PICK rt : rt = k.rows
  OBVIOUS
<1>2. rows' = rt /\ balance' = k.balance /\ item' = item
  BY <1>1 DEF Becomes
<1>3. Recosts(rs, rt) /\ BalanceIs(k.balance) /\ k.balance.qty = b.qty
  BY <1>1 DEF Keeps
<1>4. RowsAre(rt)
  BY <1>3, RecostKeepsRows
<1>5. /\ \A d \in Nat : Closing(rt, DOMAIN rt, d) = Closing(rs, DOMAIN rs, d)
      /\ SumOf(rt, DOMAIN rt) = SumOf(rs, DOMAIN rs)
  BY <1>3, RecostKeepsDays
<1>6. QtysAre(rt)
  BY <1>3 DEF QtysAre, Recosts, SameQty
<1>7. NoneOwed(rt)
  BY <1>5 DEF NoneOwed
<1>8. RowsAre(rows') /\ QtysAre(rows') /\ NoneOwed(rows')
  BY <1>2, <1>4, <1>6, <1>7
<1>9. balance'.qty = SumOf(rows', DOMAIN rows') /\ BalanceIs(balance')
  BY <1>2, <1>3, <1>5
<1>10. IInv'
  BY <1>2, <1>8, <1>9 DEF IInv
<1>11. Closings' = [d \in 1..MaxDay |-> Closing(rt, DOMAIN rt, d)]
  BY <1>2 DEF Closings
<1>. QED
  BY <1>5, <1>10, <1>11

\* One row.
LEMMA OneRow ==
  ASSUME IInv, NEW r, MayFollow(rows, r), r.type # "ADJUST" => r.qty \in Quantities,
         NEW b, BalanceIs(b), b.qty = balance.qty + Signed(r), Fits(rows, r), Record(r, b)
  PROVE  IInv' /\ AddsTo(r)
<1>1. PICK rs : rs = Append(rows, r)
  OBVIOUS
<1>2. RowsAre(rows) /\ QtysAre(rows) /\ balance.qty = SumOf(rows, DOMAIN rows)
  BY DEF IInv
<1>3. Grown(rows, r, rs)
  BY <1>1, <1>2, RowAdded
<1>4. RowsAre(rs)
  BY <1>2, <1>3, RowsStayRows
<1>5. QtysAre(rs)
  BY <1>2, <1>3 DEF Grown, GrownAt, QtysAre
<1>6. \A d \in 1..MaxDay :
         Closing(rs, DOMAIN rs, d) = Closing(rows, DOMAIN rows, d) + FromDay(r, d)
  BY <1>2, <1>3, DaysAdded
<1>7. NoneOwed(rs)
  BY <1>6 DEF NoneOwed, Fits
<1>8. b.qty = SumOf(rs, DOMAIN rs)
  <2>1. 1 \in Nat
    OBVIOUS
  <2>. QED
    BY <1>2, <1>3, <2>1, DaysAdded
<1>9. PICK k : k = Settled(rs, b, r.day, After(rs, Len(rs)))
  OBVIOUS
<1>10. Keeps(k, rs, b)
  BY <1>4, <1>9, SettledKeeps
<1>11. Becomes(k)
  BY <1>1, <1>9 DEF Record
<1>12. IInv' /\ \A d \in 1..MaxDay : Closings'[d] = Closing(rs, DOMAIN rs, d)
  BY <1>4, <1>5, <1>7, <1>8, <1>10, <1>11, Arrives
<1>. QED
  BY <1>6, <1>12 DEF AddsTo, Closings

\* Two rows.
LEMMA TwoRows ==
  ASSUME IInv, NEW r, MayFollow(rows, r), r.type # "ADJUST" => r.qty \in Quantities,
         NEW rs, Grown(rows, r, rs),
         NEW s, MayFollow(rs, s), s.type # "ADJUST" => s.qty \in Quantities,
         NEW rt, Grown(rs, s, rt),
         \A d \in 1..MaxDay : Closing(rows, DOMAIN rows, d) + FromDay(r, d) + FromDay(s, d) >= 0,
         NEW b, b.qty = balance.qty + Signed(r) + Signed(s),
         NEW k, Keeps(k, rt, b), Becomes(k)
  PROVE  /\ IInv'
         /\ \A d \in 1..MaxDay : Closings'[d] = Closings[d] + FromDay(r, d) + FromDay(s, d)
<1>2. RowsAre(rows) /\ QtysAre(rows) /\ balance.qty = SumOf(rows, DOMAIN rows)
  BY DEF IInv
<1>4. RowsAre(rs) /\ RowsAre(rt)
  BY <1>2, RowsStayRows
<1>5. QtysAre(rt)
  BY <1>2 DEF Grown, GrownAt, QtysAre
<1>6. \A d \in 1..MaxDay :
         /\ Closing(rs, DOMAIN rs, d) = Closing(rows, DOMAIN rows, d) + FromDay(r, d)
         /\ Closing(rt, DOMAIN rt, d) = Closing(rs, DOMAIN rs, d) + FromDay(s, d)
  BY <1>2, <1>4, DaysAdded
<1>7. NoneOwed(rt)
  BY <1>6 DEF NoneOwed
<1>8. b.qty = SumOf(rt, DOMAIN rt)
  <2>1. 1 \in Nat
    OBVIOUS
  <2>2. SumOf(rs, DOMAIN rs) = SumOf(rows, DOMAIN rows) + Signed(r)
    BY <1>2, <2>1, DaysAdded
  <2>3. SumOf(rt, DOMAIN rt) = SumOf(rs, DOMAIN rs) + Signed(s)
    BY <1>4, <2>1, DaysAdded
  <2>. QED
    BY <1>2, <2>2, <2>3
<1>12. IInv' /\ \A d \in 1..MaxDay : Closings'[d] = Closing(rt, DOMAIN rt, d)
  BY <1>4, <1>5, <1>7, <1>8, Arrives
<1>. QED
  BY <1>6, <1>12 DEF Closings

-----------------------------------------------------------------------------
(* The step as one of DatedStock.                                           *)

MaxQty == CHOOSE q \in Quantities : \A p \in Quantities : p <= q

LEMMA QtyMoved ==
  ASSUME NEW q \in Quantities
  PROVE  q \in 1..MaxQty
<1>1. \E m \in Quantities : \A p \in Quantities : p <= m
  BY KardexAssumption
<1>2. MaxQty \in Quantities /\ q <= MaxQty
  BY <1>1 DEF MaxQty
<1>3. Quantities \subseteq Nat \ {0}
  BY KardexAssumption
<1>. QED
  BY <1>2, <1>3

LEMMA ClosingsAre ==
  ASSUME IInv
  PROVE  /\ Closings = [d \in 1..MaxDay |-> Closings[d]]
         /\ \A d \in 1..MaxDay : Closings[d] \in Int /\ Closings[d] >= 0
<1>1. RowsAre(rows) /\ NoneOwed(rows)
  BY DEF IInv
<1>. QED
  BY <1>1, ClosingInt DEF NoneOwed, Closings

LEMMA ClosingsStay ==
  ASSUME IInv, IInv', \A d \in 1..MaxDay : Closings'[d] = Closings[d]
  PROVE  StockStep
<1>1. Closings = [d \in 1..MaxDay |-> Closings[d]]
  BY ClosingsAre
<1>2. Closings' = [d \in 1..MaxDay |-> Closings'[d]]
  BY DEF Closings
<1>3. Closings' = Closings
  BY <1>1, <1>2
<1>. QED
  BY <1>3 DEF StockStep

\* A quantity more from a day on, or less.
LEMMA StockMoves ==
  ASSUME IInv, IInv', NEW q \in Int, NEW p \in 1..MaxQty, q = p \/ q = -p, NEW e \in 1..MaxDay,
         \A d \in 1..MaxDay : Closings'[d] = Closings[d] + IF e <= d THEN q ELSE 0
  PROVE  StockStep
<1>0. MaxDay \in Nat
  BY KardexAssumption
<1>1. \A d \in 1..MaxDay : Closings[d] \in Int
  BY ClosingsAre
<1>2. PICK st, af : st = Closings /\ af = Closings'
  OBVIOUS
<1>3. af = [d \in 1..MaxDay |-> af[d]]
  BY <1>2 DEF Closings
<1>4. \A d \in 1..MaxDay : af[d] = IF e <= d /\ d < MaxDay + 1 THEN st[d] + q ELSE st[d]
  BY <1>0, <1>1, <1>2
<1>5. af = Stock!Shifted(st, e, MaxDay + 1, q)
  BY <1>3, <1>4 DEF Stock!Shifted, Stock!Days
<1>6. Stock!Holds(af)
  <2>1. NoneOwed(rows')
    BY DEF IInv
  <2>. QED
    BY <1>2, <2>1 DEF NoneOwed, Closings, Stock!Holds, Stock!Days
<1>7. Stock!Enter(st, af, e, p) \/ Stock!Leave(st, af, e, p)
  BY <1>5, <1>6 DEF Stock!Enter, Stock!Leave
<1>8. Stock!Moves(st, af)
  BY <1>7 DEF Stock!Moves, Stock!Days, MaxQty
<1>9. Stock!Next
  BY <1>2, <1>8 DEF Stock!Next
<1>. QED
  BY <1>9 DEF StockStep

LEMMA RowMoves ==
  ASSUME IInv, IInv', NEW r, RowIs(r), r.type # "ADJUST" => r.qty \in Quantities, AddsTo(r)
  PROVE  StockStep
<1>1. \A d \in 1..MaxDay : Closings[d] \in Int
  BY ClosingsAre
<1>2. r.day \in 1..MaxDay /\ r.type \in {"IN", "OUT", "ADJUST"} /\ r.qty \in Nat
  BY DEF RowIs
<1>3. \A d \in 1..MaxDay : Closings'[d] = Closings[d] + IF r.day <= d THEN Signed(r) ELSE 0
  BY DEF AddsTo, FromDay
<1>4. CASE r.type = "ADJUST"
  <2>1. Signed(r) = 0
    BY <1>4 DEF Signed
  <2>2. \A d \in 1..MaxDay : Closings'[d] = Closings[d]
    BY <1>1, <1>3, <2>1
  <2>. QED
    BY <2>2, ClosingsStay
<1>5. CASE r.type # "ADJUST"
  <2>1. r.qty \in 1..MaxQty
    BY <1>5, QtyMoved
  <2>2. PICK q \in Int : q = Signed(r)
    BY SignedIs
  <2>3. q = r.qty \/ q = -r.qty
    BY <1>2, <1>5, <2>2 DEF Signed
  <2>. QED
    BY <1>2, <1>3, <2>1, <2>2, <2>3, StockMoves
<1>. QED
  BY <1>4, <1>5

-----------------------------------------------------------------------------
(* The actions.                                                             *)

\* What every one of them leaves.
Done == IInv' /\ StockStep

LEMMA OneRowDone ==
  ASSUME IInv, NEW r, MayFollow(rows, r), r.type # "ADJUST" => r.qty \in Quantities,
         NEW b, BalanceIs(b), b.qty = balance.qty + Signed(r), Fits(rows, r), Record(r, b)
  PROVE  Done
<1>1. IInv' /\ AddsTo(r)
  BY OneRow
<1>2. RowIs(r)
  BY DEF MayFollow
<1>3. StockStep
  BY <1>1, <1>2, RowMoves
<1>. QED
  BY <1>1, <1>3 DEF Done

LEMMA QtyIsInt ==
  IInv => balance.qty \in Int
<1> SUFFICES ASSUME IInv PROVE balance.qty \in Int
  OBVIOUS
<1>1. DOMAIN rows \in SUBSET DOMAIN rows
  OBVIOUS
<1>. QED
  BY <1>1, SumOfInt DEF IInv

\* What brings something in is held by every day, and so is what brings nothing.
LEMMA InFits ==
  ASSUME IInv, NEW r, RowIs(r), r.type # "OUT"
  PROVE  Fits(rows, r)
<1>1. RowsAre(rows) /\ NoneOwed(rows)
  BY DEF IInv
<1>2. ASSUME NEW d \in 1..MaxDay PROVE Closing(rows, DOMAIN rows, d) + FromDay(r, d) >= 0
  <2>1. Closing(rows, DOMAIN rows, d) \in Int /\ Closing(rows, DOMAIN rows, d) >= 0
    BY <1>1, ClosingInt DEF NoneOwed
  <2>2. FromDay(r, d) \in Nat
    BY DEF FromDay, RowIs, Signed
  <2>. QED
    BY <2>1, <2>2
<1>. QED
  BY <1>2 DEF Fits

\* What takes something out, with the two checks that precede it.
LEMMA OutFits ==
  ASSUME IInv, NEW r, RowIs(r), r.type = "OUT", r.qty <= balance.qty,
         HasLater(rows, r.day) => FitsWithoutNegative(rows, r.day, r.qty)
  PROVE  Fits(rows, r)
<1>1. RowsAre(rows) /\ NoneOwed(rows) /\ balance.qty = SumOf(rows, DOMAIN rows)
  BY DEF IInv
<1>2. PICK q \in Nat, e \in Nat : q = r.qty /\ e = r.day
  BY DEF RowIs
<1>3. ASSUME NEW d \in 1..MaxDay PROVE Closing(rows, DOMAIN rows, d) + FromDay(r, d) >= 0
  <2>1. PICK c \in Int : c = Closing(rows, DOMAIN rows, d) /\ c >= 0
    BY <1>1, ClosingInt DEF NoneOwed
  <2>2. CASE e <= d
    <3>1. c >= q
      <4>1. CASE HasLater(rows, e)
        BY <1>1, <1>2, <2>1, <2>2, <4>1, FitsEveryDay
      <4>2. CASE ~HasLater(rows, e)
        <5>1. Closing(rows, DOMAIN rows, d) = SumOf(rows, DOMAIN rows)
          BY <1>1, <2>2, <4>2, NothingLater
        <5>. QED
          BY <1>1, <1>2, <2>1, <5>1
      <4>. QED
        BY <4>1, <4>2
    <3>2. FromDay(r, d) = -q
      BY <1>2, <2>2 DEF FromDay, Signed
    <3>. QED
      BY <2>1, <3>1, <3>2
  <2>3. CASE ~(e <= d)
    <3>1. FromDay(r, d) = 0
      BY <1>2, <2>3 DEF FromDay
    <3>. QED
      BY <2>1, <3>1
  <2>. QED
    BY <2>2, <2>3
<1>. QED
  BY <1>3 DEF Fits

\* A row that reverses none.
LEMMA NewRow ==
  ASSUME NEW rs, NEW type \in {"IN", "OUT", "ADJUST"}, NEW ref, NEW q \in Nat \ {0},
         NEW d \in 1..MaxDay, NEW cost, NEW returns,
         NEW r, r = Row(type, ref, q, d, cost, 0, returns)
  PROVE  /\ MayFollow(rs, r) /\ RowIs(r) /\ r.type = type /\ r.qty = q /\ r.day = d
         /\ r.reverses = 0
<1>1. RowIs(r) /\ r.type = type /\ r.qty = q /\ r.day = d /\ r.reverses = 0
  BY RowHas
<1>. QED
  BY <1>1 DEF MayFollow

LEMMA QuantitiesAre ==
  Quantities \subseteq Nat \ {0}
BY KardexAssumption

\* An entry, of whatever kind.
LEMMA InDone ==
  ASSUME IInv, NEW ref, NEW q \in Quantities, NEW d \in Days, NEW cost, NEW returns,
         Record(Row("IN", ref, q, d, cost, 0, returns), AfterIn(balance, q, cost))
  PROVE  Done
<1>1. PICK r, b : r = Row("IN", ref, q, d, cost, 0, returns) /\ b = AfterIn(balance, q, cost)
  OBVIOUS
<1>2. q \in Nat \ {0} /\ d \in 1..MaxDay
  BY QuantitiesAre, DaysIn
<1>3. MayFollow(rows, r) /\ RowIs(r) /\ r.type = "IN" /\ r.qty = q
  BY <1>1, <1>2, NewRow
<1>4. BalanceIs(b) /\ b.qty = balance.qty + q
  BY <1>1, BalanceHas DEF AfterIn
<1>5. b.qty = balance.qty + Signed(r)
  BY <1>3, <1>4 DEF Signed
<1>6. Fits(rows, r)
  BY <1>3, InFits
<1>7. Record(r, b)
  BY <1>1
<1>. QED
  BY <1>3, <1>4, <1>5, <1>6, <1>7, OneRowDone

LEMMA RecordInDone ==
  ASSUME IInv, RecordIn PROVE Done
BY InDone DEF RecordIn

LEMMA RecordSurplusDone ==
  ASSUME IInv, RecordSurplus PROVE Done
<1>1. \E q \in Quantities, d \in Days : \E c :
        Record(Row("IN", "CLOSE_ADJUSTMENT", q, d, c, 0, 0), AfterIn(balance, q, c))
  BY DEF RecordSurplus
<1>. QED
  BY <1>1, InDone

LEMMA RecordReturnDone ==
  ASSUME IInv, RecordReturn PROVE Done
<1>1. \E q \in Quantities, d \in Days : \E c, i :
        Record(Row("IN", "SALES_RETURN", q, d, c, 0, i), AfterIn(balance, q, c))
  BY DEF RecordReturn
<1>. QED
  BY <1>1, InDone

LEMMA OutBalance ==
  ASSUME NEW q, NEW d
  PROVE  BalanceIs(BalanceAfterOut(q, d)) /\ BalanceAfterOut(q, d).qty = balance.qty - q
BY BalanceHas DEF BalanceAfterOut, BalanceIs

LEMMA RecordOutDone ==
  ASSUME IInv, NEW ref, RecordOut(ref) PROVE Done
<1>1. PICK q \in Quantities, d \in Days :
        /\ HasLater(rows, d) => FitsWithoutNegative(rows, d, q)
        /\ q <= balance.qty
        /\ Record(Row("OUT", ref, q, d, CostOfOut(q, d), 0, 0), BalanceAfterOut(q, d))
  BY DEF RecordOut
<1>2. PICK r, b : r = Row("OUT", ref, q, d, CostOfOut(q, d), 0, 0) /\ b = BalanceAfterOut(q, d)
  OBVIOUS
<1>3. q \in Nat \ {0} /\ d \in 1..MaxDay
  BY QuantitiesAre, DaysIn
<1>4. MayFollow(rows, r) /\ RowIs(r) /\ r.type = "OUT" /\ r.qty = q /\ r.day = d
  BY <1>2, <1>3, NewRow
<1>5. BalanceIs(b) /\ b.qty = balance.qty - q
  BY <1>2, OutBalance
<1>6. b.qty = balance.qty + Signed(r)
  <2>1. Signed(r) = -q
    BY <1>4 DEF Signed
  <2>2. balance.qty \in Int
    BY QtyIsInt
  <2>. QED
    BY <1>3, <1>5, <2>1, <2>2
<1>7. Fits(rows, r)
  BY <1>1, <1>4, OutFits
<1>8. Record(r, b)
  BY <1>1, <1>2
<1>. QED
  BY <1>4, <1>5, <1>6, <1>7, <1>8, OneRowDone

\* A row that stands may be reversed.
LEMMA Reversal ==
  ASSUME IInv, NEW i \in DOMAIN rows, Live(i), NEW r, RowIs(r), r.reverses = i,
         Signed(r) = -Signed(rows[i])
  PROVE  MayFollow(rows, r)
<1>1. rows[i].reverses = 0 /\ \A k \in DOMAIN rows : rows[k].reverses # i
  BY DEF Live, ReversalsOf
<1>2. i \in Nat
  BY DomainIs DEF IInv
<1>. QED
  BY <1>1, <1>2 DEF MayFollow

LEMMA RowsHave ==
  ASSUME IInv, NEW i \in DOMAIN rows
  PROVE  RowIs(rows[i]) /\ (rows[i].type # "ADJUST" => rows[i].qty \in Quantities)
BY DEF IInv, RowsAre, QtysAre

LEMMA ReverseInDone ==
  ASSUME IInv, NEW i \in DOMAIN rows, Live(i), NEW d \in Days, ReverseIn(i, d) PROVE Done
<1>1. PICK s : s = rows[i]
  OBVIOUS
<1>2. /\ s.type = "IN"
      /\ HasLater(rows, d) => FitsWithoutNegative(rows, d, s.qty)
      /\ HoldsReverseIn(balance, s.qty, s.effective)
      /\ Record(Row("OUT", s.ref, s.qty, d, s.effective, i, 0),
                AfterReverseIn(balance, s.qty, s.effective))
  BY <1>1 DEF ReverseIn
<1>3. RowIs(s) /\ s.qty \in Quantities
  BY <1>1, <1>2, RowsHave
<1>4. PICK r, b : /\ r = Row("OUT", s.ref, s.qty, d, s.effective, i, 0)
                  /\ b = AfterReverseIn(balance, s.qty, s.effective)
  OBVIOUS
<1>5. PICK q \in Nat \ {0} : q = s.qty
  BY <1>3, QuantitiesAre
<1>6. RowIs(r) /\ r.type = "OUT" /\ r.qty = q /\ r.day = d /\ r.reverses = i
  <2>1. d \in 1..MaxDay
    BY DaysIn
  <2>. QED
    BY <1>4, <1>5, <2>1, RowHas
<1>7. Signed(r) = -q /\ Signed(rows[i]) = q
  BY <1>1, <1>2, <1>5, <1>6 DEF Signed
<1>8. MayFollow(rows, r)
  BY <1>6, <1>7, Reversal
<1>9. BalanceIs(b) /\ b.qty = balance.qty + Signed(r)
  <2>1. BalanceIs(b) /\ b.qty = balance.qty - q
    BY <1>4, <1>5, BalanceHas DEF AfterReverseIn
  <2>2. balance.qty \in Int
    BY QtyIsInt
  <2>. QED
    BY <1>7, <2>1, <2>2
<1>10. Fits(rows, r)
  <2>1. r.qty <= balance.qty
    BY <1>2, <1>5, <1>6 DEF HoldsReverseIn
  <2>2. HasLater(rows, r.day) => FitsWithoutNegative(rows, r.day, r.qty)
    BY <1>2, <1>5, <1>6
  <2>. QED
    BY <1>6, <2>1, <2>2, OutFits
<1>11. Record(r, b)
  BY <1>2, <1>4
<1>12. r.qty \in Quantities
  BY <1>3, <1>5, <1>6
<1>. QED
  BY <1>8, <1>9, <1>10, <1>11, <1>12, OneRowDone

LEMMA ReverseOutDone ==
  ASSUME IInv, NEW i \in DOMAIN rows, Live(i), NEW d \in Days, ReverseOut(i, d) PROVE Done
<1>1. PICK s : s = rows[i]
  OBVIOUS
<1>2. /\ s.type = "OUT"
      /\ Record(Row("IN", s.ref, s.qty, d, s.effective, i, 0),
                Balance(balance.qty + s.qty, ValueOf(balance) + s.effective))
  BY <1>1 DEF ReverseOut
<1>3. RowIs(s) /\ s.qty \in Quantities
  BY <1>1, <1>2, RowsHave
<1>4. PICK r, b : /\ r = Row("IN", s.ref, s.qty, d, s.effective, i, 0)
                  /\ b = Balance(balance.qty + s.qty, ValueOf(balance) + s.effective)
  OBVIOUS
<1>5. PICK q \in Nat \ {0} : q = s.qty
  BY <1>3, QuantitiesAre
<1>6. RowIs(r) /\ r.type = "IN" /\ r.qty = q /\ r.day = d /\ r.reverses = i
  <2>1. d \in 1..MaxDay
    BY DaysIn
  <2>. QED
    BY <1>4, <1>5, <2>1, RowHas
<1>7. Signed(r) = q /\ Signed(rows[i]) = -q
  BY <1>1, <1>2, <1>5, <1>6 DEF Signed
<1>8. MayFollow(rows, r)
  <2>1. Signed(r) = -Signed(rows[i])
    BY <1>7
  <2>. QED
    BY <1>6, <2>1, Reversal
<1>9. BalanceIs(b) /\ b.qty = balance.qty + Signed(r)
  BY <1>4, <1>5, <1>7, BalanceHas
<1>10. Fits(rows, r)
  BY <1>6, InFits
<1>11. Record(r, b)
  BY <1>2, <1>4
<1>12. r.qty \in Quantities
  BY <1>3, <1>5, <1>6
<1>. QED
  BY <1>8, <1>9, <1>10, <1>11, <1>12, OneRowDone

LEMMA NoneIsNone ==
  ASSUME NEW x \in Int, NEW y \in Int, x + y = 0
  PROVE  x = -y
OBVIOUS

LEMMA ReverseAdjustDone ==
  ASSUME IInv, NEW i \in DOMAIN rows, Live(i), NEW d \in Days, ReverseAdjust(i, d) PROVE Done
<1>1. PICK s, q : s = rows[i] /\ q = balance.qty
  OBVIOUS
<1>2. \E c, a : /\ s.type = "ADJUST" /\ q > 0
                /\ Record(Row("ADJUST", s.ref, q, d, c, i, 0), [balance EXCEPT !.avg = a])
  BY <1>1 DEF ReverseAdjust
<1>3. PICK c, a : /\ s.type = "ADJUST" /\ q > 0
                  /\ Record(Row("ADJUST", s.ref, q, d, c, i, 0), [balance EXCEPT !.avg = a])
  BY <1>2
<1>4. PICK r, b : r = Row("ADJUST", s.ref, q, d, c, i, 0) /\ b = [balance EXCEPT !.avg = a]
  OBVIOUS
<1>5. q \in Nat \ {0}
  BY <1>1, <1>3, QtyIsInt
<1>6. RowIs(r) /\ r.type = "ADJUST" /\ r.reverses = i
  <2>1. d \in 1..MaxDay
    BY DaysIn
  <2>. QED
    BY <1>4, <1>5, <2>1, RowHas
<1>7. Signed(r) = 0 /\ Signed(rows[i]) = 0
  BY <1>1, <1>3, <1>6 DEF Signed
<1>8. MayFollow(rows, r)
  <2>1. PICK x \in Int, y \in Int : x = Signed(r) /\ y = Signed(rows[i])
    BY <1>7
  <2>0. x + y = 0
    BY <1>7, <2>1
  <2>2. x = -y
    BY <2>0, NoneIsNone
  <2>3. Signed(r) = -Signed(rows[i])
    BY <2>1, <2>2
  <2>. QED
    BY <1>6, <2>3, Reversal
<1>9. BalanceIs(b) /\ b.qty = balance.qty + Signed(r)
  <2>1. BalanceIs(balance)
    BY DEF IInv
  <2>2. BalanceIs(b) /\ b.qty = q
    BY <1>1, <1>4, <2>1 DEF BalanceIs
  <2>. QED
    BY <1>1, <1>5, <1>7, <2>2
<1>10. Fits(rows, r)
  BY <1>6, InFits
<1>11. Record(r, b)
  BY <1>3, <1>4
<1>. QED
  BY <1>6, <1>8, <1>9, <1>10, <1>11, OneRowDone

LEMMA ReverseRowDone ==
  ASSUME IInv, ReverseRow PROVE Done
<1>1. PICK i \in DOMAIN rows, d \in Days :
        Live(i) /\ (ReverseIn(i, d) \/ ReverseOut(i, d) \/ ReverseAdjust(i, d))
  BY DEF ReverseRow
<1>. QED
  BY <1>1, ReverseInDone, ReverseOutDone, ReverseAdjustDone

LEMMA AdjustCostDone ==
  ASSUME IInv, AdjustCost PROVE Done
<1>1. PICK q : q = balance.qty
  OBVIOUS
<1>2. \E d \in Days : \E a, v : q > 0 /\ Record(Row("ADJUST", "PURCHASE", q, d, a, 0, 0), Balance(q, v))
  BY <1>1 DEF AdjustCost
<1>3. PICK d \in Days :
        \E a, v : q > 0 /\ Record(Row("ADJUST", "PURCHASE", q, d, a, 0, 0), Balance(q, v))
  BY <1>2
<1>0. PICK a, v : q > 0 /\ Record(Row("ADJUST", "PURCHASE", q, d, a, 0, 0), Balance(q, v))
  BY <1>3
<1>4. PICK r, b : r = Row("ADJUST", "PURCHASE", q, d, a, 0, 0) /\ b = Balance(q, v)
  OBVIOUS
<1>5. q \in Nat \ {0} /\ d \in 1..MaxDay
  BY <1>0, <1>1, QtyIsInt, DaysIn
<1>6. MayFollow(rows, r) /\ RowIs(r) /\ r.type = "ADJUST"
  BY <1>4, <1>5, NewRow
<1>7. BalanceIs(b) /\ b.qty = balance.qty + Signed(r)
  <2>1. Signed(r) = 0
    BY <1>6 DEF Signed
  <2>2. BalanceIs(b) /\ b.qty = q
    BY <1>4, BalanceHas
  <2>. QED
    BY <1>1, <1>5, <2>1, <2>2
<1>8. Fits(rows, r)
  BY <1>6, InFits
<1>9. Record(r, b)
  BY <1>0, <1>4
<1>. QED
  BY <1>6, <1>7, <1>8, <1>9, OneRowDone

\* Costs without rows.
LEMMA CostsDone ==
  ASSUME IInv, NEW k, Keeps(k, rows, balance), Becomes(k)
  PROVE  Done
<1>1. RowsAre(rows) /\ QtysAre(rows) /\ NoneOwed(rows) /\ balance.qty = SumOf(rows, DOMAIN rows)
  BY DEF IInv
<1>2. IInv' /\ \A d \in 1..MaxDay : Closings'[d] = Closing(rows, DOMAIN rows, d)
  BY <1>1, Arrives
<1>3. \A d \in 1..MaxDay : Closings'[d] = Closings[d]
  BY <1>2 DEF Closings
<1>4. StockStep
  BY <1>2, <1>3, ClosingsStay
<1>. QED
  BY <1>2, <1>4 DEF Done

LEMMA RecostDone ==
  ASSUME IInv, NEW replayed, NEW overrides, NEW limit
  PROVE  Keeps(RecostForward(rows, balance, replayed, overrides, limit), rows, balance)
<1>1. RowsAre(rows) /\ BalanceIs(balance)
  BY DEF IInv
<1>. QED
  BY <1>1, RecostForwardKeeps

LEMMA RecostEntryDone ==
  ASSUME IInv, RecostEntry PROVE Done
<1>1. \E replayed, overrides :
        Becomes(RecostForward(rows, balance, replayed, overrides, MaxReplayed))
  BY DEF RecostEntry
<1>. QED
  BY <1>1, RecostDone, CostsDone

LEMMA CompletePendingDone ==
  ASSUME IInv, CompletePending PROVE Done
<1>1. PICK k : /\ k = RecostForward(rows, balance, DOMAIN rows, <<>>, Len(rows))
               /\ Becomes([k EXCEPT !.pending = FALSE])
  BY DEF CompletePending
<1>2. Keeps(k, rows, balance)
  BY <1>1, RecostDone
<1>3. DOMAIN k = {"rows", "balance", "pending"}
  BY <1>1 DEF RecostForward, Kardex
<1>4. PICK j : j = [k EXCEPT !.pending = FALSE]
  OBVIOUS
<1>5. j.rows = k.rows /\ j.balance = k.balance
  BY <1>3, <1>4
<1>6. Keeps(j, rows, balance)
  BY <1>2, <1>5 DEF Keeps
<1>. QED
  BY <1>1, <1>4, <1>6, CostsDone

-----------------------------------------------------------------------------
(* The actions of two rows.                                                 *)

LEMMA TwoAdded ==
  ASSUME NEW rs, RowsAre(rs), NEW r, NEW s, NEW two, two = rs \o <<r, s>>, NEW one, one = Append(rs, r)
  PROVE  Grown(rs, r, one) /\ Grown(one, s, two)
<1>1. Grown(rs, r, one)
  BY RowAdded
<1>2. PICK pair : pair = <<r, s>>
  OBVIOUS
<1>3. IsSeq(pair) /\ Len(pair) = 2 /\ DOMAIN pair = 1..2 /\ pair[1] = r /\ pair[2] = s
  <2>1. PICK S : S = {r, s}
    OBVIOUS
  <2>2. pair \in Seq(S)
    BY <1>2, <2>1
  <2>3. Len(pair) = 2 /\ pair[1] = r /\ pair[2] = s
    BY <1>2
  <2>4. IsSeq(pair)
    BY <2>2, TypedIsSeq
  <2>. QED
    BY <2>3, <2>4, SeqIs
<1>4. Joins(two, rs, pair)
  BY <1>2, <1>3, Joined DEF RowsAre
<1>5. PICK n \in Nat : n = Len(rs) /\ DOMAIN rs = 1..n
  BY DomainIs
<1>6. IsSeq(two) /\ Len(two) = n + 2 /\ \A i \in DOMAIN rs : two[i] = rs[i]
  BY <1>3, <1>4, <1>5 DEF Joins
<1>7. DOMAIN two = 1..(n + 2)
  BY <1>6, SeqIs
<1>8. two[n + 1] = r /\ two[n + 2] = s
  <2>1. 1 \in DOMAIN pair /\ 2 \in DOMAIN pair
    BY <1>3
  <2>2. /\ \E i \in DOMAIN two \ DOMAIN rs : i = Len(rs) + 1 /\ two[i] = pair[1]
        /\ \E i \in DOMAIN two \ DOMAIN rs : i = Len(rs) + 2 /\ two[i] = pair[2]
    BY <1>4, <2>1 DEF Joins
  <2>. QED
    BY <1>3, <1>5, <2>2
<1>9. PICK m \in Nat : GrownAt(rs, r, one, m)
  BY <1>1 DEF Grown
<1>10. m = n + 1
  <2>1. IsSeq(one) /\ DOMAIN one = 1..n \cup {m} /\ m \notin 1..n
    BY <1>1, <1>5, <1>9 DEF Grown, GrownAt
  <2>2. PICK l \in Nat : DOMAIN one = 1..l
    BY <2>1, SeqIs
  <2>3. m \in 1..l
    BY <2>1, <2>2
  <2>4. m > n
    BY <2>1, <2>3
  <2>5. n + 1 \in 1..l
    BY <2>3, <2>4
  <2>6. n + 1 \in 1..n \cup {m}
    BY <2>1, <2>2, <2>5
  <2>. QED
    BY <2>6
<1>11. GrownAt(one, s, two, n + 2)
  <2>1. DOMAIN one = 1..n \cup {n + 1} /\ one[n + 1] = r /\ \A i \in 1..n : one[i] = rs[i]
    BY <1>5, <1>9, <1>10 DEF GrownAt
  <2>2. 1..(n + 2) = (1..n \cup {n + 1}) \cup {n + 2} /\ n + 2 \notin 1..n \cup {n + 1}
    <3>1. /\ \A x \in 1..(n + 2) : x \in 1..n \/ x = n + 1 \/ x = n + 2
          /\ \A x \in 1..n : x \in 1..(n + 2)
          /\ n + 1 \in 1..(n + 2) /\ n + 2 \in 1..(n + 2)
      OBVIOUS
    <3>2. n + 2 \notin 1..n \cup {n + 1}
      OBVIOUS
    <3>. QED
      BY <3>1, <3>2
  <2>3. \A i \in 1..n \cup {n + 1} : i < n + 2
    OBVIOUS
  <2>4. \A i \in DOMAIN one : two[i] = one[i]
    BY <1>5, <1>6, <1>8, <2>1
  <2>. QED
    BY <1>7, <1>8, <2>1, <2>2, <2>3, <2>4 DEF GrownAt
<1>12. n + 2 \in Nat
  OBVIOUS
<1>. QED
  BY <1>1, <1>6, <1>11, <1>12 DEF Grown

\* A row may follow after another that reverses none.
LEMMA FollowsLater ==
  ASSUME NEW rs, NEW r, MayFollow(rs, r), NEW s, s.reverses = 0, NEW rt, Grown(rs, s, rt)
  PROVE  MayFollow(rt, r)
BY DEF MayFollow, Grown, GrownAt

\* An entry taken out on its day, and one that comes in the same day.
LEMMA SwapDone ==
  ASSUME IInv, NEW i \in DOMAIN rows, Live(i), rows[i].type = "IN", NEW q \in Quantities,
         NEW ref, NEW cost, NEW value,
         \A d \in 1..MaxDay : d >= rows[i].day =>
           Closing(rows, DOMAIN rows, d) - rows[i].qty + q >= 0,
         NEW rs, rs = rows \o <<Row("OUT", ref, rows[i].qty, rows[i].day, cost, i, 0),
                                Row("IN", ref, q, rows[i].day, value, 0, 0)>>,
         NEW b, b.qty = balance.qty - rows[i].qty + q,
         NEW k, RowsAre(rs) => Keeps(k, rs, b), Becomes(k)
  PROVE  Done
<1>1. PICK s : s = rows[i]
  OBVIOUS
<1>2. RowIs(s) /\ s.type = "IN" /\ s.qty \in Quantities
  BY <1>1, RowsHave
<1>3. PICK r, t, one : /\ r = Row("OUT", ref, s.qty, s.day, cost, i, 0)
                       /\ t = Row("IN", ref, q, s.day, value, 0, 0)
                       /\ one = Append(rows, r)
  OBVIOUS
<1>4. PICK p \in Nat \ {0}, v \in Nat \ {0}, e \in 1..MaxDay : p = s.qty /\ v = q /\ e = s.day
  BY <1>2, QuantitiesAre DEF RowIs
<1>5. RowIs(r) /\ r.type = "OUT" /\ r.qty = p /\ r.day = e /\ r.reverses = i
  BY <1>3, <1>4, RowHas
<1>6. RowIs(t) /\ t.type = "IN" /\ t.qty = v /\ t.day = e /\ t.reverses = 0
  BY <1>3, <1>4, RowHas
<1>7. Signed(r) = -p /\ Signed(t) = v /\ Signed(rows[i]) = p
  BY <1>1, <1>2, <1>4, <1>5, <1>6 DEF Signed
<1>8. MayFollow(rows, r)
  BY <1>5, <1>7, Reversal
<1>9. MayFollow(one, t)
  BY <1>6 DEF MayFollow
<1>10. RowsAre(rows)
  BY DEF IInv
<1>11. Grown(rows, r, one) /\ Grown(one, t, rs)
  <2>1. rs = rows \o <<r, t>>
    BY <1>1, <1>3
  <2>. QED
    BY <1>3, <1>10, <2>1, TwoAdded
<1>12. Keeps(k, rs, b)
  BY <1>8, <1>9, <1>10, <1>11, RowsStayRows
<1>13. r.qty \in Quantities /\ t.qty \in Quantities
  BY <1>2, <1>4, <1>5, <1>6
<1>14. ASSUME NEW d \in 1..MaxDay
       PROVE  /\ FromDay(r, d) + FromDay(t, d) = IF e <= d THEN v - p ELSE 0
              /\ Closing(rows, DOMAIN rows, d) + FromDay(r, d) + FromDay(t, d) >= 0
              /\ FromDay(r, d) \in Int /\ FromDay(t, d) \in Int
  <2>1. PICK c \in Int : c = Closing(rows, DOMAIN rows, d) /\ c >= 0
    BY <1>10, ClosingInt DEF IInv, NoneOwed
  <2>2. FromDay(r, d) = (IF e <= d THEN -p ELSE 0) /\ FromDay(t, d) = (IF e <= d THEN v ELSE 0)
    BY <1>5, <1>6, <1>7 DEF FromDay
  <2>3. e <= d => c - p + v >= 0
    BY <1>1, <1>4, <2>1
  <2>. QED
    BY <2>1, <2>2, <2>3
<1>15. b.qty = balance.qty + Signed(r) + Signed(t)
  <2>1. balance.qty \in Int
    BY QtyIsInt
  <2>. QED
    BY <1>1, <1>4, <1>7, <2>1
<1>16. /\ IInv'
       /\ \A d \in 1..MaxDay : Closings'[d] = Closings[d] + FromDay(r, d) + FromDay(t, d)
  <2>1. \A d \in 1..MaxDay : Closing(rows, DOMAIN rows, d) + FromDay(r, d) + FromDay(t, d) >= 0
    BY <1>14
  <2>. QED
    BY <1>8, <1>9, <1>11, <1>12, <1>13, <1>15, <2>1, TwoRows
<1>17. \A d \in 1..MaxDay : Closings[d] \in Int
  BY ClosingsAre
<1>18. \A d \in 1..MaxDay : Closings'[d] = Closings[d] + IF e <= d THEN v - p ELSE 0
  BY <1>14, <1>16, <1>17
<1>19. StockStep
  <2>1. CASE v = p
    <3>1. \A d \in 1..MaxDay : Closings'[d] = Closings[d]
      BY <1>17, <1>18, <2>1
    <3>. QED
      BY <1>16, <3>1, ClosingsStay
  <2>2. CASE v # p
    <3>1. v \in 1..MaxQty /\ p \in 1..MaxQty
      BY <1>2, <1>4, QtyMoved
    <3>2. PICK g \in 1..MaxQty : v - p = g \/ v - p = -g
      <4>1. MaxQty \in Nat
        BY QtyMoved, QuantitiesAre, KardexAssumption DEF MaxQty
      <4>2. v > p => v - p \in 1..MaxQty
        BY <3>1, <4>1
      <4>3. v < p => p - v \in 1..MaxQty /\ v - p = -(p - v)
        BY <3>1, <4>1
      <4>. QED
        BY <2>2, <4>2, <4>3
    <3>3. v - p \in Int
      OBVIOUS
    <3>. QED
      BY <1>16, <1>18, <3>2, <3>3, StockMoves
  <2>. QED
    BY <2>1, <2>2
<1>. QED
  BY <1>16, <1>19 DEF Done

LEMMA ReplaceEntryDone ==
  ASSUME IInv, ReplaceEntry PROVE Done
<1>1. PICK i \in DOMAIN rows, q \in Quantities, u \in UnitCosts :
        /\ IsEntry(i)
        /\ q < rows[i].qty => FitsReplacement(rows, rows[i].day, rows[i].qty, q)
        /\ Becomes(Kardex(rows \o <<Row("OUT", rows[i].ref, rows[i].qty, rows[i].day, rows[i].recorded, i, 0),
                                    Row("IN", rows[i].ref, q, rows[i].day, q * u, 0, 0)>>,
                          AfterIn(AfterReverseIn(balance, rows[i].qty, rows[i].recorded), q, q * u),
                          pending))
  BY DEF ReplaceEntry
<1>2. PICK ref, cost, value : ref = rows[i].ref /\ cost = rows[i].recorded /\ value = q * u
  OBVIOUS
<1>3. PICK rs, b :
        /\ rs = rows \o <<Row("OUT", ref, rows[i].qty, rows[i].day, cost, i, 0),
                          Row("IN", ref, q, rows[i].day, value, 0, 0)>>
        /\ b = AfterIn(AfterReverseIn(balance, rows[i].qty, cost), q, value)
  OBVIOUS
<1>4. PICK k : k = Kardex(rs, b, pending)
  OBVIOUS
<1>5. Becomes(k)
  BY <1>1, <1>2, <1>3, <1>4
<1>6. Live(i) /\ rows[i].type = "IN"
  BY <1>1 DEF IsEntry
<1>7. BalanceIs(b) /\ b.qty = balance.qty - rows[i].qty + q
  BY <1>3, BalanceHas DEF AfterIn, AfterReverseIn
<1>8. RowsAre(rs) => Keeps(k, rs, b)
  BY <1>4, <1>7, StaysSame, KardexKeeps
<1>9. ASSUME NEW d \in 1..MaxDay, d >= rows[i].day
      PROVE  Closing(rows, DOMAIN rows, d) - rows[i].qty + q >= 0
  <2>1. RowsAre(rows) /\ NoneOwed(rows)
    BY DEF IInv
  <2>2. PICK p \in Nat, e \in Nat, v \in Nat : p = rows[i].qty /\ e = rows[i].day /\ v = q
    BY RowsHave, QuantitiesAre DEF RowIs
  <2>3. PICK c \in Int : c = Closing(rows, DOMAIN rows, d) /\ c >= 0
    BY <2>1, ClosingInt DEF NoneOwed
  <2>4. CASE v < p
    <3>1. FitsReplacement(rows, e, p, v)
      BY <1>1, <2>2, <2>4
    <3>2. d \in Nat /\ d >= e
      BY <1>9, <2>2
    <3>3. Closing(rows, DOMAIN rows, d) - p + v >= 0
      BY <2>1, <3>1, <3>2, ReplacementFitsEveryDay
    <3>. QED
      BY <2>2, <3>3
  <2>5. CASE ~(v < p)
    <3>1. c - p + v >= 0
      BY <2>3, <2>5
    <3>. QED
      BY <2>2, <2>3, <3>1
  <2>. QED
    BY <2>4, <2>5
<1>10. \A d \in 1..MaxDay : d >= rows[i].day =>
         Closing(rows, DOMAIN rows, d) - rows[i].qty + q >= 0
  BY <1>9
<1>. QED
  BY <1>3, <1>5, <1>6, <1>7, <1>8, <1>10, SwapDone

LEMMA ReenterDone ==
  ASSUME IInv, Reenter PROVE Done
<1>1. PICK i \in DOMAIN rows, u \in UnitCosts :
        /\ IsEntry(i)
        /\ LET r == rows[i]
               rs == rows \o <<Row("OUT", r.ref, r.qty, r.day, r.effective, i, 0),
                               Row("IN", r.ref, r.qty, r.day, r.qty * u, 0, 0)>>
               out == AfterReverseIn(balance, r.qty, r.effective)
           IN  Becomes(Settled(rs, AfterIn(out, r.qty, r.qty * u), r.day, After(rs, Len(rs))))
  BY DEF Reenter
<1>2. PICK q, ref, cost, value :
        q = rows[i].qty /\ ref = rows[i].ref /\ cost = rows[i].effective /\ value = rows[i].qty * u
  OBVIOUS
<1>3. PICK rs, b :
        /\ rs = rows \o <<Row("OUT", ref, rows[i].qty, rows[i].day, cost, i, 0),
                          Row("IN", ref, q, rows[i].day, value, 0, 0)>>
        /\ b = AfterIn(AfterReverseIn(balance, rows[i].qty, cost), q, value)
  OBVIOUS
<1>4. PICK k : k = Settled(rs, b, rows[i].day, After(rs, Len(rs)))
  OBVIOUS
<1>5. Becomes(k)
  BY <1>1, <1>2, <1>3, <1>4
<1>6. Live(i) /\ rows[i].type = "IN"
  BY <1>1 DEF IsEntry
<1>7. BalanceIs(b) /\ b.qty = balance.qty - rows[i].qty + q
  BY <1>3, BalanceHas DEF AfterIn, AfterReverseIn
<1>8. RowsAre(rs) => Keeps(k, rs, b)
  BY <1>4, <1>7, SettledKeeps
<1>9. q \in Quantities
  BY <1>2, <1>6, RowsHave
<1>10. ASSUME NEW d \in 1..MaxDay
       PROVE  Closing(rows, DOMAIN rows, d) - rows[i].qty + q >= 0
  <2>1. RowsAre(rows) /\ NoneOwed(rows)
    BY DEF IInv
  <2>2. PICK c \in Int : c = Closing(rows, DOMAIN rows, d) /\ c >= 0
    BY <2>1, ClosingInt DEF NoneOwed
  <2>3. PICK v \in Int : v = q
    BY <1>9, QuantitiesAre
  <2>4. c - v + v >= 0
    BY <2>2
  <2>. QED
    BY <1>2, <2>2, <2>3, <2>4
<1>. QED
  BY <1>3, <1>5, <1>6, <1>7, <1>8, <1>9, <1>10, SwapDone

LEMMA RedateDone ==
  ASSUME IInv, Redate PROVE Done
<1>1. PICK i \in DOMAIN rows, d \in Days :
        LET r == rows[i]
            withIn == Append(rows, Row("IN", r.ref, r.qty, d, r.recorded, 0, 0))
            rs == Append(withIn, Row("OUT", r.ref, r.qty, r.day, r.effective, i, 0))
            b == AfterIn(balance, r.qty, r.recorded)
        IN  /\ IsEntry(i) /\ d < r.day
            /\ Becomes(RecostForward(rs, AfterReverseIn(b, r.qty, r.effective),
                                     After(rs, Len(withIn)), <<>>, MaxReplayed))
  BY DEF Redate
<1>2. PICK s : s = rows[i]
  OBVIOUS
<1>3. PICK t, r : /\ t = Row("IN", s.ref, s.qty, d, s.recorded, 0, 0)
                  /\ r = Row("OUT", s.ref, s.qty, s.day, s.effective, i, 0)
  OBVIOUS
<1>4. PICK one, rs : one = Append(rows, t) /\ rs = Append(one, r)
  OBVIOUS
<1>5. PICK b : b = AfterReverseIn(AfterIn(balance, s.qty, s.recorded), s.qty, s.effective)
  OBVIOUS
<1>6. PICK k : k = RecostForward(rs, b, After(rs, Len(one)), <<>>, MaxReplayed)
  OBVIOUS
<1>7. Becomes(k) /\ Live(i) /\ s.type = "IN" /\ d < s.day
  BY <1>1, <1>2, <1>3, <1>4, <1>5, <1>6 DEF IsEntry
<1>8. RowIs(s) /\ s.qty \in Quantities
  BY <1>2, <1>7, RowsHave
<1>9. PICK q \in Nat \ {0}, e \in 1..MaxDay, a \in 1..MaxDay : q = s.qty /\ e = s.day /\ a = d
  BY <1>8, QuantitiesAre, DaysIn DEF RowIs
<1>10. RowIs(t) /\ t.type = "IN" /\ t.qty = q /\ t.day = a /\ t.reverses = 0
  BY <1>3, <1>9, RowHas
<1>11. RowIs(r) /\ r.type = "OUT" /\ r.qty = q /\ r.day = e /\ r.reverses = i
  BY <1>3, <1>9, RowHas
<1>12. Signed(t) = q /\ Signed(r) = -q /\ Signed(rows[i]) = q
  BY <1>2, <1>7, <1>9, <1>10, <1>11 DEF Signed
<1>13. MayFollow(rows, t)
  BY <1>10 DEF MayFollow
<1>14. RowsAre(rows)
  BY DEF IInv
<1>15. Grown(rows, t, one)
  BY <1>4, <1>14, RowAdded
<1>16. MayFollow(one, r)
  <2>1. MayFollow(rows, r)
    BY <1>7, <1>11, <1>12, Reversal
  <2>. QED
    BY <1>10, <1>15, <2>1, FollowsLater
<1>17. RowsAre(one)
  BY <1>13, <1>14, <1>15, RowsStayRows
<1>18. Grown(one, r, rs)
  BY <1>4, <1>17, RowAdded
<1>19. RowsAre(rs)
  BY <1>16, <1>17, <1>18, RowsStayRows
<1>20. BalanceIs(b) /\ b.qty = balance.qty + q - q
  <2>1. PICK c : c = AfterIn(balance, s.qty, s.recorded)
    OBVIOUS
  <2>2. c.qty = balance.qty + s.qty
    BY <2>1, BalanceHas DEF AfterIn
  <2>3. b = AfterReverseIn(c, s.qty, s.effective)
    BY <1>5, <2>1
  <2>4. BalanceIs(b) /\ b.qty = c.qty - s.qty
    BY <2>3, BalanceHas DEF AfterReverseIn
  <2>5. balance.qty \in Int
    BY QtyIsInt
  <2>. QED
    BY <1>9, <2>2, <2>4, <2>5
<1>21. b.qty = balance.qty + Signed(t) + Signed(r)
  <2>1. balance.qty \in Int
    BY QtyIsInt
  <2>. QED
    BY <1>12, <1>20, <2>1
<1>22. Keeps(k, rs, b)
  BY <1>6, <1>19, <1>20, RecostForwardKeeps
<1>23. ASSUME NEW x \in 1..MaxDay
       PROVE  /\ FromDay(t, x) + FromDay(r, x) = IF a <= x /\ x < e THEN q ELSE 0
              /\ Closing(rows, DOMAIN rows, x) + FromDay(t, x) + FromDay(r, x) >= 0
              /\ FromDay(t, x) \in Int /\ FromDay(r, x) \in Int
  <2>1. PICK c \in Int : c = Closing(rows, DOMAIN rows, x) /\ c >= 0
    BY <1>14, ClosingInt DEF IInv, NoneOwed
  <2>2. FromDay(t, x) = (IF a <= x THEN q ELSE 0) /\ FromDay(r, x) = (IF e <= x THEN -q ELSE 0)
    BY <1>10, <1>11, <1>12 DEF FromDay
  <2>3. a < e
    BY <1>7, <1>9
  <2>. QED
    BY <2>1, <2>2, <2>3
<1>24. /\ IInv'
       /\ \A x \in 1..MaxDay : Closings'[x] = Closings[x] + FromDay(t, x) + FromDay(r, x)
  <2>1. \A x \in 1..MaxDay : Closing(rows, DOMAIN rows, x) + FromDay(t, x) + FromDay(r, x) >= 0
    BY <1>23
  <2>2. t.qty \in Quantities /\ r.qty \in Quantities
    BY <1>8, <1>9, <1>10, <1>11
  <2>. QED
    BY <1>7, <1>13, <1>15, <1>16, <1>18, <1>21, <1>22, <2>1, <2>2, TwoRows
<1>25. StockStep
  <2>1. PICK st, af : st = Closings /\ af = Closings'
    OBVIOUS
  <2>2. \A x \in 1..MaxDay : Closings[x] \in Int
    BY ClosingsAre
  <2>3. \A x \in 1..MaxDay : af[x] = IF a <= x /\ x < e THEN st[x] + q ELSE st[x]
    BY <1>23, <1>24, <2>1, <2>2
  <2>4. af = [x \in 1..MaxDay |-> af[x]]
    BY <2>1 DEF Closings
  <2>5. af = Stock!Shifted(st, a, e, q)
    BY <2>3, <2>4 DEF Stock!Shifted, Stock!Days
  <2>6. Stock!MoveBack(st, af, a, e, q)
    BY <1>7, <1>9, <2>5 DEF Stock!MoveBack
  <2>7. q \in 1..MaxQty
    BY <1>8, <1>9, QtyMoved
  <2>8. Stock!Moves(st, af)
    BY <2>6, <2>7 DEF Stock!Moves, Stock!Days, MaxQty
  <2>9. Stock!Next
    BY <2>1, <2>8 DEF Stock!Next
  <2>. QED
    BY <2>9 DEF StockStep
<1>. QED
  BY <1>24, <1>25 DEF Done

-----------------------------------------------------------------------------
(* The theorems.                                                            *)

LEMMA NextDone ==
  ASSUME IInv, [Next]_vars PROVE Done
<1>1. CASE RecordIn
  BY <1>1, RecordInDone
<1>2. CASE RecordSurplus
  BY <1>2, RecordSurplusDone
<1>3. CASE Dispatch
  BY <1>3, RecordOutDone DEF Dispatch
<1>4. CASE Liquidate
  BY <1>4, RecordOutDone DEF Liquidate
<1>5. CASE RecordReturn
  BY <1>5, RecordReturnDone
<1>6. CASE ReverseRow
  BY <1>6, ReverseRowDone
<1>7. CASE ReplaceEntry
  BY <1>7, ReplaceEntryDone
<1>8. CASE Reenter
  BY <1>8, ReenterDone
<1>9. CASE Redate
  BY <1>9, RedateDone
<1>10. CASE AdjustCost
  BY <1>10, AdjustCostDone
<1>11. CASE RecostEntry
  BY <1>11, RecostEntryDone
<1>12. CASE CompletePending
  BY <1>12, CompletePendingDone
<1>13. CASE UNCHANGED vars
  <2>1. rows' = rows /\ balance' = balance /\ item' = item
    BY <1>13 DEF vars
  <2>2. IInv'
    BY <2>1 DEF IInv
  <2>3. Closings' = Closings
    BY <2>1 DEF Closings
  <2>. QED
    BY <2>2, <2>3 DEF Done, StockStep
<1>. QED
  BY <1>1, <1>2, <1>3, <1>4, <1>5, <1>6, <1>7, <1>8, <1>9, <1>10, <1>11, <1>12, <1>13 DEF Next

LEMMA IInvStep ==
  IInv /\ [Next]_vars => IInv' /\ StockStep
BY NextDone DEF Done

THEOREM KardexInvariant == Spec => []IInv
<1>1. Init => IInv
  BY InitIInv
<1>2. IInv /\ [Next]_vars => IInv'
  BY IInvStep
<1>. QED
  BY <1>1, <1>2, PTL DEF Spec

\* No day ever closes below zero, for any kardex: InventoryService.record, reverse and
\* replaceEntry, and the corrections of an entry, in any order and with any dates, leave
\* behind what assertNoNegativeAtDate asks (D-652).
THEOREM NoDateIsNegativeHolds == Spec => []NoDateIsNegative
<1>1. IInv => NoDateIsNegative
  <2> SUFFICES ASSUME IInv PROVE NoDateIsNegative
    OBVIOUS
  <2>1. NoneOwed(rows)
    BY DEF IInv
  <2>. QED
    BY <2>1, DaysIn DEF NoneOwed, NoDateIsNegative
<1>. QED
  BY <1>1, KardexInvariant, PTL

\* The quantity of the balance is the one of the kardex: carried forward row by row
\* (stockAfterIn, stockAfterReverseIn and the rest), it is what all the rows add up to,
\* and it is never below zero.
BalanceIsTheSum == balance.qty = SumOf(rows, DOMAIN rows) /\ balance.qty >= 0

THEOREM BalanceIsTheSumHolds == Spec => []BalanceIsTheSum
<1>1. IInv => BalanceIsTheSum
  <2> SUFFICES ASSUME IInv PROVE BalanceIsTheSum
    OBVIOUS
  <2>1. RowsAre(rows) /\ NoneOwed(rows) /\ balance.qty = SumOf(rows, DOMAIN rows)
    BY DEF IInv
  <2>2. MaxDay \in 1..MaxDay /\ MaxDay \in Nat
    BY KardexAssumption
  <2>3. ~HasLater(rows, MaxDay)
    BY <2>1, <2>2 DEF HasLater, RowsAre, RowIs
  <2>4. Closing(rows, DOMAIN rows, MaxDay) = SumOf(rows, DOMAIN rows)
    BY <2>1, <2>2, <2>3, NothingLater
  <2>5. Closing(rows, DOMAIN rows, MaxDay) >= 0
    BY <2>1, <2>2 DEF NoneOwed
  <2>. QED
    BY <2>1, <2>4, <2>5 DEF BalanceIsTheSum
<1>. QED
  BY <1>1, KardexInvariant, PTL

\* Seen by day the kardex is the stock of DatedStock: every operation of
\* inventory.service.ts and of its callers puts a quantity in at a day, or takes one out
\* that every day from there on has, or finds that an entry came in earlier.
THEOREM KardexIsAStock == Spec => StockSpec
<1>1. Init => Stock!Init
  <2> SUFFICES ASSUME Init PROVE Stock!Init
    OBVIOUS
  <2>1. rows = <<>>
    BY DEF Init
  <2>2. DOMAIN rows = {}
    BY <2>1
  <2>3. \A d : Closing(rows, DOMAIN rows, d) = 0
    <3>1. ASSUME NEW d PROVE Closing(rows, DOMAIN rows, d) = 0
      <4>1. {i \in DOMAIN rows : rows[i].day <= d} = {}
        BY <2>2
      <4>. QED
        BY <4>1, SumOfNone DEF Closing
    <3>. QED
      BY <3>1
  <2>4. Closings = [d \in 1..MaxDay |-> 0]
    BY <2>3 DEF Closings
  <2>. QED
    BY <2>4 DEF Stock!Init, Stock!Days
<1>2. IInv /\ [Next]_vars => [Stock!Next]_Closings
  BY IInvStep DEF StockStep
<1>. QED
  BY <1>1, <1>2, KardexInvariant, PTL DEF Spec, StockSpec, Stock!Spec

-----------------------------------------------------------------------------
(* The costs of an item.                                                    *)

\* A walk along some rows, as the function of the sets of rows that it is.
Start(rs) == [stock |-> NoStock, cost |-> [i \in DOMAIN rs |-> rs[i].effective]]
IsWalk(rs, replayed, overrides, S, g) ==
  g = [s \in SUBSET S |->
         IF s = {} THEN Start(rs)
         ELSE Replayed(rs, replayed, overrides, g[s \ {LastOf(rs, s)}], LastOf(rs, s))]

LEMMA LastOfIs ==
  ASSUME NEW rs, RowsAre(rs), NEW S \in SUBSET DOMAIN rs, S # {}
  PROVE  LastIn(rs, S, LastOf(rs, S))
<1>1. \E i \in S : \A j \in S : j = i \/ Before(rs, j, i)
  BY LastRow DEF LastIn
<1>. QED
  BY <1>1 DEF LastOf, LastIn

LEMMA WalkIsFunction ==
  ASSUME NEW rs, NEW replayed, NEW overrides, NEW S, NEW g, IsWalk(rs, replayed, overrides, S, g),
         NEW s \in SUBSET S
  PROVE  g[s] = IF s = {} THEN Start(rs)
                ELSE Replayed(rs, replayed, overrides, g[s \ {LastOf(rs, s)}], LastOf(rs, s))
<1> DEFINE h == [t \in SUBSET S |->
                   IF t = {} THEN Start(rs)
                   ELSE Replayed(rs, replayed, overrides, g[t \ {LastOf(rs, t)}], LastOf(rs, t))]
<1>1. g = h
  BY DEF IsWalk
<1>2. h[s] = IF s = {} THEN Start(rs)
             ELSE Replayed(rs, replayed, overrides, g[s \ {LastOf(rs, s)}], LastOf(rs, s))
  OBVIOUS
<1> HIDE DEF h
<1>. QED
  BY <1>1, <1>2

\* Two walks agree where both are defined.
LEMMA WalkIsOne ==
  ASSUME NEW rs, RowsAre(rs), NEW replayed, NEW overrides, NEW S \in SUBSET DOMAIN rs,
         NEW R \in SUBSET DOMAIN rs, NEW g, NEW h, IsWalk(rs, replayed, overrides, S, g),
         IsWalk(rs, replayed, overrides, R, h), NEW s \in SUBSET S, s \in SUBSET R
  PROVE  g[s] = h[s]
<1> DEFINE Is(t, f) == f[t] = IF t = {} THEN Start(rs)
             ELSE Replayed(rs, replayed, overrides, f[t \ {LastOf(rs, t)}], LastOf(rs, t))
<1>10. \A t \in SUBSET S : Is(t, g)
  BY WalkIsFunction
<1>11. \A t \in SUBSET R : Is(t, h)
  BY WalkIsFunction
<1> DEFINE T == {t \in SUBSET S : t \subseteq R /\ g[t] # h[t]}
<1> SUFFICES ASSUME T # {} PROVE FALSE
  OBVIOUS
<1>0. IsFiniteSet(S)
  BY QtyInt
<1>1. PICK U \in T : \A V \in T : V \subseteq U => V = U
  <2>1. T \subseteq SUBSET S
    OBVIOUS
  <2> HIDE DEF T
  <2>. QED
    BY <1>0, <2>1, LeastSet
<1>2. U \in SUBSET S /\ U \in SUBSET R /\ g[U] # h[U]
  OBVIOUS
<1>12. Is(U, g) /\ Is(U, h)
  <2> HIDE DEF Is
  <2>. QED
    BY <1>2, <1>10, <1>11
<1>3. U # {}
  BY <1>2, <1>12
<1>4. PICK p : p = LastOf(rs, U)
  OBVIOUS
<1>5. p \in U
  BY <1>2, <1>3, <1>4, LastOfIs DEF LastIn
<1>6. PICK V : V = U \ {p}
  OBVIOUS
<1>7. g[V] = h[V]
  BY <1>1, <1>2, <1>5, <1>6
<1>8. g[U] = Replayed(rs, replayed, overrides, g[V], p)
  BY <1>3, <1>4, <1>6, <1>12
<1>9. h[U] = Replayed(rs, replayed, overrides, h[V], p)
  BY <1>3, <1>4, <1>6, <1>12
<1>. QED
  BY <1>2, <1>7, <1>8, <1>9

\* And there is one, along any rows.
LEMMA WalkExists ==
  ASSUME NEW rs, RowsAre(rs), NEW replayed, NEW overrides, NEW S \in SUBSET DOMAIN rs
  PROVE  \E g : IsWalk(rs, replayed, overrides, S, g)
<1> DEFINE W(t, g) == IsWalk(rs, replayed, overrides, t, g)
           T == {t \in SUBSET S : ~\E g : W(t, g)}
<1> SUFFICES ASSUME T # {} PROVE FALSE
  OBVIOUS
<1>0. IsFiniteSet(S)
  BY QtyInt
<1>1. PICK U \in T : \A V \in T : V \subseteq U => V = U
  <2>1. T \subseteq SUBSET S
    OBVIOUS
  <2> HIDE DEF T
  <2>. QED
    BY <1>0, <2>1, LeastSet
<1> DEFINE Fun(t) == CHOOSE g : W(t, g)
           Rest(t) == t \ {LastOf(rs, t)}
           Onto(t, acc) == Replayed(rs, replayed, overrides, acc, LastOf(rs, t))
           new == [t \in SUBSET U |-> IF t = {} THEN Start(rs) ELSE Onto(t, Fun(Rest(t))[Rest(t)])]
<1>2. ASSUME NEW V \in SUBSET U, V # U PROVE W(V, Fun(V))
  <2>1. V \notin T /\ V \in SUBSET S
    BY <1>1, <1>2
  <2>2. \E g : W(V, g)
    BY <2>1
  <2> HIDE DEF W
  <2>. QED
    BY <2>2
<1>3. ASSUME NEW t \in SUBSET U, t # {}
      PROVE  Rest(t) \in SUBSET U /\ Rest(t) # U /\ LastOf(rs, t) \in t
  <2>1. t \in SUBSET DOMAIN rs
    OBVIOUS
  <2>2. LastOf(rs, t) \in t
    BY <1>3, <2>1, LastOfIs DEF LastIn
  <2>. QED
    BY <2>2
<1>4. ASSUME NEW V \in SUBSET U, V # U PROVE new[V] = Fun(V)[V]
  <2>1. CASE V = {}
    <3>1. new[V] = Start(rs)
      BY <2>1
    <3>2. Fun(V)[V] = Start(rs)
      <4>1. W(V, Fun(V))
        BY <1>2, <1>4
      <4> HIDE DEF Fun
      <4>. QED
        BY <2>1, <4>1, WalkIsFunction DEF W
    <3>. QED
      BY <3>1, <3>2
  <2>2. CASE V # {}
    <3>1. PICK X : X = Rest(V)
      OBVIOUS
    <3>2. X \in SUBSET U /\ X # U /\ X \in SUBSET V
      BY <1>3, <2>2, <3>1
    <3>3. W(V, Fun(V)) /\ W(X, Fun(X))
      BY <1>2, <1>4, <3>2
    <3>4. V \in SUBSET DOMAIN rs /\ X \in SUBSET DOMAIN rs
      BY <3>2
    <3>5. Fun(V)[V] = Onto(V, Fun(V)[X])
      <4> HIDE DEF Fun
      <4>. QED
        BY <2>2, <3>1, <3>3, WalkIsFunction
    <3>6. Fun(V)[X] = Fun(X)[X]
      <4>1. PICK f, h : f = Fun(V) /\ h = Fun(X)
        OBVIOUS
      <4>2. IsWalk(rs, replayed, overrides, V, f) /\ IsWalk(rs, replayed, overrides, X, h)
        BY <3>3, <4>1
      <4>3. X \in SUBSET X
        OBVIOUS
      <4> HIDE DEF Fun, T, new
      <4>4. f[X] = h[X]
        BY <3>2, <3>4, <4>2, <4>3, WalkIsOne
      <4>. QED
        BY <4>1, <4>4
    <3>7. new[V] = Onto(V, Fun(X)[X])
      <4> HIDE DEF Onto, Fun
      <4>. QED
        BY <2>2, <3>1
    <3> HIDE DEF Fun, Onto, new
    <3>. QED
      BY <3>5, <3>6, <3>7
  <2>. QED
    BY <2>1, <2>2
<1>5. W(U, new)
  <2>1. PICK now : now = new
    OBVIOUS
  <2>2. ASSUME NEW t \in SUBSET U, t # {}
        PROVE  Onto(t, Fun(Rest(t))[Rest(t)]) = Onto(t, now[t \ {LastOf(rs, t)}])
    <3>1. new[Rest(t)] = Fun(Rest(t))[Rest(t)]
      <4> HIDE DEF new, Fun, Rest, Onto
      <4>. QED
        BY <1>3, <1>4, <2>2
    <3>2. Rest(t) = t \ {LastOf(rs, t)}
      OBVIOUS
    <3> HIDE DEF new, Fun, Rest, Onto
    <3>. QED
      BY <2>1, <3>1, <3>2
  <2>3. new = [t \in SUBSET U |-> IF t = {} THEN Start(rs) ELSE Onto(t, now[t \ {LastOf(rs, t)}])]
    <3> HIDE DEF Fun, Rest, Onto
    <3>. QED
      BY <2>2
  <2>4. now = [t \in SUBSET U |-> IF t = {} THEN Start(rs) ELSE Onto(t, now[t \ {LastOf(rs, t)}])]
    <3> HIDE DEF new, Onto
    <3>. QED
      BY <2>1, <2>3
  <2>5. W(U, now)
    <3> HIDE DEF new
    <3>. QED
      BY <2>4 DEF IsWalk
  <2> HIDE DEF new, W
  <2>. QED
    BY <2>1, <2>5
<1>6. U \in T
  OBVIOUS
<1>. QED
  <2>1. ~\E g : W(U, g)
    BY <1>6
  <2> HIDE DEF W, new, T
  <2>. QED
    BY <1>5, <2>1

LEMMA AlongUnfolds ==
  ASSUME NEW rs, NEW S, NEW replayed, NEW overrides
  PROVE  Along(rs, S, replayed, overrides)
         = (CHOOSE g : IsWalk(rs, replayed, overrides, S, g))[S]
BY DEF Along, MapThenFoldSet, IsWalk, Start

\* The two equations of a walk.
LEMMA AlongNone ==
  ASSUME NEW rs, RowsAre(rs), NEW replayed, NEW overrides
  PROVE  Along(rs, {}, replayed, overrides) = Start(rs)
<1> DEFINE g == CHOOSE g : IsWalk(rs, replayed, overrides, {}, g)
<1>1. {} \in SUBSET DOMAIN rs
  OBVIOUS
<1>2. IsWalk(rs, replayed, overrides, {}, g)
  BY <1>1, WalkExists
<1>3. g[{}] = Start(rs)
  <2> HIDE DEF g
  <2>. QED
    BY <1>2, WalkIsFunction
<1>. QED
  BY <1>3, AlongUnfolds

LEMMA AlongLast ==
  ASSUME NEW rs, RowsAre(rs), NEW replayed, NEW overrides, NEW S \in SUBSET DOMAIN rs, S # {},
         NEW i, i = LastOf(rs, S)
  PROVE  Along(rs, S, replayed, overrides)
         = Replayed(rs, replayed, overrides, Along(rs, S \ {i}, replayed, overrides), i)
<1> DEFINE Fun(t) == CHOOSE g : IsWalk(rs, replayed, overrides, t, g)
<1>1. PICK R : R = S \ {i}
  OBVIOUS
<1>2. R \in SUBSET DOMAIN rs /\ R \in SUBSET S /\ R \in SUBSET R /\ S \in SUBSET S
  BY <1>1
<1>3. IsWalk(rs, replayed, overrides, S, Fun(S)) /\ IsWalk(rs, replayed, overrides, R, Fun(R))
  BY <1>2, WalkExists
<1>4. /\ Along(rs, S, replayed, overrides) = Fun(S)[S]
      /\ Along(rs, R, replayed, overrides) = Fun(R)[R]
  BY AlongUnfolds
<1> HIDE DEF Fun
<1>5. Fun(S)[S] = Replayed(rs, replayed, overrides, Fun(S)[R], i)
  BY <1>1, <1>2, <1>3, WalkIsFunction
<1>6. Fun(S)[R] = Fun(R)[R]
  BY <1>2, <1>3, WalkIsOne
<1>. QED
  BY <1>1, <1>4, <1>5, <1>6

\* A cost is a number of ten-thousandths.
LEMMA HalfUpInt ==
  ASSUME NEW a \in Int, NEW b \in Int, b > 0
  PROVE  HalfUp(a, b) \in Int
<1>1. PICK c \in Int : c = 2 * b /\ c > 0
  OBVIOUS
<1>2. PICK x \in Int, y \in Int : x = 2 * a + b /\ y = b - 2 * a
  OBVIOUS
<1>3. x \div c \in Int /\ y \div c \in Int
  BY <1>1
<1>4. HalfUp(a, b) = IF a >= 0 THEN x \div c ELSE -(y \div c)
  BY <1>1, <1>2 DEF HalfUp
<1>. QED
  BY <1>3, <1>4

LEMMA SizeIs ==
  ASSUME NEW x \in Int
  PROVE  Size(x) \in Int /\ (x >= 0 => Size(x) = x) /\ (x < 0 => Size(x) = -x)
BY DEF Size

StockIs(s) == s \in [qty : Int, value : Int]

LEMMA MovedIs ==
  ASSUME NEW s, StockIs(s), NEW r, RowIs(r), NEW cost \in Int
  PROVE  StockIs(Moved(s, r, cost))
<1>1. s.qty \in Int /\ s.value \in Int /\ r.qty \in Int /\ r.type \in {"IN", "OUT", "ADJUST"}
  BY DEF StockIs, RowIs
<1>2. CASE r.type = "IN"
  BY <1>1, <1>2 DEF Moved, StockIs
<1>3. CASE r.type = "OUT"
  BY <1>1, <1>3 DEF Moved, StockIs
<1>4. CASE r.type = "ADJUST"
  <2>1. Moved(s, r, cost) = [s EXCEPT !.value = @ + cost]
    BY <1>4 DEF Moved
  <2>. QED
    BY <1>1, <2>1 DEF StockIs
<1>. QED
  BY <1>1, <1>2, <1>3, <1>4

LEMMA AverageInt ==
  ASSUME NEW s, StockIs(s), NEW q \in Int
  PROVE  AverageOutCost(s, q) \in Int
<1>1. PICK n \in Int, v \in Int : n = s.qty /\ v = s.value
  BY DEF StockIs
<1>2. PICK x \in Int : x = q * v
  OBVIOUS
<1>3. n > 0 => HalfUp(x, n) \in Int
  BY HalfUpInt
<1>4. AverageOutCost(s, q) = CASE n <= 0 -> 0
                               [] n > 0 /\ q >= n -> IF v < 0 THEN 0 ELSE v
                               [] OTHER -> HalfUp(x, n)
  BY <1>1, <1>2 DEF AverageOutCost
<1> HIDE DEF HalfUp
<1>. QED
  BY <1>3, <1>4

LEMMA AtAverageInt ==
  ASSUME NEW s, StockIs(s), NEW r, RowIs(r), r.effective \in Int
  PROVE  AtAverage(s, r) \in Int
<1>1. PICK n \in Int, v \in Int, q \in Int : n = s.qty /\ v = s.value /\ q = r.qty
  BY DEF StockIs, RowIs
<1>2. PICK x \in Int : x = q * v
  OBVIOUS
<1>3. PICK at : at = IF r.type = "OUT" THEN AverageOutCost(s, r.qty) ELSE HalfUp(r.qty * s.value, s.qty)
  OBVIOUS
<1>4. n > 0 => at \in Int
  <2>1. AverageOutCost(s, q) \in Int
    BY AverageInt
  <2>2. n > 0 => HalfUp(x, n) \in Int
    BY HalfUpInt
  <2>. QED
    BY <1>1, <1>2, <1>3, <2>1, <2>2
<1>5. AtAverage(s, r) = IF n <= 0 \/ IsRoundingNoise(at - r.effective, r.qty) THEN r.effective ELSE at
  BY <1>1, <1>3 DEF AtAverage
<1>. QED
  BY <1>4, <1>5

-----------------------------------------------------------------------------
(* The costs of a kardex.                                                   *)

Near(x, y) == Size(x - y) < MinDelta

\* What a row cost, and costs.
CostIs(r) ==
  r.recorded \in Int /\ r.effective \in Int /\ (~r.recosted => r.effective = r.recorded)

\* A row and its reversal, which comes after it.
Cancels(rs, i, j) ==
  /\ Before(rs, i, j) /\ (rs[j].type = "ADJUST" <=> rs[i].type = "ADJUST")
  /\ rs[j].type # "ADJUST" => Near(rs[j].effective, rs[i].effective)

CostsAre(rs) ==
  \A j \in DOMAIN rs : /\ CostIs(rs[j])
                       /\ rs[j].reverses # 0 => Cancels(rs, rs[j].reverses, j)
                       /\ Rule(rs[j]) = "RETURN" => rs[j].returns \in DOMAIN rs

\* The costs a replay is given: of entries.
Given(rs, overrides) ==
  \A i \in DOMAIN rs : i \in DOMAIN overrides =>
    overrides[i] \in Int /\ rs[i].type = "IN" /\ rs[i].reverses = 0

\* A walk over some rows: a reversal costs what the row it reverses does.
CostOf(rs, replayed, c, i, cost) ==
  /\ (i \notin replayed \/ rs[i].type = "ADJUST") => c = rs[i].effective
  /\ (i \in replayed /\ rs[i].reverses # 0 /\ rs[i].type # "ADJUST") => c = cost[rs[i].reverses]

Walks(rs, replayed, S, acc) ==
  /\ StockIs(acc.stock) /\ acc.cost \in [DOMAIN rs -> Int]
  /\ \A i \in DOMAIN rs : IF i \in S THEN CostOf(rs, replayed, acc.cost[i], i, acc.cost)
                                     ELSE acc.cost[i] = rs[i].effective

LEMMA FollowIs ==
  ASSUME NEW rs, RowsAre(rs), CostsAre(rs), NEW replayed, NEW S, NEW acc, Walks(rs, replayed, S, acc),
         NEW i \in DOMAIN rs, NEW c, c = FollowCost(rs, acc.cost, rs[i]),
         Rule(rs[i]) \in {"REVERSAL", "RETURN"}
  PROVE  /\ c \in Int
         /\ rs[i].reverses # 0 => IF rs[i].type = "ADJUST" THEN c = rs[i].effective
                                                         ELSE c = acc.cost[rs[i].reverses]
<1>1. PICK r : r = rs[i]
  OBVIOUS
<1>2. RowIs(r) /\ r.qty \in Int /\ CostIs(r)
  BY <1>1 DEF RowsAre, RowIs, CostsAre
<1>3. CASE Rule(r) = "RETURN"
  <2>1. r.reverses = 0 /\ r.returns \in DOMAIN rs
    BY <1>1, <1>3 DEF Rule, CostsAre
  <2>2. PICK n \in Int : n = rs[r.returns].qty /\ n > 0
    BY <2>1 DEF RowsAre, RowIs
  <2>3. PICK x \in Int : x = acc.cost[r.returns]
    BY <2>1 DEF Walks
  <2>4. c = HalfUp(x * r.qty, n)
    BY <1>1, <1>3, <2>2, <2>3 DEF FollowCost
  <2>5. PICK y \in Int : y = x * r.qty
    BY <1>2
  <2>. QED
    BY <1>1, <2>1, <2>2, <2>4, <2>5, HalfUpInt
<1>4. CASE Rule(r) = "REVERSAL"
  <2>1. r.reverses # 0
    BY <1>4 DEF Rule
  <2>2. PICK k \in DOMAIN rs : k = r.reverses /\ Cancels(rs, k, i)
    BY <1>1, <2>1 DEF RowsAre, Reverses, CostsAre
  <2>3. PICK x \in Int : x = acc.cost[k]
    BY DEF Walks
  <2>4. c = IF rs[k].type # "ADJUST" THEN x
            ELSE IF rs[k].effective = 0 \/ x = rs[k].effective THEN r.effective
            ELSE HalfUp(r.recorded * x, rs[k].effective)
    BY <1>1, <1>4, <2>2, <2>3 DEF FollowCost
  <2>5. CASE rs[k].type = "ADJUST"
    <3>1. x = rs[k].effective
      BY <2>3, <2>5 DEF Walks, CostOf
    <3>2. r.type = "ADJUST"
      BY <1>1, <2>2, <2>5 DEF Cancels
    <3>. QED
      BY <1>1, <1>2, <2>4, <2>5, <3>1, <3>2 DEF CostIs
  <2>6. CASE rs[k].type # "ADJUST"
    <3>1. r.type # "ADJUST"
      BY <1>1, <2>2, <2>6 DEF Cancels
    <3>. QED
      BY <1>1, <2>1, <2>2, <2>3, <2>4, <2>6, <3>1
  <2>. QED
    BY <2>5, <2>6
<1>. QED
  BY <1>1, <1>3, <1>4

LEMMA RuleIs ==
  ASSUME NEW r, RowIs(r)
  PROVE  /\ Rule(r) \in {"REVERSAL", "RETURN", "AVERAGE", "FIXED"}
         /\ r.reverses # 0 => Rule(r) = "REVERSAL"
         /\ (r.reverses = 0 /\ r.type = "ADJUST") => Rule(r) = "FIXED"
BY DEF Rule, RowIs

LEMMA RowCostIs ==
  ASSUME NEW rs, RowsAre(rs), CostsAre(rs), NEW replayed, NEW overrides, Given(rs, overrides),
         NEW S, NEW acc, Walks(rs, replayed, S, acc),
         NEW i \in DOMAIN rs, NEW c, c = CostOfRow(rs, replayed, overrides, acc, i)
  PROVE  c \in Int /\ CostOf(rs, replayed, c, i, acc.cost)
<1>1. PICK r : r = rs[i]
  OBVIOUS
<1>2. RowIs(r) /\ CostIs(r) /\ r.effective \in Int
  BY <1>1 DEF RowsAre, CostsAre, CostIs
<1>3. CASE i \notin replayed
  BY <1>1, <1>2, <1>3 DEF CostOfRow, CostOf
<1>4. CASE i \in replayed /\ i \in DOMAIN overrides
  BY <1>4 DEF CostOfRow, CostOf, Given
<1>5. CASE i \in replayed /\ i \notin DOMAIN overrides
  <2>1. c = CASE Rule(r) = "AVERAGE" -> AtAverage(acc.stock, r)
              [] Rule(r) \in {"REVERSAL", "RETURN"} -> FollowCost(rs, acc.cost, r)
              [] OTHER -> r.effective
    BY <1>1, <1>5 DEF CostOfRow
  <2>2. CASE Rule(r) = "AVERAGE"
    <3>1. c \in Int
      BY <1>2, <2>1, <2>2, AtAverageInt DEF Walks
    <3>. QED
      BY <1>1, <1>2, <1>5, <2>2, <3>1, RuleIs DEF CostOf
  <2>3. CASE Rule(r) \in {"REVERSAL", "RETURN"}
    <3>1. c = FollowCost(rs, acc.cost, rs[i]) /\ Rule(rs[i]) \in {"REVERSAL", "RETURN"}
      BY <1>1, <2>1, <2>3
    <3>2. /\ c \in Int
          /\ rs[i].reverses # 0 => IF rs[i].type = "ADJUST" THEN c = rs[i].effective
                                                          ELSE c = acc.cost[rs[i].reverses]
      BY <3>1, FollowIs
    <3>3. rs[i].type = "ADJUST" => rs[i].reverses # 0
      BY <1>1, <1>2, <2>3, RuleIs
    <3>. QED
      BY <1>5, <3>2, <3>3 DEF CostOf
  <2>4. CASE Rule(r) = "FIXED"
    BY <1>1, <1>2, <1>5, <2>1, <2>4, RuleIs DEF CostOf
  <2>. QED
    BY <1>2, <2>2, <2>3, <2>4, RuleIs
<1>. QED
  BY <1>3, <1>4, <1>5

LEMMA WalkGoes ==
  ASSUME NEW rs, RowsAre(rs), CostsAre(rs), NEW replayed, NEW overrides, Given(rs, overrides),
         NEW S \in SUBSET DOMAIN rs, NEW i \in DOMAIN rs, LastIn(rs, S, i),
         NEW R, R = S \ {i}, NEW acc, Walks(rs, replayed, R, acc)
  PROVE  Walks(rs, replayed, S, Replayed(rs, replayed, overrides, acc, i))
<1>1. PICK c : c = CostOfRow(rs, replayed, overrides, acc, i)
  OBVIOUS
<1>2. c \in Int /\ CostOf(rs, replayed, c, i, acc.cost)
  BY <1>1, RowCostIs
<1>3. PICK s, cost : s = Moved(acc.stock, rs[i], c) /\ cost = [acc.cost EXCEPT ![i] = c]
  OBVIOUS
<1>4. PICK next : next = Replayed(rs, replayed, overrides, acc, i)
  OBVIOUS
<1>5. next.stock = s /\ next.cost = cost
  BY <1>1, <1>3, <1>4 DEF Replayed
<1>6. StockIs(s)
  BY <1>2, <1>3, MovedIs DEF Walks, RowsAre
<1>7. cost \in [DOMAIN rs -> Int] /\ cost[i] = c /\ \A j \in DOMAIN rs : j # i => cost[j] = acc.cost[j]
  BY <1>2, <1>3 DEF Walks
<1>8. i \in S /\ i \notin R
  BY DEF LastIn
<1>9. ASSUME NEW j \in DOMAIN rs
      PROVE  IF j \in S THEN CostOf(rs, replayed, cost[j], j, cost) ELSE cost[j] = rs[j].effective
  <2>1. rs[j].reverses # 0 => rs[j].reverses \in DOMAIN rs /\ Before(rs, rs[j].reverses, j)
    BY DEF RowsAre, Reverses, CostsAre, Cancels
  <2>2. CASE j = i
    <3>1. rs[j].reverses # 0 => rs[j].reverses # i
      BY <2>1, <2>2, DomainIs DEF Before
    <3>. QED
      BY <1>2, <1>7, <1>8, <2>1, <2>2, <3>1 DEF CostOf
  <2>3. CASE j # i /\ j \in S
    <3>1. j \in R /\ Before(rs, j, i)
      BY <2>3 DEF LastIn
    <3>2. CostOf(rs, replayed, acc.cost[j], j, acc.cost)
      BY <3>1 DEF Walks
    <3>3. rs[j].reverses # 0 => rs[j].reverses # i
      BY <2>1, <3>1, DomainIs DEF Before
    <3>. QED
      BY <1>7, <2>1, <2>3, <3>2, <3>3 DEF CostOf
  <2>4. CASE j # i /\ j \notin S
    BY <1>7, <2>4 DEF Walks
  <2>. QED
    BY <1>8, <2>2, <2>3, <2>4
<1>10. Walks(rs, replayed, S, next)
  BY <1>5, <1>6, <1>7, <1>9 DEF Walks
<1>. QED
  BY <1>4, <1>10

LEMMA AlongWalks ==
  ASSUME NEW rs, RowsAre(rs), CostsAre(rs), NEW replayed, NEW overrides, Given(rs, overrides),
         NEW S \in SUBSET DOMAIN rs
  PROVE  Walks(rs, replayed, S, Along(rs, S, replayed, overrides))
<1> DEFINE Holds(t) == Walks(rs, replayed, t, Along(rs, t, replayed, overrides))
           T == {t \in SUBSET S : ~Holds(t)}
<1> SUFFICES ASSUME T # {} PROVE FALSE
  OBVIOUS
<1>0. IsFiniteSet(S)
  BY QtyInt
<1>1. PICK U \in T : \A V \in T : V \subseteq U => V = U
  <2>1. T \subseteq SUBSET S
    OBVIOUS
  <2> HIDE DEF T
  <2>. QED
    BY <1>0, <2>1, LeastSet
<1>2. U \in SUBSET S /\ U \in SUBSET DOMAIN rs /\ ~Holds(U)
  OBVIOUS
<1>3. CASE U = {}
  <2>1. Along(rs, U, replayed, overrides) = Start(rs)
    BY <1>3, AlongNone
  <2>2. PICK acc : acc = Start(rs)
    OBVIOUS
  <2>3. StockIs(acc.stock)
    BY <2>2 DEF Start, NoStock, StockIs
  <2>4. acc.cost \in [DOMAIN rs -> Int] /\ \A i \in DOMAIN rs : acc.cost[i] = rs[i].effective
    BY <2>2 DEF Start, CostsAre, CostIs
  <2>5. Walks(rs, replayed, U, acc)
    BY <1>3, <2>3, <2>4 DEF Walks
  <2>. QED
    BY <1>2, <2>1, <2>2, <2>5
<1>4. CASE U # {}
  <2>1. PICK i : i = LastOf(rs, U)
    OBVIOUS
  <2>2. LastIn(rs, U, i)
    BY <1>2, <1>4, <2>1, LastOfIs
  <2>3. i \in U /\ i \in DOMAIN rs
    BY <1>2, <2>2 DEF LastIn
  <2>4. PICK R : R = U \ {i}
    OBVIOUS
  <2>5. R \in SUBSET S /\ R \subseteq U /\ R # U
    BY <1>2, <2>3, <2>4
  <2>6. Holds(R)
    BY <1>1, <2>5
  <2>7. Along(rs, U, replayed, overrides)
        = Replayed(rs, replayed, overrides, Along(rs, R, replayed, overrides), i)
    BY <1>2, <1>4, <2>1, <2>4, AlongLast
  <2>8. PICK acc : acc = Along(rs, R, replayed, overrides)
    OBVIOUS
  <2>9. Walks(rs, replayed, R, acc)
    BY <2>6, <2>8
  <2> HIDE DEF T
  <2>10. Walks(rs, replayed, U, Replayed(rs, replayed, overrides, acc, i))
    BY <1>2, <2>2, <2>3, <2>4, <2>9, WalkGoes
  <2>. QED
    BY <1>2, <2>7, <2>8, <2>10
<1>. QED
  BY <1>3, <1>4

\* What a replay makes the rows cost.
LEMMA ReplayCosts ==
  ASSUME NEW rs, RowsAre(rs), CostsAre(rs), NEW replayed, NEW overrides, Given(rs, overrides),
         NEW cost, cost = Replay(rs, replayed, overrides)
  PROVE  \A i \in DOMAIN rs : cost[i] \in Int /\ CostOf(rs, replayed, cost[i], i, cost)
<1>1. PICK S : S = DOMAIN rs
  OBVIOUS
<1>2. S \in SUBSET DOMAIN rs
  BY <1>1
<1>3. PICK acc : acc = Along(rs, S, replayed, overrides)
  OBVIOUS
<1>4. Walks(rs, replayed, S, acc)
  BY <1>2, <1>3, AlongWalks
<1>5. cost = acc.cost
  BY <1>1, <1>3 DEF Replay
<1>. QED
  BY <1>1, <1>4, <1>5 DEF Walks

LEMMA NothingGiven ==
  ASSUME NEW rs PROVE Given(rs, <<>>)
BY DEF Given

LEMMA StockUpToDateIs ==
  ASSUME NEW rs, RowsAre(rs), CostsAre(rs), NEW d
  PROVE  StockIs(StockUpToDate(rs, d))
<1>1. PICK S : S = {i \in DOMAIN rs : rs[i].day <= d}
  OBVIOUS
<1>2. S \in SUBSET DOMAIN rs
  BY <1>1
<1>3. PICK none : none = <<>>
  OBVIOUS
<1>4. Given(rs, none)
  BY <1>3, NothingGiven
<1>5. PICK acc : acc = Along(rs, S, {}, none)
  OBVIOUS
<1>6. Walks(rs, {}, S, acc)
  BY <1>2, <1>4, <1>5, AlongWalks
<1>7. StockUpToDate(rs, d) = acc.stock
  BY <1>1, <1>3, <1>5 DEF StockUpToDate, StockAfter
<1>. QED
  BY <1>6, <1>7 DEF Walks

\* A balance, in money.
Money(b) == b.qty \in Int /\ b.avg \in Int

LEMMA BalanceMoney ==
  ASSUME NEW q \in Int, NEW v \in Int
  PROVE  Money(Balance(q, v))
<1>1. q > 0 => HalfUp(v, q) \in Int
  BY HalfUpInt
<1>2. Balance(q, v).qty = q /\ Balance(q, v).avg = IF q <= 0 THEN 0 ELSE HalfUp(v, q)
  BY DEF Balance
<1>. QED
  BY <1>1, <1>2 DEF Money

\* With a row, its replay takes all that comes after it.
Onward(rs, replayed) ==
  \A i \in DOMAIN rs : \A j \in DOMAIN rs : (i \in replayed /\ Before(rs, i, j)) => j \in replayed

\* The rows corrected.
Fixed(rs, replayed, cost) ==
  [i \in DOMAIN rs |->
     IF i \in Corrected(rs, replayed, cost)
     THEN [rs[i] EXCEPT !.effective = cost[i], !.recosted = TRUE] ELSE rs[i]]

LEMMA FixedIs ==
  ASSUME NEW rs, RowsAre(rs), NEW replayed, NEW cost, NEW rt, rt = Fixed(rs, replayed, cost)
  PROVE  /\ DOMAIN rt = DOMAIN rs /\ Recosts(rs, rt)
         /\ \A i \in DOMAIN rs :
              /\ rt[i].type = rs[i].type /\ rt[i].ref = rs[i].ref /\ rt[i].day = rs[i].day
              /\ rt[i].reverses = rs[i].reverses /\ rt[i].returns = rs[i].returns
              /\ rt[i].recorded = rs[i].recorded
              /\ IF i \in Corrected(rs, replayed, cost)
                 THEN rt[i].effective = cost[i] /\ rt[i].recosted
                 ELSE rt[i] = rs[i]
<1>1. PICK n \in Nat : DOMAIN rs = 1..n
  BY DomainIs
<1>2. DOMAIN rt = DOMAIN rs
  BY DEF Fixed
<1>3. IsSeq(rt)
  <2>1. rt = [k \in 1..n |-> rt[k]]
    BY <1>1 DEF Fixed
  <2>. QED
    BY <2>1, FunctionIsSeq
<1>4. ASSUME NEW i \in DOMAIN rs
      PROVE  /\ RowIs(rt[i]) /\ SameQty(rs[i], rt[i])
             /\ rt[i].type = rs[i].type /\ rt[i].ref = rs[i].ref /\ rt[i].day = rs[i].day
             /\ rt[i].reverses = rs[i].reverses /\ rt[i].returns = rs[i].returns
             /\ rt[i].recorded = rs[i].recorded
             /\ IF i \in Corrected(rs, replayed, cost)
                THEN rt[i].effective = cost[i] /\ rt[i].recosted
                ELSE rt[i] = rs[i]
  <2>1. PICK r : r = rs[i]
    OBVIOUS
  <2>2. RowIs(r) /\ DOMAIN r = Fields
    BY <2>1 DEF RowsAre, RowIs
  <2>3. CASE i \in Corrected(rs, replayed, cost)
    <3>1. rt[i] = [r EXCEPT !.effective = cost[i], !.recosted = TRUE]
      BY <2>1, <2>3 DEF Fixed
    <3>2. RowIs(rt[i]) /\ SameQty(r, rt[i])
      BY <2>2, <3>1, RowCosts
    <3>. QED
      BY <2>1, <2>2, <2>3, <3>1, <3>2 DEF Fields
  <2>4. CASE i \notin Corrected(rs, replayed, cost)
    <3>1. rt[i] = rs[i]
      BY <2>4 DEF Fixed
    <3>. QED
      BY <2>1, <2>2, <2>4, <3>1 DEF SameQty
  <2>. QED
    BY <2>3, <2>4
<1>5. Recosts(rs, rt)
  BY <1>2, <1>3, <1>4 DEF Recosts
<1>. QED
  BY <1>2, <1>4, <1>5

\* A recost leaves a row and its reversal together.
LEMMA FixedCosts ==
  ASSUME NEW rs, RowsAre(rs), CostsAre(rs), NEW replayed, Onward(rs, replayed),
         NEW overrides, Given(rs, overrides), NEW cost, cost = Replay(rs, replayed, overrides),
         NEW rt, rt = Fixed(rs, replayed, cost)
  PROVE  CostsAre(rt)
<1>1. \A i \in DOMAIN rs : cost[i] \in Int /\ CostOf(rs, replayed, cost[i], i, cost)
  BY ReplayCosts
<1>2. DOMAIN rt = DOMAIN rs
  BY FixedIs
<1>3. ASSUME NEW i \in DOMAIN rs
      PROVE  /\ rt[i].type = rs[i].type /\ rt[i].ref = rs[i].ref /\ rt[i].day = rs[i].day
             /\ rt[i].reverses = rs[i].reverses /\ rt[i].returns = rs[i].returns
             /\ rt[i].recorded = rs[i].recorded
             /\ IF i \in Corrected(rs, replayed, cost)
                THEN rt[i].effective = cost[i] /\ rt[i].recosted
                ELSE rt[i] = rs[i]
  BY FixedIs
<1>4. \A i \in DOMAIN rs :
        (i \in Corrected(rs, replayed, cost)) <=>
        (i \in replayed /\ Size(cost[i] - rs[i].effective) >= MinDelta)
  <2>1. MinDelta \in Nat
    BY KardexAssumption
  <2>2. ASSUME NEW i \in DOMAIN rs, i \in replayed, i \notin Corrected(rs, replayed, cost)
        PROVE  ~(Size(cost[i] - rs[i].effective) >= MinDelta)
    BY <2>2 DEF Corrected
  <2>. QED
    BY <2>2 DEF Corrected
<1>5. MinDelta \in Nat \ {0}
  BY KardexAssumption
<1>6. ASSUME NEW i \in DOMAIN rs
      PROVE  /\ CostIs(rt[i])
             /\ i \in replayed => \/ rt[i].effective = cost[i]
                                  \/ rt[i] = rs[i] /\ Near(cost[i], rs[i].effective)
             /\ i \notin replayed => rt[i] = rs[i] /\ cost[i] = rs[i].effective
  <2>1. CostIs(rs[i]) /\ cost[i] \in Int
    BY <1>1 DEF CostsAre
  <2>2. Size(cost[i] - rs[i].effective) \in Int
    BY <2>1, SizeIs DEF CostIs
  <2>3. i \notin replayed => cost[i] = rs[i].effective
    BY <1>1 DEF CostOf
  <2>. QED
    BY <1>3, <1>4, <1>5, <2>1, <2>2, <2>3 DEF CostIs, Near
<1>7. ASSUME NEW j \in DOMAIN rs
      PROVE  /\ rt[j].reverses # 0 => Cancels(rt, rt[j].reverses, j)
             /\ Rule(rt[j]) = "RETURN" => rt[j].returns \in DOMAIN rt
  <2>1. Rule(rt[j]) = Rule(rs[j])
    BY <1>3 DEF Rule
  <2>2. ASSUME rs[j].reverses # 0 PROVE Cancels(rt, rs[j].reverses, j)
    <3>1. PICK i \in DOMAIN rs : i = rs[j].reverses /\ Cancels(rs, i, j)
      BY <2>2 DEF RowsAre, Reverses, CostsAre
    <3>2. Before(rt, i, j) /\ (rt[j].type = "ADJUST" <=> rt[i].type = "ADJUST")
      BY <1>3, <3>1 DEF Cancels, Before
    <3>3. ASSUME rs[j].type # "ADJUST" PROVE Near(rt[j].effective, rt[i].effective)
      <4>1. PICK a \in Int, b \in Int : a = rs[j].effective /\ b = rs[i].effective
        BY DEF CostsAre, CostIs
      <4>2. PICK c \in Int : c = cost[i]
        BY <1>1
      <4>3. Near(a, b)
        BY <3>1, <3>3, <4>1 DEF Cancels
      <4>4. CASE j \notin replayed
        <5>1. i \notin replayed
          BY <3>1, <4>4 DEF Onward, Cancels
        <5>. QED
          BY <1>6, <4>1, <4>3, <4>4, <5>1
      <4>5. CASE j \in replayed
        <5>1. cost[j] = c
          BY <1>1, <2>2, <3>1, <3>3, <4>2, <4>5 DEF CostOf
        <5>2. rt[j].effective = c \/ (rt[j].effective = a /\ Near(c, a))
          BY <1>6, <4>1, <4>5, <5>1
        <5>3. rt[i].effective = c \/ (rt[i].effective = b /\ Near(c, b))
          BY <1>6, <4>1, <4>2
        <5>4. Near(c, c) /\ (Near(c, a) => Near(a, c))
          BY <1>5, SizeIs DEF Near
        <5>. QED
          BY <4>3, <5>2, <5>3, <5>4
      <4>. QED
        BY <4>4, <4>5
    <3>. QED
      BY <1>3, <3>1, <3>2, <3>3 DEF Cancels
  <2>3. Rule(rs[j]) = "RETURN" => rs[j].returns \in DOMAIN rs
    BY DEF CostsAre
  <2>. QED
    BY <1>2, <1>3, <2>1, <2>2, <2>3
<1>. QED
  BY <1>2, <1>6, <1>7 DEF CostsAre

\* What a kardex is in money.
Costs(k) == CostsAre(k.rows) /\ Money(k.balance)

LEMMA RecostForwardCosts ==
  ASSUME NEW rs, RowsAre(rs), CostsAre(rs), NEW b, Money(b), NEW replayed, Onward(rs, replayed),
         NEW overrides, Given(rs, overrides), NEW limit
  PROVE  Costs(RecostForward(rs, b, replayed, overrides, limit))
<1>1. PICK cost : cost = Replay(rs, replayed, overrides)
  OBVIOUS
<1>2. PICK fixed : fixed = Fixed(rs, replayed, cost)
  OBVIOUS
<1>3. CostsAre(fixed)
  BY <1>1, <1>2, FixedCosts
<1>4. RowsAre(fixed)
  BY <1>2, FixedIs, RecostKeepsRows
<1>5. PICK value \in Int : value = StockUpToDate(fixed, MaxDay).value
  BY <1>3, <1>4, StockUpToDateIs DEF StockIs
<1>6. PICK left : left = IF Corrected(rs, replayed, cost) = {} \/ b.qty <= 0 THEN b
                         ELSE Balance(b.qty, IF value < 0 THEN 0 ELSE value)
  OBVIOUS
<1>7. Money(left)
  <2>1. PICK v \in Int : v = IF value < 0 THEN 0 ELSE value
    OBVIOUS
  <2>2. Money(Balance(b.qty, v))
    BY BalanceMoney DEF Money
  <2>. QED
    BY <1>6, <2>1, <2>2
<1>8. RecostForward(rs, b, replayed, overrides, limit)
      = IF Cardinality(replayed) > limit THEN Kardex(rs, b, TRUE) ELSE Kardex(fixed, left, pending)
  BY <1>1, <1>2, <1>5, <1>6 DEF RecostForward, Fixed
<1>9. Costs(Kardex(rs, b, TRUE)) /\ Costs(Kardex(fixed, left, pending))
  BY <1>3, <1>7 DEF Costs, Kardex
<1>. QED
  BY <1>8, <1>9

\* The rows after one, and from it on.
LEMMA AfterIsOnward ==
  ASSUME NEW rs, RowsAre(rs), NEW i \in DOMAIN rs
  PROVE  Onward(rs, After(rs, i)) /\ Onward(rs, From(rs, i)) /\ Onward(rs, DOMAIN rs)
BY BeforeIsAnOrder DEF Onward, After, From

LEMMA SettledCosts ==
  ASSUME NEW rs, RowsAre(rs), CostsAre(rs), NEW b, Money(b), NEW d, NEW i \in DOMAIN rs
  PROVE  Costs(Settled(rs, b, d, After(rs, i)))
<1>1. PICK none : none = <<>>
  OBVIOUS
<1>2. PICK replayed : replayed = After(rs, i)
  OBVIOUS
<1>3. Onward(rs, replayed) /\ Given(rs, none)
  BY <1>1, <1>2, AfterIsOnward, NothingGiven
<1>4. Costs(RecostForward(rs, b, replayed, none, MaxReplayed))
  BY <1>3, RecostForwardCosts
<1>5. Costs(Kardex(rs, b, pending))
  BY DEF Costs, Kardex
<1>. QED
  BY <1>1, <1>2, <1>4, <1>5 DEF Settled

-----------------------------------------------------------------------------
(* A row more, in money.                                                    *)

\* What a row that may be written costs.
MayCost(rs, r) ==
  /\ CostIs(r)
  /\ r.reverses # 0 =>
       /\ rs[r.reverses].day <= r.day
       /\ r.type = "ADJUST" <=> rs[r.reverses].type = "ADJUST"
       /\ r.type # "ADJUST" => r.effective = rs[r.reverses].effective
  /\ (r.reverses = 0 /\ r.type = "IN" /\ r.ref = "SALES_RETURN") => r.returns \in DOMAIN rs

LEMMA CostsAdded ==
  ASSUME NEW rs, RowsAre(rs), CostsAre(rs), NEW r, MayFollow(rs, r), MayCost(rs, r),
         NEW rt, Grown(rs, r, rt)
  PROVE  CostsAre(rt)
<1>1. PICK m \in Nat : GrownAt(rs, r, rt, m)
  BY DEF Grown
<1>2. ASSUME NEW j \in DOMAIN rs
      PROVE  /\ CostIs(rt[j]) /\ (rt[j].reverses # 0 => Cancels(rt, rt[j].reverses, j))
             /\ Rule(rt[j]) = "RETURN" => rt[j].returns \in DOMAIN rt
  <2>1. rt[j] = rs[j] /\ DOMAIN rs \subseteq DOMAIN rt
    BY <1>1 DEF GrownAt
  <2>2. /\ CostIs(rs[j]) /\ (rs[j].reverses # 0 => Cancels(rs, rs[j].reverses, j))
        /\ Rule(rs[j]) = "RETURN" => rs[j].returns \in DOMAIN rs
    BY DEF CostsAre
  <2>3. ASSUME rs[j].reverses # 0 PROVE Cancels(rt, rs[j].reverses, j)
    <3>1. rs[j].reverses \in DOMAIN rs
      BY <2>3 DEF RowsAre, Reverses
    <3>2. rt[rs[j].reverses] = rs[rs[j].reverses]
      BY <1>1, <3>1 DEF GrownAt
    <3>. QED
      BY <2>1, <2>2, <2>3, <3>2 DEF Cancels, Before
  <2>. QED
    BY <2>1, <2>2, <2>3
<1>3. /\ CostIs(r) /\ (r.reverses # 0 => Cancels(rt, r.reverses, m))
      /\ Rule(r) = "RETURN" => r.returns \in DOMAIN rt
  <2>1. ASSUME r.reverses # 0 PROVE Cancels(rt, r.reverses, m)
    <3>1. PICK i \in DOMAIN rs : i = r.reverses
      BY <2>1 DEF MayFollow
    <3>2. rt[m] = r /\ rt[i] = rs[i] /\ i < m
      BY <1>1, <3>1 DEF GrownAt
    <3>3. Before(rt, i, m)
      <4>1. rs[i].day \in Nat /\ r.day \in Nat
        BY DomainIs DEF MayFollow, RowIs
      <4>. QED
        BY <2>1, <3>1, <3>2, <4>1 DEF Before, MayCost
    <3>4. r.type # "ADJUST" => Near(r.effective, rs[i].effective)
      <4>1. MinDelta \in Nat \ {0}
        BY KardexAssumption
      <4>2. ASSUME NEW x \in Int PROVE Near(x, x)
        BY <4>1, SizeIs DEF Near
      <4>. QED
        BY <2>1, <3>1, <4>2 DEF MayCost, CostIs
    <3>. QED
      BY <2>1, <3>1, <3>2, <3>3, <3>4 DEF Cancels, MayCost
  <2>2. Rule(r) = "RETURN" => r.returns \in DOMAIN rs
    BY DEF Rule, MayCost
  <2>3. DOMAIN rs \subseteq DOMAIN rt
    BY <1>1 DEF GrownAt
  <2>. QED
    BY <2>1, <2>2, <2>3 DEF MayCost
<1>4. DOMAIN rt = DOMAIN rs \cup {m} /\ rt[m] = r
  BY <1>1 DEF GrownAt
<1>. QED
  BY <1>2, <1>3, <1>4 DEF CostsAre

LEMMA RowMoney ==
  ASSUME NEW type, NEW ref, NEW q, NEW d, NEW cost \in Int, NEW reverses, NEW returns,
         NEW r, r = Row(type, ref, q, d, cost, reverses, returns)
  PROVE  CostIs(r) /\ r.effective = cost /\ r.ref = ref /\ r.returns = returns
BY DEF Row, CostIs

\* A row that reverses none, in money.
LEMMA NewMoney ==
  ASSUME NEW rs, NEW type \in {"IN", "OUT", "ADJUST"}, NEW ref, NEW q \in Nat \ {0},
         NEW d \in 1..MaxDay, NEW cost \in Int, NEW returns,
         (type = "IN" /\ ref = "SALES_RETURN") => returns \in DOMAIN rs,
         NEW r, r = Row(type, ref, q, d, cost, 0, returns)
  PROVE  MayFollow(rs, r) /\ MayCost(rs, r)
<1>1. MayFollow(rs, r) /\ r.type = type /\ r.reverses = 0
  BY NewRow
<1>2. CostIs(r) /\ r.ref = ref /\ r.returns = returns
  BY RowMoney
<1>. QED
  BY <1>1, <1>2 DEF MayCost

\* The invariant of the costs, and what a step does to it.
CInv == CostsAre(rows) /\ balance.avg \in Int

LEMMA Paid ==
  ASSUME NEW k, Costs(k), Becomes(k)
  PROVE  CInv'
<1>1. rows' = k.rows /\ balance' = k.balance
  BY DEF Becomes
<1>2. CostsAre(k.rows) /\ k.balance.avg \in Int
  BY DEF Costs, Money
<1>. QED
  BY <1>1, <1>2 DEF CInv

LEMMA LastIsThere ==
  ASSUME NEW rs, RowsAre(rs), NEW r, NEW rt, RowsAre(rt), Grown(rs, r, rt)
  PROVE  Len(rt) \in DOMAIN rt
<1>1. PICK m \in Nat : m \in DOMAIN rt
  BY DEF Grown, GrownAt
<1>. QED
  BY <1>1, DomainIs

LEMMA RowPaid ==
  ASSUME IInv, CInv, NEW r, MayFollow(rows, r), MayCost(rows, r), NEW b, Money(b), Record(r, b)
  PROVE  CInv'
<1>1. PICK rs : rs = Append(rows, r)
  OBVIOUS
<1>2. RowsAre(rows) /\ CostsAre(rows)
  BY DEF IInv, CInv
<1>3. Grown(rows, r, rs)
  BY <1>1, <1>2, RowAdded
<1>4. RowsAre(rs) /\ CostsAre(rs)
  BY <1>2, <1>3, RowsStayRows, CostsAdded
<1>5. PICK k : k = Settled(rs, b, r.day, After(rs, Len(rs)))
  OBVIOUS
<1>6. PICK n : n = Len(rs) /\ n \in DOMAIN rs
  BY <1>2, <1>3, <1>4, LastIsThere
<1>7. Costs(k)
  BY <1>4, <1>5, <1>6, SettledCosts
<1>8. Becomes(k)
  BY <1>1, <1>5 DEF Record
<1>. QED
  BY <1>7, <1>8, Paid

\* What the balance comes to.
LEMMA BalanceHasMoney ==
  IInv /\ CInv => Money(balance)
BY QtyIsInt DEF CInv, Money

LEMMA AfterInMoney ==
  ASSUME NEW b, Money(b), NEW q \in Int, NEW cost \in Int
  PROVE  Money(AfterIn(b, q, cost)) /\ Money(AfterReverseIn(b, q, cost))
<1>1. PICK v \in Int : v = b.qty * b.avg
  BY DEF Money
<1>2. b.qty + q \in Int /\ b.qty - q \in Int
  BY DEF Money
<1>3. PICK x \in Int : x = IF b.qty <= 0 THEN cost ELSE v + cost
  OBVIOUS
<1>5. PICK y \in Int : y = IF v < cost THEN 0 ELSE v - cost
  OBVIOUS
<1>4. Money(Balance(b.qty + q, x)) /\ Money(Balance(b.qty - q, y))
  BY <1>2, BalanceMoney
<1>. QED
  BY <1>1, <1>3, <1>4, <1>5 DEF AfterIn, AfterReverseIn, ValueOf

LEMMA RowsCost ==
  ASSUME IInv, CInv, NEW i \in DOMAIN rows
  PROVE  /\ RowIs(rows[i]) /\ CostIs(rows[i]) /\ rows[i].effective \in Int
         /\ rows[i].qty \in Nat \ {0} /\ rows[i].day \in 1..MaxDay
BY DEF IInv, CInv, RowsAre, CostsAre, RowIs, CostIs

-----------------------------------------------------------------------------
(* The actions, in money.                                                   *)

LEMMA ValueInt ==
  ASSUME IInv, CInv PROVE ValueOf(balance) \in Int
<1>1. PICK q \in Int, a \in Int : q = balance.qty /\ a = balance.avg
  BY QtyIsInt DEF CInv
<1>2. q * a \in Int
  OBVIOUS
<1>. QED
  BY <1>1, <1>2 DEF ValueOf

LEMMA UnitCostsAre ==
  ASSUME IInv PROVE UnitCosts \subseteq Nat
<1>1. item \in Item
  BY KardexAssumption DEF IInv
<1>. QED
  BY <1>1 DEF Item, UnitCosts

LEMMA InPaid ==
  ASSUME IInv, CInv, NEW ref, NEW q \in Quantities, NEW d \in Days, NEW cost \in Int, NEW returns,
         ref = "SALES_RETURN" => returns \in DOMAIN rows,
         Record(Row("IN", ref, q, d, cost, 0, returns), AfterIn(balance, q, cost))
  PROVE  CInv'
<1>1. PICK r, b : r = Row("IN", ref, q, d, cost, 0, returns) /\ b = AfterIn(balance, q, cost)
  OBVIOUS
<1>2. q \in Nat \ {0} /\ d \in 1..MaxDay
  BY QuantitiesAre, DaysIn
<1>3. MayFollow(rows, r) /\ MayCost(rows, r)
  BY <1>1, <1>2, NewMoney
<1>4. Money(b)
  BY <1>1, <1>2, BalanceHasMoney, AfterInMoney
<1>. QED
  BY <1>1, <1>3, <1>4, RowPaid

LEMMA RecordInPaid ==
  ASSUME IInv, CInv, RecordIn PROVE CInv'
<1>1. PICK q \in Quantities, u \in UnitCosts, d \in Days :
        Record(Row("IN", "PURCHASE", q, d, q * u, 0, 0), AfterIn(balance, q, q * u))
  BY DEF RecordIn
<1>2. q * u \in Int
  BY QuantitiesAre, UnitCostsAre
<1>. QED
  BY <1>1, <1>2, InPaid

LEMMA RecordSurplusPaid ==
  ASSUME IInv, CInv, RecordSurplus PROVE CInv'
<1>1. PICK i \in DOMAIN rows, q \in Quantities, d \in Days :
        LET unit == IF balance.avg > 0 THEN balance.avg ELSE HalfUp(rows[i].effective, rows[i].qty)
        IN  Record(Row("IN", "CLOSE_ADJUSTMENT", q, d, q * unit, 0, 0),
                   AfterIn(balance, q, q * unit))
  BY DEF RecordSurplus
<1>2. HalfUp(rows[i].effective, rows[i].qty) \in Int
  BY RowsCost, HalfUpInt
<1>3. PICK unit \in Int :
        unit = IF balance.avg > 0 THEN balance.avg ELSE HalfUp(rows[i].effective, rows[i].qty)
  BY <1>2 DEF CInv
<1>4. PICK c \in Int : c = q * unit
  BY QuantitiesAre
<1>5. Record(Row("IN", "CLOSE_ADJUSTMENT", q, d, c, 0, 0), AfterIn(balance, q, c))
  BY <1>1, <1>3, <1>4
<1>. QED
  BY <1>5, InPaid

\* The costs of some rows add up to one.
IsCostSum(S, g) ==
  g = [s \in SUBSET S |-> IF s = {} THEN 0 ELSE rows[Pick(s)].effective + g[s \ {Pick(s)}]]
EffectiveIn == [i \in DOMAIN rows |-> rows[i].effective]

LEMMA ReturnedUnfolds ==
  ASSUME NEW i
  PROVE  ReturnedCost(i) = (CHOOSE g : IsCostSum(Returns(i), g))[Returns(i)]
BY DEF ReturnedCost, MapThenSumSet, MapThenFoldSet, IsCostSum, Pick

LEMMA ReturnedInt ==
  ASSUME IInv, CInv, NEW i PROVE ReturnedCost(i) \in Int
<1>1. PICK S : S = Returns(i)
  OBVIOUS
<1>2. S \in SUBSET DOMAIN rows
  BY <1>1 DEF Returns
<1>3. RowsAre(rows)
  BY DEF IInv
<1>4. IsFiniteSet(S)
  BY <1>2, <1>3, QtyInt
<1>5. PICK f : f = EffectiveIn
  OBVIOUS
<1>6. ASSUME NEW j \in S PROVE f[j] = rows[j].effective /\ f[j] \in Int
  BY <1>2, <1>5, <1>6, RowsCost DEF EffectiveIn
<1>7. ASSUME NEW g PROVE IsSum(f, S, g) <=> IsCostSum(S, g)
  <2>1. ASSUME NEW s \in SUBSET S
        PROVE  (IF s = {} THEN 0 ELSE f[Pick(s)] + g[s \ {Pick(s)}])
               = (IF s = {} THEN 0 ELSE rows[Pick(s)].effective + g[s \ {Pick(s)}])
    <3>1. s # {} => Pick(s) \in S
      BY PickIn
    <3>. QED
      BY <1>6, <3>1
  <2>2. [s \in SUBSET S |-> IF s = {} THEN 0 ELSE f[Pick(s)] + g[s \ {Pick(s)}]]
        = [s \in SUBSET S |-> IF s = {} THEN 0 ELSE rows[Pick(s)].effective + g[s \ {Pick(s)}]]
    BY <2>1
  <2>. QED
    BY <2>2 DEF IsSum, IsCostSum
<1>8. PICK g : IsSum(f, S, g)
  BY <1>4, SumExists
<1>9. \E h : IsCostSum(S, h)
  BY <1>7, <1>8
<1>10. PICK h : h = (CHOOSE x : IsCostSum(S, x))
  OBVIOUS
<1>11. IsSum(f, S, h)
  BY <1>7, <1>9, <1>10
<1>12. PICK k : k = (CHOOSE x : IsSum(f, S, x))
  OBVIOUS
<1>13. IsSum(f, S, k)
  BY <1>8, <1>12
<1>14. S \in SUBSET S
  OBVIOUS
<1>15. h[S] = k[S]
  BY <1>4, <1>11, <1>13, <1>14, SumIsOne
<1>16. ReturnedCost(i) = h[S]
  BY <1>1, <1>10, ReturnedUnfolds
<1>17. SumFunctionOnSet(f, S) = k[S]
  BY <1>12, SumUnfolds
<1>18. SumFunctionOnSet(f, S) \in Int
  BY <1>4, <1>6, SumInt
<1>. QED
  BY <1>15, <1>16, <1>17, <1>18

LEMMA RecordReturnPaid ==
  ASSUME IInv, CInv, RecordReturn PROVE CInv'
<1>1. PICK i \in DOMAIN rows, q \in Quantities, d \in Days :
        LET left == rows[i].qty - ReturnedQty(i)
            unit == HalfUp(rows[i].effective, rows[i].qty)
            cost == IF q = left THEN rows[i].effective - ReturnedCost(i) ELSE q * unit
        IN  Record(Row("IN", "SALES_RETURN", q, d, cost, 0, i), AfterIn(balance, q, cost))
  BY DEF RecordReturn
<1>2. PICK unit \in Int : unit = HalfUp(rows[i].effective, rows[i].qty)
  BY RowsCost, HalfUpInt
<1>3. q * unit \in Int /\ rows[i].effective - ReturnedCost(i) \in Int
  BY QuantitiesAre, RowsCost, ReturnedInt
<1>4. PICK c \in Int : c = IF q = rows[i].qty - ReturnedQty(i)
                           THEN rows[i].effective - ReturnedCost(i) ELSE q * unit
  BY <1>3
<1>5. Record(Row("IN", "SALES_RETURN", q, d, c, 0, i), AfterIn(balance, q, c))
  BY <1>1, <1>2, <1>4
<1>. QED
  BY <1>5, InPaid

LEMMA StockNow ==
  ASSUME IInv, CInv, NEW d PROVE StockIs(StockUpToDate(rows, d))
BY StockUpToDateIs DEF IInv, CInv

LEMMA OutInt ==
  ASSUME IInv, CInv, NEW q \in Int, NEW d PROVE CostOfOut(q, d) \in Int
<1>1. PICK x, y : x = AverageOutCost(StockUpToDate(rows, d), q)
                  /\ y = AverageOutCost(StockUpToDate(rows, MaxDay), q)
  OBVIOUS
<1>2. x \in Int /\ y \in Int
  BY <1>1, StockNow, AverageInt
<1>3. q * balance.avg \in Int
  BY DEF CInv
<1>4. CostOfOut(q, d) = CASE Dated(d) -> x
                          [] ~Dated(d) /\ q >= balance.qty -> y
                          [] OTHER -> q * balance.avg
  BY <1>1 DEF CostOfOut
<1>5. CASE Dated(d)
  BY <1>2, <1>4, <1>5
<1>6. CASE ~Dated(d) /\ q >= balance.qty
  BY <1>2, <1>4, <1>6
<1>7. CASE ~Dated(d) /\ ~(q >= balance.qty)
  BY <1>3, <1>4, <1>7
<1>. QED
  BY <1>5, <1>6, <1>7

LEMMA OutMoney ==
  ASSUME IInv, CInv, NEW q \in Int, NEW d PROVE Money(BalanceAfterOut(q, d))
<1>1. PICK v \in Int : v = StockUpToDate(rows, MaxDay).value
  BY StockNow DEF StockIs
<1>2. PICK c \in Int : c = CostOfOut(q, d)
  BY OutInt
<1>0. PICK w \in Int : w = v - c
  OBVIOUS
<1>3. PICK x \in Int : x = IF w < 0 THEN 0 ELSE w
  OBVIOUS
<1>4. balance.qty \in Int /\ balance.avg \in Int
  BY QtyIsInt DEF CInv
<1>5. Money(Balance(balance.qty - q, x))
  BY <1>4, BalanceMoney
<1>6. Money([qty |-> balance.qty - q, avg |-> balance.avg])
  BY <1>4 DEF Money
<1>7. BalanceAfterOut(q, d) = IF Dated(d) THEN Balance(balance.qty - q, x)
                              ELSE [qty |-> balance.qty - q, avg |-> balance.avg]
  BY <1>0, <1>1, <1>2, <1>3 DEF BalanceAfterOut
<1>. QED
  BY <1>5, <1>6, <1>7

LEMMA RecordOutPaid ==
  ASSUME IInv, CInv, NEW ref, RecordOut(ref) PROVE CInv'
<1>1. PICK q \in Quantities, d \in Days :
        Record(Row("OUT", ref, q, d, CostOfOut(q, d), 0, 0), BalanceAfterOut(q, d))
  BY DEF RecordOut
<1>2. q \in Nat \ {0} /\ d \in 1..MaxDay
  BY QuantitiesAre, DaysIn
<1>3. PICK c \in Int : c = CostOfOut(q, d)
  BY <1>2, OutInt
<1>4. PICK r, b : r = Row("OUT", ref, q, d, c, 0, 0) /\ b = BalanceAfterOut(q, d)
  OBVIOUS
<1>5. MayFollow(rows, r) /\ MayCost(rows, r)
  BY <1>2, <1>4, NewMoney
<1>6. Money(b)
  BY <1>2, <1>4, OutMoney
<1>. QED
  BY <1>1, <1>3, <1>4, <1>5, <1>6, RowPaid

LEMMA AdjustCostPaid ==
  ASSUME IInv, CInv, AdjustCost PROVE CInv'
<1>1. PICK a \in Amounts, d \in Days :
        /\ balance.qty > 0
        /\ Record(Row("ADJUST", "PURCHASE", balance.qty, d, a, 0, 0),
                  Balance(balance.qty, ValueOf(balance) + a))
  BY DEF AdjustCost
<1>2. PICK q \in Int : q = balance.qty
  BY QtyIsInt
<1>3. q \in Nat \ {0} /\ d \in 1..MaxDay /\ a \in Int
  BY <1>1, <1>2, DaysIn, KardexAssumption
<1>4. PICK v \in Int : v = ValueOf(balance) + a
  BY <1>3, ValueInt
<1>5. PICK r, b : r = Row("ADJUST", "PURCHASE", q, d, a, 0, 0) /\ b = Balance(q, v)
  OBVIOUS
<1>6. MayFollow(rows, r) /\ MayCost(rows, r)
  BY <1>3, <1>5, NewMoney
<1>7. Money(b)
  BY <1>5, BalanceMoney
<1>. QED
  BY <1>1, <1>2, <1>4, <1>5, <1>6, <1>7, RowPaid

\* Without a reopening, a reversal is dated at its row or after it.
LEMMA ReversalComes ==
  ASSUME IInv, "reopen" \notin Operations, NEW i \in DOMAIN rows, NEW d \in Days, ReversalDay(i, d)
  PROVE  rows[i].day <= d
<1>1. d \in Nat /\ rows[i].day \in Nat
  BY DaysIn, RowsHave DEF RowIs
<1>2. CASE ~HasLater(rows, d)
  BY <1>1, <1>2 DEF HasLater
<1>3. CASE HasLater(rows, d)
  <2>1. d = rows[i].day \/ d >= rows[i].day
    BY <1>3 DEF ReversalDay
  <2>. QED
    BY <1>1, <2>1
<1>. QED
  BY <1>2, <1>3

LEMMA ReversalMoney ==
  ASSUME IInv, CInv, NEW i \in DOMAIN rows, Live(i), NEW type \in {"IN", "OUT", "ADJUST"}, NEW ref,
         NEW q \in Nat \ {0}, NEW d \in 1..MaxDay, rows[i].day <= d, NEW cost \in Int,
         type = "ADJUST" <=> rows[i].type = "ADJUST",
         type # "ADJUST" => cost = rows[i].effective,
         NEW r, r = Row(type, ref, q, d, cost, i, 0), Signed(r) = -Signed(rows[i])
  PROVE  MayFollow(rows, r) /\ MayCost(rows, r)
<1>1. RowIs(r) /\ r.type = type /\ r.day = d /\ r.reverses = i
  BY RowHas
<1>2. CostIs(r) /\ r.effective = cost
  BY RowMoney
<1>3. MayFollow(rows, r)
  BY <1>1, Reversal
<1>4. i # 0
  BY DomainIs DEF IInv
<1>. QED
  BY <1>1, <1>2, <1>3, <1>4 DEF MayCost

LEMMA ReverseInPaid ==
  ASSUME IInv, CInv, NEW i \in DOMAIN rows, Live(i), NEW d \in Days, rows[i].day <= d,
         ReverseIn(i, d)
  PROVE  CInv'
<1>1. PICK s : s = rows[i]
  OBVIOUS
<1>2. /\ s.type = "IN"
      /\ Record(Row("OUT", s.ref, s.qty, d, s.effective, i, 0),
                AfterReverseIn(balance, s.qty, s.effective))
  BY <1>1 DEF ReverseIn
<1>3. PICK q \in Nat \ {0}, c \in Int : q = s.qty /\ c = s.effective
  BY <1>1, RowsCost
<1>4. PICK r, b : r = Row("OUT", s.ref, q, d, c, i, 0) /\ b = AfterReverseIn(balance, q, c)
  OBVIOUS
<1>5. d \in 1..MaxDay
  BY DaysIn
<1>6. Signed(r) = -Signed(rows[i])
  <2>1. r.type = "OUT" /\ r.qty = q
    BY <1>4, <1>5, RowHas
  <2>2. Signed(r) = -q /\ Signed(rows[i]) = q
    BY <1>1, <1>2, <1>3, <2>1 DEF Signed
  <2>. QED
    BY <2>2
<1>7. MayFollow(rows, r) /\ MayCost(rows, r)
  BY <1>1, <1>2, <1>3, <1>4, <1>5, <1>6, ReversalMoney
<1>8. Money(b)
  <2>1. Money(balance) /\ q \in Int
    BY BalanceHasMoney
  <2>. QED
    BY <1>4, <2>1, AfterInMoney
<1>. QED
  BY <1>2, <1>3, <1>4, <1>7, <1>8, RowPaid

LEMMA ReverseOutPaid ==
  ASSUME IInv, CInv, NEW i \in DOMAIN rows, Live(i), NEW d \in Days, rows[i].day <= d,
         ReverseOut(i, d)
  PROVE  CInv'
<1>1. PICK s : s = rows[i]
  OBVIOUS
<1>2. /\ s.type = "OUT"
      /\ Record(Row("IN", s.ref, s.qty, d, s.effective, i, 0),
                Balance(balance.qty + s.qty, ValueOf(balance) + s.effective))
  BY <1>1 DEF ReverseOut
<1>3. PICK q \in Nat \ {0}, c \in Int : q = s.qty /\ c = s.effective
  BY <1>1, RowsCost
<1>4. PICK n \in Int, v \in Int : n = balance.qty + q /\ v = ValueOf(balance) + c
  BY ValueInt, QtyIsInt
<1>5. PICK r, b : r = Row("IN", s.ref, q, d, c, i, 0) /\ b = Balance(n, v)
  OBVIOUS
<1>6. d \in 1..MaxDay
  BY DaysIn
<1>7. Signed(r) = -Signed(rows[i])
  <2>1. r.type = "IN" /\ r.qty = q
    BY <1>5, <1>6, RowHas
  <2>2. Signed(r) = q /\ Signed(rows[i]) = -q
    BY <1>1, <1>2, <1>3, <2>1 DEF Signed
  <2>. QED
    BY <2>2
<1>8. MayFollow(rows, r) /\ MayCost(rows, r)
  BY <1>1, <1>2, <1>3, <1>5, <1>6, <1>7, ReversalMoney
<1>9. Money(b)
  BY <1>5, BalanceMoney
<1>. QED
  BY <1>2, <1>3, <1>4, <1>5, <1>8, <1>9, RowPaid

LEMMA ReverseAdjustPaid ==
  ASSUME IInv, CInv, NEW i \in DOMAIN rows, Live(i), NEW d \in Days, rows[i].day <= d,
         ReverseAdjust(i, d)
  PROVE  CInv'
<1>1. PICK s : s = rows[i]
  OBVIOUS
<1>2. PICK p \in Nat \ {0}, c \in Int, n \in Int : p = s.qty /\ c = s.effective /\ n = balance.qty
  BY <1>1, RowsCost, QtyIsInt
<1>3. PICK surviving \in Int : surviving = IF n < p THEN n ELSE p
  OBVIOUS
<1>4. PICK worth \in Int : worth = ValueOf(balance)
  BY ValueInt
<1>5. PICK value \in Int, part \in Int : value = worth * p - c * surviving /\ part = c * surviving
  OBVIOUS
<1>6. /\ s.type = "ADJUST" /\ n > 0
      /\ Record(Row("ADJUST", s.ref, n, d, -HalfUp(part, p), i, 0),
                [balance EXCEPT !.avg = HalfUp(value, p * n)])
  BY <1>1, <1>2, <1>3, <1>4, <1>5 DEF ReverseAdjust
<1>7. PICK cost \in Int : cost = -HalfUp(part, p)
  BY HalfUpInt
<1>8. PICK avg \in Int : avg = HalfUp(value, p * n)
  <2>1. PICK m \in Int : m = p * n
    OBVIOUS
  <2>2. m > 0
    BY <1>6, <2>1
  <2>. QED
    BY <2>1, <2>2, HalfUpInt
<1>9. PICK r, b : r = Row("ADJUST", s.ref, n, d, cost, i, 0) /\ b = [balance EXCEPT !.avg = avg]
  OBVIOUS
<1>10. d \in 1..MaxDay /\ n \in Nat \ {0}
  BY <1>6, DaysIn
<1>11. Signed(r) = -Signed(rows[i])
  <2>1. r.type = "ADJUST"
    BY <1>9, <1>10, RowHas
  <2>2. Signed(r) = 0 /\ Signed(rows[i]) = 0
    BY <1>1, <1>6, <2>1 DEF Signed
  <2>3. PICK x \in Int, y \in Int : x = Signed(r) /\ y = Signed(rows[i])
    BY <2>2
  <2>4. x + y = 0
    BY <2>2, <2>3
  <2>5. x = -y
    BY <2>4, NoneIsNone
  <2>. QED
    BY <2>3, <2>5
<1>12. MayFollow(rows, r) /\ MayCost(rows, r)
  BY <1>1, <1>6, <1>9, <1>10, <1>11, ReversalMoney
<1>13. Money(b)
  <2>1. DOMAIN balance = {"qty", "avg"}
    BY DEF IInv, BalanceIs
  <2>2. b.qty = balance.qty /\ b.avg = avg
    BY <1>9, <2>1
  <2>. QED
    BY <2>2, QtyIsInt DEF Money
<1>. QED
  BY <1>6, <1>7, <1>8, <1>9, <1>12, <1>13, RowPaid

LEMMA ReverseRowPaid ==
  ASSUME IInv, CInv, "reopen" \notin Operations, ReverseRow PROVE CInv'
<1>1. PICK i \in DOMAIN rows, d \in Days :
        Live(i) /\ ReversalDay(i, d) /\ (ReverseIn(i, d) \/ ReverseOut(i, d) \/ ReverseAdjust(i, d))
  BY DEF ReverseRow
<1>2. rows[i].day <= d
  BY <1>1, ReversalComes
<1>. QED
  BY <1>1, <1>2, ReverseInPaid, ReverseOutPaid, ReverseAdjustPaid

\* Costs without rows.
LEMMA RecostPaid ==
  ASSUME IInv, CInv, NEW replayed, Onward(rows, replayed), NEW overrides, Given(rows, overrides),
         NEW limit
  PROVE  Costs(RecostForward(rows, balance, replayed, overrides, limit))
BY RecostForwardCosts, BalanceHasMoney DEF IInv, CInv

LEMMA RecostEntryPaid ==
  ASSUME IInv, CInv, RecostEntry PROVE CInv'
<1>1. PICK i \in DOMAIN rows, a \in Amounts :
        /\ IsEntry(i)
        /\ Becomes(RecostForward(rows, balance, From(rows, i), [j \in {i} |-> rows[i].effective + a],
                                 MaxReplayed))
  BY DEF RecostEntry
<1>2. PICK overrides : overrides = [j \in {i} |-> rows[i].effective + a]
  OBVIOUS
<1>3. Given(rows, overrides)
  <2>1. rows[i].effective + a \in Int
    BY RowsCost, KardexAssumption
  <2>2. rows[i].type = "IN" /\ rows[i].reverses = 0
    BY <1>1 DEF IsEntry, Live
  <2>. QED
    BY <1>2, <2>1, <2>2 DEF Given
<1>4. PICK replayed : replayed = From(rows, i)
  OBVIOUS
<1>5. Onward(rows, replayed)
  BY <1>4, AfterIsOnward DEF IInv
<1>6. Costs(RecostForward(rows, balance, replayed, overrides, MaxReplayed))
  BY <1>3, <1>5, RecostPaid
<1>. QED
  BY <1>1, <1>2, <1>4, <1>6, Paid

LEMMA CompletePendingPaid ==
  ASSUME IInv, CInv, CompletePending PROVE CInv'
<1>0. PICK none, all : none = <<>> /\ all = DOMAIN rows
  OBVIOUS
<1>1. PICK k : /\ k = RecostForward(rows, balance, all, none, Len(rows))
               /\ Becomes([k EXCEPT !.pending = FALSE])
  BY <1>0 DEF CompletePending
<1>2. Costs(k)
  <2>1. Onward(rows, all)
    BY <1>0 DEF Onward
  <2>2. Given(rows, none)
    BY <1>0, NothingGiven
  <2>. QED
    BY <1>1, <2>1, <2>2, RecostPaid
<1>3. DOMAIN k = {"rows", "balance", "pending"}
  BY <1>1 DEF RecostForward, Kardex
<1>4. PICK j : j = [k EXCEPT !.pending = FALSE]
  OBVIOUS
<1>5. j.rows = k.rows /\ j.balance = k.balance
  BY <1>3, <1>4
<1>6. Costs(j)
  BY <1>2, <1>5 DEF Costs
<1>. QED
  BY <1>1, <1>4, <1>6, Paid

\* Two rows: a reversal and the entry in its place.
LEMMA TwoPaid ==
  ASSUME NEW r, MayFollow(rows, r), MayCost(rows, r), RowsAre(rows), CostsAre(rows),
         NEW rs, Grown(rows, r, rs), NEW s, MayFollow(rs, s), MayCost(rs, s), NEW rt, Grown(rs, s, rt)
  PROVE  RowsAre(rt) /\ CostsAre(rt)
<1>1. RowsAre(rs) /\ CostsAre(rs)
  BY RowsStayRows, CostsAdded
<1>. QED
  BY <1>1, RowsStayRows, CostsAdded

LEMMA SwapPaid ==
  ASSUME IInv, CInv, NEW i \in DOMAIN rows, IsEntry(i), NEW q \in Nat \ {0}, NEW value \in Int,
         NEW cost, cost = rows[i].effective,
         NEW rs, rs = rows \o <<Row("OUT", rows[i].ref, rows[i].qty, rows[i].day, cost, i, 0),
                                Row("IN", rows[i].ref, q, rows[i].day, value, 0, 0)>>,
         NEW b, b = AfterIn(AfterReverseIn(balance, rows[i].qty, cost), q, value)
  PROVE  RowsAre(rs) /\ CostsAre(rs) /\ Money(b) /\ Len(rs) \in DOMAIN rs
<1>1. PICK s : s = rows[i]
  OBVIOUS
<1>2. Live(i) /\ s.type = "IN" /\ s.ref = "PURCHASE"
  BY <1>1 DEF IsEntry
<1>3. PICK p \in Nat \ {0}, c \in Int, d \in 1..MaxDay : p = s.qty /\ c = cost /\ d = s.day
  BY <1>1, RowsCost
<1>4. PICK r, t, one : /\ r = Row("OUT", s.ref, p, d, c, i, 0)
                       /\ t = Row("IN", s.ref, q, d, value, 0, 0)
                       /\ one = Append(rows, r)
  OBVIOUS
<1>5. Signed(r) = -Signed(rows[i])
  <2>1. r.type = "OUT" /\ r.qty = p
    BY <1>4, RowHas
  <2>2. Signed(r) = -p /\ Signed(rows[i]) = p
    BY <1>1, <1>2, <1>3, <2>1 DEF Signed
  <2>. QED
    BY <2>2
<1>6. MayFollow(rows, r) /\ MayCost(rows, r)
  <2>1. rows[i].day <= d /\ rows[i].type # "ADJUST"
    BY <1>1, <1>2, <1>3
  <2>2. c = rows[i].effective
    BY <1>3
  <2>. QED
    BY <1>2, <1>4, <1>5, <2>1, <2>2, ReversalMoney
<1>7. MayFollow(one, t) /\ MayCost(one, t)
  BY <1>2, <1>4, NewMoney
<1>8. RowsAre(rows) /\ CostsAre(rows)
  BY DEF IInv, CInv
<1>9. Grown(rows, r, one) /\ Grown(one, t, rs)
  <2>1. rs = rows \o <<r, t>>
    BY <1>1, <1>3, <1>4
  <2>. QED
    BY <1>4, <1>8, <2>1, TwoAdded
<1>10. RowsAre(rs) /\ CostsAre(rs)
  BY <1>6, <1>7, <1>8, <1>9, TwoPaid
<1>11. RowsAre(one)
  BY <1>6, <1>8, <1>9, RowsStayRows
<1>12. Len(rs) \in DOMAIN rs
  BY <1>9, <1>10, <1>11, LastIsThere
<1>13. Money(b)
  <2>1. Money(balance) /\ p \in Int /\ q \in Int
    BY BalanceHasMoney
  <2>2. PICK out : out = AfterReverseIn(balance, p, c)
    OBVIOUS
  <2>3. Money(out)
    BY <2>1, <2>2, AfterInMoney
  <2>4. Money(AfterIn(out, q, value))
    BY <2>1, <2>3, AfterInMoney
  <2>. QED
    BY <1>1, <1>3, <2>2, <2>4
<1>. QED
  BY <1>10, <1>12, <1>13

LEMMA ReplaceEntryPaid ==
  ASSUME IInv, CInv, ReplaceEntry PROVE CInv'
<1>1. PICK i \in DOMAIN rows, q \in Quantities, u \in UnitCosts :
        /\ IsEntry(i) /\ ~rows[i].recosted
        /\ Becomes(Kardex(rows \o <<Row("OUT", rows[i].ref, rows[i].qty, rows[i].day, rows[i].recorded, i, 0),
                                    Row("IN", rows[i].ref, q, rows[i].day, q * u, 0, 0)>>,
                          AfterIn(AfterReverseIn(balance, rows[i].qty, rows[i].recorded), q, q * u),
                          pending))
  BY DEF ReplaceEntry
<1>2. PICK cost : cost = rows[i].recorded
  OBVIOUS
<1>3. cost = rows[i].effective
  BY <1>1, <1>2, RowsCost DEF CostIs
<1>4. q \in Nat \ {0}
  BY QuantitiesAre
<1>5. PICK value \in Int : value = q * u
  BY <1>4, UnitCostsAre
<1>6. PICK rs, b :
        /\ rs = rows \o <<Row("OUT", rows[i].ref, rows[i].qty, rows[i].day, cost, i, 0),
                          Row("IN", rows[i].ref, q, rows[i].day, value, 0, 0)>>
        /\ b = AfterIn(AfterReverseIn(balance, rows[i].qty, cost), q, value)
  OBVIOUS
<1>7. CostsAre(rs) /\ Money(b)
  BY <1>1, <1>3, <1>4, <1>6, SwapPaid
<1>8. PICK k : k = Kardex(rs, b, pending)
  OBVIOUS
<1>9. Costs(k)
  BY <1>7, <1>8 DEF Costs, Kardex
<1>10. Becomes(k)
  BY <1>1, <1>2, <1>5, <1>6, <1>8
<1>. QED
  BY <1>9, <1>10, Paid

LEMMA ReenterPaid ==
  ASSUME IInv, CInv, Reenter PROVE CInv'
<1>1. PICK i \in DOMAIN rows, u \in UnitCosts :
        /\ IsEntry(i)
        /\ LET r == rows[i]
               rs == rows \o <<Row("OUT", r.ref, r.qty, r.day, r.effective, i, 0),
                               Row("IN", r.ref, r.qty, r.day, r.qty * u, 0, 0)>>
               out == AfterReverseIn(balance, r.qty, r.effective)
           IN  Becomes(Settled(rs, AfterIn(out, r.qty, r.qty * u), r.day, After(rs, Len(rs))))
  BY DEF Reenter
<1>2. PICK q \in Nat \ {0} : q = rows[i].qty
  BY RowsCost
<1>3. PICK cost, value \in Int : cost = rows[i].effective /\ value = q * u
  BY RowsCost, UnitCostsAre
<1>4. PICK rs, b :
        /\ rs = rows \o <<Row("OUT", rows[i].ref, rows[i].qty, rows[i].day, cost, i, 0),
                          Row("IN", rows[i].ref, q, rows[i].day, value, 0, 0)>>
        /\ b = AfterIn(AfterReverseIn(balance, rows[i].qty, cost), q, value)
  OBVIOUS
<1>5. RowsAre(rs) /\ CostsAre(rs) /\ Money(b) /\ Len(rs) \in DOMAIN rs
  BY <1>1, <1>2, <1>3, <1>4, SwapPaid
<1>6. PICK k, n : n = Len(rs) /\ k = Settled(rs, b, rows[i].day, After(rs, n))
  OBVIOUS
<1>7. Costs(k)
  BY <1>5, <1>6, SettledCosts
<1>8. Becomes(k)
  BY <1>1, <1>2, <1>3, <1>4, <1>6
<1>. QED
  BY <1>7, <1>8, Paid

LEMMA RedatePaid ==
  ASSUME IInv, CInv, Redate PROVE CInv'
<1>1. PICK i \in DOMAIN rows, d \in Days :
        LET r == rows[i]
            withIn == Append(rows, Row("IN", r.ref, r.qty, d, r.recorded, 0, 0))
            rs == Append(withIn, Row("OUT", r.ref, r.qty, r.day, r.effective, i, 0))
            b == AfterIn(balance, r.qty, r.recorded)
        IN  /\ IsEntry(i)
            /\ Becomes(RecostForward(rs, AfterReverseIn(b, r.qty, r.effective),
                                     After(rs, Len(withIn)), <<>>, MaxReplayed))
  BY DEF Redate
<1>2. PICK s : s = rows[i]
  OBVIOUS
<1>3. PICK q \in Nat \ {0}, c \in Int, e \in 1..MaxDay : q = s.qty /\ c = s.effective /\ e = s.day
  BY <1>2, RowsCost
<1>4. PICK v \in Int : v = s.recorded
  BY <1>2, RowsCost DEF CostIs
<1>5. PICK t, r : /\ t = Row("IN", s.ref, q, d, v, 0, 0) /\ r = Row("OUT", s.ref, q, e, c, i, 0)
  OBVIOUS
<1>6. PICK one, rs : one = Append(rows, t) /\ rs = Append(one, r)
  OBVIOUS
<1>7. PICK b : b = AfterReverseIn(AfterIn(balance, q, v), q, c)
  OBVIOUS
<1>8. PICK none, replayed : none = <<>> /\ replayed = After(rs, Len(one))
  OBVIOUS
<1>9. PICK k : k = RecostForward(rs, b, replayed, none, MaxReplayed)
  OBVIOUS
<1>10. Becomes(k)
  BY <1>1, <1>2, <1>3, <1>4, <1>5, <1>6, <1>7, <1>8, <1>9
<1>11. Live(i) /\ s.type = "IN" /\ s.ref = "PURCHASE"
  BY <1>1, <1>2 DEF IsEntry
<1>12. d \in 1..MaxDay
  BY DaysIn
<1>13. MayFollow(rows, t) /\ MayCost(rows, t)
  BY <1>5, <1>11, <1>12, NewMoney
<1>14. Signed(r) = -Signed(rows[i])
  <2>1. r.type = "OUT" /\ r.qty = q
    BY <1>5, RowHas
  <2>2. Signed(r) = -q /\ Signed(rows[i]) = q
    BY <1>2, <1>3, <1>11, <2>1 DEF Signed
  <2>. QED
    BY <2>2
<1>15. MayFollow(rows, r) /\ MayCost(rows, r)
  <2>1. rows[i].day <= e /\ rows[i].type # "ADJUST" /\ c = rows[i].effective
    BY <1>2, <1>3, <1>11
  <2>. QED
    BY <1>5, <1>11, <1>14, <2>1, ReversalMoney
<1>16. RowsAre(rows) /\ CostsAre(rows)
  BY DEF IInv, CInv
<1>17. Grown(rows, t, one)
  BY <1>6, <1>16, RowAdded
<1>18. RowsAre(one) /\ CostsAre(one)
  BY <1>13, <1>16, <1>17, RowsStayRows, CostsAdded
<1>19. r.reverses = i /\ t.reverses = 0
  BY <1>3, <1>5, <1>12, <1>11, RowHas
<1>20. MayFollow(one, r) /\ MayCost(one, r)
  <2>1. MayFollow(one, r)
    BY <1>15, <1>17, <1>19, FollowsLater
  <2>2. one[i] = rows[i]
    BY <1>17 DEF Grown, GrownAt
  <2>3. DOMAIN rows \subseteq DOMAIN one
    BY <1>17 DEF Grown, GrownAt
  <2>. QED
    BY <1>15, <1>19, <2>1, <2>2, <2>3 DEF MayCost
<1>21. Grown(one, r, rs)
  BY <1>6, <1>18, RowAdded
<1>22. RowsAre(rs) /\ CostsAre(rs)
  BY <1>18, <1>20, <1>21, RowsStayRows, CostsAdded
<1>23. Money(b)
  <2>1. Money(balance) /\ q \in Int
    BY BalanceHasMoney
  <2>2. PICK more : more = AfterIn(balance, q, v)
    OBVIOUS
  <2>3. Money(more)
    BY <2>1, <2>2, AfterInMoney
  <2>. QED
    BY <1>7, <2>1, <2>2, <2>3, AfterInMoney
<1>24. Onward(rs, replayed) /\ Given(rs, none)
  <2>1. PICK n : n = Len(one) /\ n \in DOMAIN one
    BY <1>16, <1>17, <1>18, LastIsThere
  <2>2. n \in DOMAIN rs
    BY <1>21, <2>1 DEF Grown, GrownAt
  <2>. QED
    BY <1>8, <1>22, <2>1, <2>2, AfterIsOnward, NothingGiven
<1>25. Costs(k)
  BY <1>9, <1>22, <1>23, <1>24, RecostForwardCosts
<1>. QED
  BY <1>10, <1>25, Paid

LEMMA InitPaid ==
  ASSUME Init PROVE CInv
<1>1. rows = <<>> /\ balance = [qty |-> 0, avg |-> 0]
  BY DEF Init
<1>2. DOMAIN rows = {}
  BY <1>1
<1>. QED
  BY <1>1, <1>2 DEF CInv, CostsAre

LEMMA NextPaid ==
  ASSUME IInv, CInv, "reopen" \notin Operations, [Next]_vars PROVE CInv'
<1>1. CASE RecordIn
  BY <1>1, RecordInPaid
<1>2. CASE RecordSurplus
  BY <1>2, RecordSurplusPaid
<1>3. CASE Dispatch
  BY <1>3, RecordOutPaid DEF Dispatch
<1>4. CASE Liquidate
  BY <1>4, RecordOutPaid DEF Liquidate
<1>5. CASE RecordReturn
  BY <1>5, RecordReturnPaid
<1>6. CASE ReverseRow
  BY <1>6, ReverseRowPaid
<1>7. CASE ReplaceEntry
  BY <1>7, ReplaceEntryPaid
<1>8. CASE Reenter
  BY <1>8, ReenterPaid
<1>9. CASE Redate
  BY <1>9, RedatePaid
<1>10. CASE AdjustCost
  BY <1>10, AdjustCostPaid
<1>11. CASE RecostEntry
  BY <1>11, RecostEntryPaid
<1>12. CASE CompletePending
  BY <1>12, CompletePendingPaid
<1>13. CASE UNCHANGED vars
  <2>1. rows' = rows /\ balance' = balance
    BY <1>13 DEF vars
  <2>. QED
    BY <2>1 DEF CInv
<1>. QED
  BY <1>1, <1>2, <1>3, <1>4, <1>5, <1>6, <1>7, <1>8, <1>9, <1>10, <1>11, <1>12, <1>13 DEF Next

\* A row and its reversal cost the same to the cent, whatever is recosted and however
\* often, on an item that is not reopened with a date before its closing
\* (coil-operations.service.ts dates that reversal before what it reverses): every replay
\* (recost-engine.ts, followCost) comes to the reversal after the row and takes its cost,
\* and the rows that differ by less than a cent and stay do not drift apart.  It holds with
\* a recost pending too.
THEOREM ReversalsCancelHolds ==
  ASSUME \A i \in Items : "reopen" \notin i.operations
  PROVE  Spec => []ReversalsCancel
<1>1. Init => IInv /\ CInv
  BY InitIInv, InitPaid
<1>2. (IInv /\ CInv) /\ [Next]_vars => (IInv /\ CInv)'
  <2> SUFFICES ASSUME IInv, CInv, [Next]_vars PROVE IInv' /\ CInv'
    OBVIOUS
  <2>1. "reopen" \notin Operations
    BY DEF IInv, Operations
  <2>. QED
    BY <2>1, IInvStep, NextPaid
<1>3. IInv /\ CInv => ReversalsCancel
  <2> SUFFICES ASSUME IInv, CInv, NEW j \in DOMAIN rows, rows[j].reverses # 0, rows[j].type # "ADJUST"
               PROVE  Size(rows[j].effective - rows[rows[j].reverses].effective) < MinDelta
    BY DEF ReversalsCancel
  <2>1. Cancels(rows, rows[j].reverses, j)
    BY DEF CInv, CostsAre
  <2>. QED
    BY <2>1 DEF Cancels, Near
<1>. QED
  BY <1>1, <1>2, <1>3, PTL DEF Spec

-----------------------------------------------------------------------------
(* The coils that are cut, Cutting.tla, for any number of coils, rows and     *)
(* sendings, of any weight: a coil is in one place, it is annulled when its   *)
(* entry was undone and only then, and what terminated it stands.             *)

CONSTANTS Bought, Weight, Kerf, MaxCoils, MaxRows, MaxSent, Rare, ChildrenAtHome
VARIABLES coil, cutRows, splits, sent, mounted

Cuts == INSTANCE Cutting WITH rows <- cutRows

\* The operators Cutting takes from the library are those of this module.
LEMMA CardinalityInCuts ==
  \A S : Cuts!Cardinality(S) = Cardinality(S)
BY DEF Cuts!Cardinality, Cardinality

LEMMA SetToSeqInCuts ==
  \A S : Cuts!SetToSeq(S) = SetToSeq(S)
BY CardinalityInCuts DEF Cuts!SetToSeq, SetToSeq, Cuts!IsInjective, IsInjective

(* The inductive invariant.                                                 *)

Kinds == {"PURCHASE", "MANUAL", "NONE", "SPLIT", "CUTTING", "SCRAP", "CLOSE_ADJUSTMENT"}
RefType == [kind : Kinds, id : Nat]
Films == {"SEALED", "BIRTH", "CUTTING_SEND", "SPLIT", "SCRAP", "MANUAL"}

CoilType ==
  [kind : {"COIL", "STRIP"}, born : RefType, film : Films,
   status : {"OPEN", "CLOSED", "IN_THIRD_PARTY", "CANCELLED"}, closedBy : RefType]
SplitType == [mother : Nat, status : {"ACTIVE", "REVERTED"}, emptied : BOOLEAN]
SentType == [order : Nat, coil : Nat, status : {"SENT", "RECEIVED", "CANCELLED"}]

\* What weighs a row is in RowsWeighed.
RowHolds(row, i) ==
  /\ row.coil \in Nat /\ row.type \in {"IN", "OUT"} /\ row.ref \in RefType
  /\ row.reverses \in Nat /\ row.reverses < i

CutsTyped ==
  /\ coil \in Seq(CoilType) /\ splits \in Seq(SplitType) /\ sent \in Seq(SentType)
  /\ IsSeq(cutRows) /\ \A i \in DOMAIN cutRows : RowHolds(cutRows[i], i)

\* A row that stands and brought kilos in is the entry of its coil, or a closing.
EntryRow(i) ==
  /\ cutRows[i].coil \in Cuts!Coils
  /\ cutRows[i].type = "IN" =>
       cutRows[i].ref.kind = "CLOSE_ADJUSTMENT" \/ cutRows[i].ref = coil[cutRows[i].coil].born

Entries ==
  /\ \A i \in DOMAIN cutRows : Cuts!LiveRow(i) => EntryRow(i)
  /\ \A c \in Cuts!Coils : IF coil[c].status = "CANCELLED" THEN Cuts!LiveOf(c) = {} ELSE Cuts!EntryStands(c)

\* Only coils go to the cutter, and only strips come from it and are mounted.
PlaceOf(c) ==
  /\ coil[c].born.kind \in {"PURCHASE", "SPLIT", "CUTTING"}
  /\ coil[c].born.kind = "CUTTING" => coil[c].kind = "STRIP"
  /\ IF coil[c].status = "IN_THIRD_PARTY" THEN \E r \in Cuts!Sent(c) : Cuts!Sent(c) = {r}
                                          ELSE Cuts!Sent(c) = {}
  /\ c \in mounted => coil[c].kind = "STRIP" /\ coil[c].status = "OPEN"

Places ==
  /\ mounted \subseteq Cuts!Coils
  /\ \A r \in DOMAIN sent : sent[r].coil \in Cuts!Coils /\ coil[sent[r].coil].kind = "COIL"
  /\ \A c \in Cuts!Coils : PlaceOf(c)

\* What terminated a coil is of that coil, and stands.
Stands(c, by) ==
  /\ by.kind = "SPLIT" =>
       by.id \in DOMAIN splits /\ splits[by.id].mother = c /\ splits[by.id].status = "ACTIVE"
  /\ by.kind = "CUTTING" =>
       by.id \in DOMAIN sent /\ sent[by.id].coil = c /\ sent[by.id].status = "RECEIVED"
  /\ by.kind = "SCRAP" =>
       by.id \in DOMAIN cutRows /\ cutRows[by.id].coil = c /\ cutRows[by.id].ref.kind = "SCRAP"
       /\ Cuts!LiveRow(by.id)

Terminations ==
  \A c \in Cuts!Coils :
    /\ coil[c].status \in {"OPEN", "IN_THIRD_PARTY"} => coil[c].closedBy = Cuts!NotClosed
    /\ coil[c].status = "CLOSED" => Stands(c, coil[c].closedBy)

CuttingIInv == CutsTyped /\ Entries /\ Places /\ Terminations

-----------------------------------------------------------------------------
(* The rows are added, and undo the ones of before.                         *)

RowsTyped == IsSeq(cutRows) /\ \A i \in DOMAIN cutRows : RowHolds(cutRows[i], i)

\* The rows U are undone; of the ones that are new, those of N are not a reversal.
RowsGo(U, N) ==
  /\ RowsTyped'
  /\ DOMAIN cutRows \subseteq DOMAIN cutRows' /\ N \subseteq DOMAIN cutRows' \ DOMAIN cutRows
  /\ \A i \in DOMAIN cutRows : cutRows'[i] = cutRows[i] /\ (Cuts!LiveRow(i)' <=> Cuts!LiveRow(i) /\ i \notin U)
  /\ \A i \in DOMAIN cutRows' \ DOMAIN cutRows : Cuts!LiveRow(i)' <=> i \in N

LEMMA SameRows ==
  ASSUME CutsTyped, cutRows' = cutRows
  PROVE  RowsGo({}, {})
BY DEF CutsTyped, RowsGo, RowsTyped, Cuts!LiveRow

LEMMA UndoIs ==
  ASSUME CutsTyped, NEW i \in DOMAIN cutRows
  PROVE  /\ \A j \in Nat : i < j => RowHolds(Cuts!Undo(i), j)
         /\ Cuts!Undo(i).reverses = i /\ i \in Nat /\ i # 0 /\ i <= Len(cutRows)
<1>1. i \in Nat /\ i # 0 /\ i <= Len(cutRows)
  BY SeqIs DEF CutsTyped
<1>2. RowHolds(cutRows[i], i)
  BY DEF CutsTyped
<1>. QED
  BY <1>1, <1>2 DEF Cuts!Undo, Cuts!Row, RowHolds

LEMMA Undone ==
  ASSUME CutsTyped, NEW U, U \subseteq DOMAIN cutRows,
         NEW q, IsSeq(q), \A k \in DOMAIN q : q[k] \in U, \A u \in U : \E k \in DOMAIN q : q[k] = u,
         cutRows' = cutRows \o Cuts!UndoAll(q)
  PROVE  RowsGo(U, {})
<1>1. PICK n \in Nat, m \in Nat :
        n = Len(cutRows) /\ m = Len(q) /\ DOMAIN q = 1..m /\ DOMAIN cutRows = 1..n
  BY SeqIs DEF CutsTyped
<1>2. PICK t : t = Cuts!UndoAll(q)
  OBVIOUS
<1>3. t = [k \in 1..m |-> Cuts!Undo(q[k])]
  BY <1>1, <1>2 DEF Cuts!UndoAll
<1>4. IsSeq(t) /\ Len(t) = m /\ DOMAIN t = 1..m /\ \A k \in 1..m : t[k] = Cuts!Undo(q[k])
  BY <1>3, FunctionIsSeq
<1>5. Joins(cutRows', cutRows, t)
  BY <1>2, <1>4, Joined DEF CutsTyped
<1>6. /\ \A i \in DOMAIN cutRows : i \in DOMAIN cutRows' /\ cutRows'[i] = cutRows[i]
      /\ \A i \in DOMAIN cutRows' \ DOMAIN cutRows : i > n /\ \E k \in 1..m : cutRows'[i] = Cuts!Undo(q[k])
      /\ \A k \in 1..m : \E i \in DOMAIN cutRows' \ DOMAIN cutRows : cutRows'[i] = Cuts!Undo(q[k])
      /\ IsSeq(cutRows')
  <2>1. /\ \A i \in DOMAIN cutRows : i \in DOMAIN cutRows' /\ cutRows'[i] = cutRows[i]
        /\ \A i \in DOMAIN cutRows' \ DOMAIN cutRows :
             i > Len(cutRows) /\ \E k \in DOMAIN t : cutRows'[i] = t[k]
        /\ \A k \in DOMAIN t : \E i \in DOMAIN cutRows' \ DOMAIN cutRows : cutRows'[i] = t[k]
        /\ IsSeq(cutRows')
    BY <1>5, Zenon DEF Joins
  <2>2. Len(cutRows) = n /\ DOMAIN t = 1..m /\ \A k \in 1..m : t[k] = Cuts!Undo(q[k])
    BY <1>1, <1>4
  <2>3. ASSUME NEW i \in DOMAIN cutRows' \ DOMAIN cutRows
        PROVE  i > n /\ \E k \in 1..m : cutRows'[i] = Cuts!Undo(q[k])
    <3>1. PICK k \in 1..m : cutRows'[i] = t[k]
      BY <2>1, <2>2
    <3>2. cutRows'[i] = Cuts!Undo(q[k])
      BY <2>2, <3>1
    <3>. QED
      BY <2>1, <2>2, <3>2
  <2>4. ASSUME NEW k \in 1..m
        PROVE  \E i \in DOMAIN cutRows' \ DOMAIN cutRows : cutRows'[i] = Cuts!Undo(q[k])
    <3>1. PICK i \in DOMAIN cutRows' \ DOMAIN cutRows : cutRows'[i] = t[k]
      BY <2>1, <2>2
    <3>2. cutRows'[i] = Cuts!Undo(q[k])
      BY <2>2, <3>1
    <3>. QED
      BY <3>2
  <2>. QED
    BY <2>1, <2>3, <2>4, Zenon
<1>7. \A i \in DOMAIN cutRows' : i \in Nat
  BY <1>6, SeqIs
<1>8. ASSUME NEW i \in DOMAIN cutRows' \ DOMAIN cutRows
      PROVE  RowHolds(cutRows'[i], i) /\ cutRows'[i].reverses # 0 /\ cutRows'[i].reverses \in U
  <2>1. PICK k \in 1..m : cutRows'[i] = Cuts!Undo(q[k]) /\ i > n
    BY <1>6
  <2>2. PICK u \in U : u = q[k] /\ u \in DOMAIN cutRows
    BY <1>1
  <2>3. u \in Nat /\ u # 0 /\ u <= n /\ i \in Nat
    BY <1>1, <1>7, <2>2, UndoIs
  <2>4. u < i
    BY <2>1, <2>3
  <2>. QED
    BY <2>1, <2>2, <2>3, <2>4, UndoIs
<1>9. ASSUME NEW i \in DOMAIN cutRows PROVE Cuts!LiveRow(i)' <=> Cuts!LiveRow(i) /\ i \notin U
  <2>1. CASE i \in U
    <3>1. PICK k \in 1..m : q[k] = i
      BY <1>1, <2>1
    <3>2. PICK j \in DOMAIN cutRows' : cutRows'[j] = Cuts!Undo(i)
      BY <1>6, <3>1
    <3>3. cutRows'[j].reverses = i
      BY <3>2, UndoIs
    <3>. QED
      BY <2>1, <3>3 DEF Cuts!LiveRow
  <2>2. CASE i \notin U
    <3>1. ASSUME NEW j \in DOMAIN cutRows', cutRows'[j].reverses = i
          PROVE  \E l \in DOMAIN cutRows : cutRows[l].reverses = i
      BY <1>6, <1>8, <2>2, <3>1
    <3>2. ASSUME NEW l \in DOMAIN cutRows, cutRows[l].reverses = i
          PROVE  \E j \in DOMAIN cutRows' : cutRows'[j].reverses = i
      BY <1>6, <3>2
    <3>3. cutRows'[i] = cutRows[i]
      BY <1>6
    <3>. QED
      BY <2>2, <3>1, <3>2, <3>3 DEF Cuts!LiveRow
  <2>. QED
    BY <2>1, <2>2
<1>10. \A i \in DOMAIN cutRows' \ DOMAIN cutRows : ~Cuts!LiveRow(i)'
  BY <1>8 DEF Cuts!LiveRow
<1>11. RowsTyped'
  <2>1. ASSUME NEW i \in DOMAIN cutRows' PROVE RowHolds(cutRows'[i], i)
    <3>1. CASE i \in DOMAIN cutRows
      BY <1>6, <3>1 DEF CutsTyped
    <3>2. CASE i \notin DOMAIN cutRows
      BY <1>8, <3>2
    <3>. QED
      BY <3>1, <3>2
  <2>. QED
    BY <1>6, <2>1 DEF RowsTyped
<1>. QED
  BY <1>6, <1>9, <1>10, <1>11 DEF RowsGo

LEMMA CutRowsAdded ==
  ASSUME CutsTyped, NEW t, IsSeq(t), \A k \in DOMAIN t : RowHolds(t[k], 1), cutRows' = cutRows \o t
  PROVE  RowsGo({}, DOMAIN cutRows' \ DOMAIN cutRows) /\ Joins(cutRows', cutRows, t)
<1>1. PICK n \in Nat : n = Len(cutRows) /\ DOMAIN cutRows = 1..n
  BY SeqIs DEF CutsTyped
<1>2. Joins(cutRows', cutRows, t)
  BY Joined DEF CutsTyped
<1>3. /\ \A i \in DOMAIN cutRows : i \in DOMAIN cutRows' /\ cutRows'[i] = cutRows[i]
      /\ \A i \in DOMAIN cutRows' \ DOMAIN cutRows : i > n /\ \E k \in DOMAIN t : cutRows'[i] = t[k]
      /\ IsSeq(cutRows')
  BY <1>1, <1>2 DEF Joins
<1>4. \A i \in DOMAIN cutRows' : i \in Nat
  BY <1>3, SeqIs
<1>5. ASSUME NEW i \in DOMAIN cutRows' \ DOMAIN cutRows
      PROVE  RowHolds(cutRows'[i], i) /\ cutRows'[i].reverses = 0
  <2>1. PICK k \in DOMAIN t : cutRows'[i] = t[k] /\ i > n /\ i \in Nat
    BY <1>3, <1>4
  <2>2. RowHolds(t[k], 1)
    OBVIOUS
  <2>. QED
    BY <2>1, <2>2 DEF RowHolds
<1>6. ASSUME NEW i \in DOMAIN cutRows PROVE Cuts!LiveRow(i)' <=> Cuts!LiveRow(i)
  <2>1. i # 0 /\ cutRows'[i] = cutRows[i]
    BY <1>1, <1>3
  <2>2. ASSUME NEW j \in DOMAIN cutRows', cutRows'[j].reverses = i
        PROVE  \E l \in DOMAIN cutRows : cutRows[l].reverses = i
    BY <1>3, <1>5, <2>1, <2>2
  <2>3. ASSUME NEW l \in DOMAIN cutRows, cutRows[l].reverses = i
        PROVE  \E j \in DOMAIN cutRows' : cutRows'[j].reverses = i
    BY <1>3, <2>3
  <2>. QED
    BY <2>1, <2>2, <2>3 DEF Cuts!LiveRow
<1>7. ASSUME NEW i \in DOMAIN cutRows' \ DOMAIN cutRows PROVE Cuts!LiveRow(i)'
  <2>1. i \in Nat /\ i > n
    BY <1>3, <1>4
  <2>2. ASSUME NEW j \in DOMAIN cutRows PROVE cutRows'[j].reverses # i
    <3>1. cutRows[j].reverses \in Nat /\ cutRows[j].reverses < j /\ j <= n /\ j \in Nat
      BY <1>1 DEF CutsTyped, RowHolds
    <3>. QED
      BY <1>3, <2>1, <3>1
  <2>3. \A j \in DOMAIN cutRows' : cutRows'[j].reverses # i
    BY <1>5, <2>1, <2>2
  <2>. QED
    BY <1>5, <2>3 DEF Cuts!LiveRow
<1>8. RowsTyped'
  <2>1. ASSUME NEW i \in DOMAIN cutRows' PROVE RowHolds(cutRows'[i], i)
    <3>1. CASE i \in DOMAIN cutRows
      BY <1>3, <3>1 DEF CutsTyped
    <3>2. CASE i \notin DOMAIN cutRows
      BY <1>5, <3>2
    <3>. QED
      BY <3>1, <3>2
  <2>. QED
    BY <1>3, <2>1 DEF RowsTyped
<1>. QED
  BY <1>2, <1>3, <1>6, <1>7, <1>8 DEF RowsGo

-----------------------------------------------------------------------------
(* What every operation leaves.                                             *)

\* No coil is lost, and none changes what it is.
CoilsKeep ==
  /\ coil' \in Seq(CoilType) /\ Cuts!Coils \subseteq Cuts!Coils'
  /\ \A c \in Cuts!Coils : coil'[c].kind = coil[c].kind /\ coil'[c].born = coil[c].born

LEMMA CoilsAre ==
  ASSUME CutsTyped
  PROVE  /\ Len(coil) \in Nat /\ Cuts!Coils = 1..Len(coil) /\ coil \in [Cuts!Coils -> CoilType]
         /\ \A c \in Cuts!Coils : coil[c] \in CoilType /\ c \in Nat
BY LenProperties DEF CutsTyped, Cuts!Coils

LEMMA CoilsMapped ==
  ASSUME CutsTyped, coil' \in [Cuts!Coils -> CoilType],
         \A c \in Cuts!Coils : coil'[c].kind = coil[c].kind /\ coil'[c].born = coil[c].born
  PROVE  CoilsKeep /\ Cuts!Coils' = Cuts!Coils
<1>1. coil' \in Seq(CoilType)
  BY CoilsAre, SeqDef
<1>2. DOMAIN coil' = Cuts!Coils
  OBVIOUS
<1>. QED
  BY <1>1, <1>2 DEF CoilsKeep, Cuts!Coils

LEMMA SameCoils ==
  ASSUME CutsTyped, coil' = coil
  PROVE  CoilsKeep /\ Cuts!Coils' = Cuts!Coils
BY DEF CutsTyped, CoilsKeep, Cuts!Coils

\* A coil that is updated and stays what it is.
LEMMA CoilUpdated ==
  ASSUME CutsTyped, NEW c \in Cuts!Coils, NEW new \in CoilType,
         new.kind = coil[c].kind, new.born = coil[c].born, coil' = [coil EXCEPT ![c] = new]
  PROVE  /\ CoilsKeep /\ Cuts!Coils' = Cuts!Coils /\ coil'[c] = new
         /\ \A d \in Cuts!Coils \ {c} : coil'[d] = coil[d]
<1>1. coil \in [Cuts!Coils -> CoilType]
  BY CoilsAre
<1>2. /\ coil' \in [Cuts!Coils -> CoilType] /\ coil'[c] = new
      /\ \A d \in Cuts!Coils \ {c} : coil'[d] = coil[d]
  BY <1>1
<1>. QED
  BY <1>2, CoilsMapped

LEMMA LiveOfGoes ==
  ASSUME NEW U, NEW N, RowsGo(U, N), NEW c
  PROVE  /\ \A i : i \in Cuts!LiveOf(c)' <=>
                     \/ i \in Cuts!LiveOf(c) /\ i \notin U
                     \/ i \in N /\ cutRows'[i].coil = c
<1>1. ASSUME NEW i \in DOMAIN cutRows
      PROVE  i \in Cuts!LiveOf(c)' <=> i \in Cuts!LiveOf(c) /\ i \notin U
  BY <1>1 DEF RowsGo, Cuts!LiveOf
<1>2. ASSUME NEW i \in DOMAIN cutRows' \ DOMAIN cutRows
      PROVE  i \in Cuts!LiveOf(c)' <=> i \in N /\ cutRows'[i].coil = c
  BY <1>2 DEF RowsGo, Cuts!LiveOf
<1>. QED
  BY <1>1, <1>2 DEF RowsGo, Cuts!LiveOf

\* What a coil must have of the rows that are undone and of the new ones.
EntryKept(c, U, N) ==
  IF coil'[c].status = "CANCELLED"
  THEN Cuts!LiveOf(c) \subseteq U /\ \A i \in N : cutRows'[i].coil # c
  ELSE /\ coil[c].status # "CANCELLED"
       /\ \A i \in U : ~(cutRows[i].type = "IN" /\ cutRows[i].ref = coil[c].born /\ cutRows[i].coil = c)

EntryEnters(c, N) ==
  /\ coil'[c].status # "CANCELLED"
  /\ \E i \in N : cutRows'[i].coil = c /\ cutRows'[i].type = "IN" /\ cutRows'[i].ref = coil'[c].born

LEMMA EntriesKept ==
  ASSUME Entries, CoilsKeep, NEW U, NEW N, RowsGo(U, N),
         \A i \in N : EntryRow(i)',
         \A c \in Cuts!Coils : EntryKept(c, U, N),
         \A c \in Cuts!Coils' \ Cuts!Coils : EntryEnters(c, N)
  PROVE  Entries'
<1>1. ASSUME NEW i \in DOMAIN cutRows', Cuts!LiveRow(i)' PROVE EntryRow(i)'
  <2>1. CASE i \in DOMAIN cutRows
    <3>1. cutRows'[i] = cutRows[i] /\ EntryRow(i)
      BY <1>1, <2>1 DEF RowsGo, Entries
    <3>. QED
      BY <3>1 DEF EntryRow, CoilsKeep
  <2>2. CASE i \notin DOMAIN cutRows
    BY <1>1, <2>2 DEF RowsGo
  <2>. QED
    BY <2>1, <2>2
<1>2. ASSUME NEW c \in Cuts!Coils
      PROVE  IF coil'[c].status = "CANCELLED" THEN Cuts!LiveOf(c)' = {} ELSE Cuts!EntryStands(c)'
  <2>1. CASE coil'[c].status = "CANCELLED"
    BY <2>1, LiveOfGoes DEF EntryKept
  <2>2. CASE coil'[c].status # "CANCELLED"
    <3>1. PICK i \in Cuts!LiveOf(c) : cutRows[i].type = "IN" /\ cutRows[i].ref = coil[c].born
      BY <2>2 DEF EntryKept, Entries, Cuts!EntryStands
    <3>2. i \notin U /\ i \in DOMAIN cutRows
      BY <2>2, <3>1 DEF EntryKept, Cuts!LiveOf
    <3>3. i \in Cuts!LiveOf(c)' /\ cutRows'[i] = cutRows[i]
      BY <3>1, <3>2, LiveOfGoes DEF RowsGo
    <3>. QED
      BY <2>2, <3>1, <3>3 DEF Cuts!EntryStands, CoilsKeep
  <2>. QED
    BY <2>1, <2>2
<1>3. ASSUME NEW c \in Cuts!Coils' \ Cuts!Coils
      PROVE  coil'[c].status # "CANCELLED" /\ Cuts!EntryStands(c)'
  BY LiveOfGoes DEF EntryEnters, Cuts!EntryStands
<1>. QED
  BY <1>1, <1>2, <1>3 DEF Entries

\* A coil is at the cutter of one order, or of none.
AtOne(c) ==
  IF coil[c].status = "IN_THIRD_PARTY" THEN \E r \in Cuts!Sent(c) : Cuts!Sent(c) = {r} ELSE Cuts!Sent(c) = {}

PlaceEnters(c) ==
  /\ coil'[c].status # "IN_THIRD_PARTY"
  /\ coil'[c].born.kind \in {"PURCHASE", "SPLIT", "CUTTING"}
  /\ coil'[c].born.kind = "CUTTING" => coil'[c].kind = "STRIP"

LEMMA PlacesKept ==
  ASSUME Places, CoilsKeep, mounted' \subseteq Cuts!Coils,
         \A r \in DOMAIN sent' : sent'[r].coil \in Cuts!Coils /\ coil[sent'[r].coil].kind = "COIL",
         \A c \in Cuts!Coils : AtOne(c)',
         \A c \in mounted' : coil[c].kind = "STRIP" /\ coil'[c].status = "OPEN",
         \A c \in Cuts!Coils' \ Cuts!Coils : PlaceEnters(c)
  PROVE  Places'
<1>1. ASSUME NEW c \in Cuts!Coils PROVE PlaceOf(c)'
  BY DEF Places, PlaceOf, AtOne, CoilsKeep
<1>2. ASSUME NEW c \in Cuts!Coils' \ Cuts!Coils PROVE PlaceOf(c)'
  <2>1. Cuts!Sent(c)' = {}
    BY DEF Cuts!Sent
  <2>. QED
    BY <2>1 DEF PlaceEnters, PlaceOf
<1>. QED
  BY <1>1, <1>2 DEF Places, CoilsKeep

\* Nothing goes to the cutter, and nothing comes back.
LEMMA PlacesStay ==
  ASSUME Places, CoilsKeep, sent' = sent, mounted' \subseteq mounted,
         \A c \in Cuts!Coils : coil'[c].status = "IN_THIRD_PARTY" <=> coil[c].status = "IN_THIRD_PARTY",
         \A c \in mounted' : coil'[c].status = "OPEN",
         \A c \in Cuts!Coils' \ Cuts!Coils : PlaceEnters(c)
  PROVE  Places'
<1>1. ASSUME NEW c \in Cuts!Coils PROVE AtOne(c)'
  <2>1. Cuts!Sent(c)' = Cuts!Sent(c)
    BY DEF Cuts!Sent
  <2>. QED
    BY <2>1 DEF Places, PlaceOf, AtOne
<1>2. \A c \in mounted' : coil[c].kind = "STRIP"
  BY DEF Places, PlaceOf
<1>. QED
  BY <1>1, <1>2, PlacesKept DEF Places

\* What terminated a coil goes on standing, unless it is what the step undoes.
LEMMA StandsStay ==
  ASSUME NEW U, NEW N, RowsGo(U, N), NEW c, NEW by, Stands(c, by),
         by.kind = "SPLIT" => by.id \in DOMAIN splits' /\ splits'[by.id] = splits[by.id],
         by.kind = "CUTTING" => by.id \in DOMAIN sent' /\ sent'[by.id] = sent[by.id],
         by.kind = "SCRAP" => by.id \notin U
  PROVE  Stands(c, by)'
BY DEF Stands, RowsGo

LEMMA TypedKept ==
  ASSUME CoilsKeep, NEW U, NEW N, RowsGo(U, N), splits' \in Seq(SplitType), sent' \in Seq(SentType)
  PROVE  CutsTyped'
BY DEF CoilsKeep, RowsGo, RowsTyped, CutsTyped

-----------------------------------------------------------------------------
(* What the operations make of a coil.                                      *)

Statuses == {"OPEN", "CLOSED", "IN_THIRD_PARTY", "CANCELLED"}

LEMMA RefIs ==
  /\ Cuts!NotClosed \in RefType /\ Cuts!Manual \in RefType /\ Cuts!NotClosed.kind = "NONE" /\ Cuts!Manual.kind = "MANUAL"
  /\ \A kind \in Kinds, id \in Nat :
       Cuts!Ref(kind, id) \in RefType /\ Cuts!Ref(kind, id).kind = kind /\ Cuts!Ref(kind, id).id = id
  /\ \A r \in RefType : r = Cuts!Ref(r.kind, r.id)
BY DEF Cuts!NotClosed, Cuts!Manual, Cuts!Ref, RefType, Kinds

LEMMA OpenedIs ==
  ASSUME NEW k \in CoilType, NEW source \in Films
  PROVE  /\ Cuts!Opened(k, source) \in CoilType
         /\ Cuts!Opened(k, source).kind = k.kind /\ Cuts!Opened(k, source).born = k.born
         /\ Cuts!Opened(k, source).status = k.status /\ Cuts!Opened(k, source).closedBy = k.closedBy
<1>1. PICK new : new = [k EXCEPT !.film = source]
  OBVIOUS
<1>2. /\ new \in CoilType /\ new.kind = k.kind /\ new.born = k.born
      /\ new.status = k.status /\ new.closedBy = k.closedBy
  BY <1>1 DEF CoilType
<1>3. Cuts!Opened(k, source) = new \/ Cuts!Opened(k, source) = k
  BY <1>1 DEF Cuts!Opened
<1>. QED
  BY <1>2, <1>3

\* A coil that changes its status is as it was but for that and its closing.
IsWith(new, old, status, by) ==
  /\ new \in CoilType /\ new.kind = old.kind /\ new.born = old.born /\ new.film = old.film
  /\ new.status = status /\ new.closedBy = by

LEMMA RecordSet ==
  ASSUME NEW k \in CoilType, NEW status \in Statuses, NEW by \in RefType, NEW new,
         new = [[k EXCEPT !.status = status] EXCEPT !.closedBy = by]
  PROVE  IsWith(new, k, status, by)
BY DEF CoilType, IsWith, Statuses

LEMMA WithIs ==
  ASSUME NEW D, NEW cs \in [D -> CoilType], NEW c \in D, NEW status \in Statuses
  PROVE  /\ Cuts!With(cs, c, status) \in [D -> CoilType]
         /\ \A d \in D \ {c} : Cuts!With(cs, c, status)[d] = cs[d]
         /\ IsWith(Cuts!With(cs, c, status)[c], cs[c], status, Cuts!NotClosed)
<1>1. PICK new : new = [[cs[c] EXCEPT !.status = status] EXCEPT !.closedBy = Cuts!NotClosed]
  OBVIOUS
<1>2. IsWith(new, cs[c], status, Cuts!NotClosed)
  BY <1>1, RecordSet, RefIs
<1>3. Cuts!With(cs, c, status) = [cs EXCEPT ![c] = new]
  BY <1>1 DEF Cuts!With
<1>. QED
  BY <1>2, <1>3 DEF IsWith

\* Coils of which one may have been terminated.
MayEnd(new, D, cs, c, cause) ==
  /\ new \in [D -> CoilType] /\ \A d \in D \ {c} : new[d] = cs[d]
  /\ \/ new[c] = cs[c]
     \/ cs[c].status = "OPEN" /\ c \notin mounted /\ IsWith(new[c], cs[c], "CLOSED", cause)

LEMMA TerminatedIs ==
  ASSUME NEW D, NEW cs \in [D -> CoilType], NEW c \in D, NEW rs, NEW cause \in RefType
  PROVE  MayEnd(Cuts!Terminated(cs, rs, c, cause), D, cs, c, cause)
<1>1. PICK new : new = [[cs[c] EXCEPT !.status = "CLOSED"] EXCEPT !.closedBy = cause]
  OBVIOUS
<1>2. IsWith(new, cs[c], "CLOSED", cause)
  BY <1>1, RecordSet DEF Statuses
<1>3. \/ Cuts!Terminated(cs, rs, c, cause) = cs
      \/ /\ cs[c].status = "OPEN" /\ c \notin mounted
         /\ Cuts!Terminated(cs, rs, c, cause) = [cs EXCEPT ![c] = new]
  BY <1>1 DEF Cuts!Terminated
<1>. QED
  BY <1>2, <1>3 DEF IsWith, MayEnd

-----------------------------------------------------------------------------
(* Film and custody.                                                        *)

LEMMA NothingHappens ==
  ASSUME CuttingIInv, CoilsKeep, Cuts!Coils' = Cuts!Coils, UNCHANGED <<cutRows, splits, sent>>, mounted' \subseteq mounted,
         \A c \in Cuts!Coils : coil'[c].status = coil[c].status /\ coil'[c].closedBy = coil[c].closedBy
  PROVE  CuttingIInv'
<1>1. RowsGo({}, {})
  BY SameRows DEF CuttingIInv
<1>2. CutsTyped'
  BY <1>1, TypedKept DEF CuttingIInv, CutsTyped
<1>3. ASSUME NEW c \in Cuts!Coils PROVE EntryKept(c, {}, {})
  BY DEF CuttingIInv, Entries, EntryKept
<1>4. Entries'
  BY <1>1, <1>3, EntriesKept DEF CuttingIInv
<1>5. Places'
  BY PlacesStay DEF CuttingIInv, Places, PlaceOf
<1>6. ASSUME NEW c \in Cuts!Coils, coil[c].status = "CLOSED" PROVE Stands(c, coil[c].closedBy)'
  <2>1. PICK by : by = coil[c].closedBy /\ by = coil'[c].closedBy
    OBVIOUS
  <2>2. Stands(c, by)
    BY <1>6, <2>1 DEF CuttingIInv, Terminations
  <2>3. Stands(c, by)'
    BY <1>1, <2>2, StandsStay DEF Stands
  <2>. QED
    BY <2>1, <2>3
<1>7. Terminations'
  BY <1>6 DEF CuttingIInv, Terminations
<1>. QED
  BY <1>2, <1>4, <1>5, <1>7 DEF CuttingIInv

LEMMA FilmSteps ==
  ASSUME CuttingIInv, NEW c \in Cuts!Coils, Cuts!OpenFilm(c) \/ Cuts!Reseal(c)
  PROVE  CuttingIInv'
<1>1. PICK film \in Films : coil' = [coil EXCEPT ![c].film = film]
  BY DEF Cuts!OpenFilm, Cuts!Reseal, Films
<1>2. coil[c] \in CoilType
  BY CoilsAre DEF CuttingIInv
<1>3. PICK new : new = [coil[c] EXCEPT !.film = film]
  OBVIOUS
<1>4. /\ new \in CoilType /\ new.kind = coil[c].kind /\ new.born = coil[c].born
      /\ new.status = coil[c].status /\ new.closedBy = coil[c].closedBy
  BY <1>2, <1>3 DEF CoilType
<1>5. coil' = [coil EXCEPT ![c] = new]
  BY <1>1, <1>3
<1>6. /\ CoilsKeep /\ Cuts!Coils' = Cuts!Coils /\ coil'[c] = new
      /\ \A d \in Cuts!Coils \ {c} : coil'[d] = coil[d]
  BY <1>4, <1>5, CoilUpdated DEF CuttingIInv
<1>7. UNCHANGED <<cutRows, splits, sent, mounted>>
  BY DEF Cuts!OpenFilm, Cuts!Reseal
<1>. QED
  BY <1>4, <1>6, <1>7, NothingHappens

LEMMA CustodySteps ==
  ASSUME CuttingIInv, NEW c \in Cuts!Coils, Cuts!Mount(c) \/ Cuts!Release(c)
  PROVE  CuttingIInv'
<1>1. CoilsKeep /\ Cuts!Coils' = Cuts!Coils /\ UNCHANGED <<coil, cutRows, splits, sent>>
  BY SameCoils DEF CuttingIInv, Cuts!Mount, Cuts!Release
<1>2. CASE Cuts!Release(c)
  BY <1>1, <1>2, NothingHappens DEF Cuts!Release
<1>3. CASE Cuts!Mount(c)
  <2>1. PICK m : m = mounted
    OBVIOUS
  <2>2. /\ coil[c].kind = "STRIP" /\ coil[c].status = "OPEN" /\ mounted' = mounted \cup {c}
    BY <1>3 DEF Cuts!Mount
  <2>3. CutsTyped' /\ Entries' /\ Terminations'
    BY <1>1 DEF CuttingIInv, CutsTyped, Entries, Terminations, Cuts!LiveRow, Cuts!LiveOf, EntryRow, Cuts!EntryStands, Stands, Cuts!Coils
  <2>4. Places'
    BY <1>1, <2>2 DEF CuttingIInv, Places, PlaceOf, Cuts!Sent, Cuts!Coils
  <2>. QED
    BY <2>3, <2>4 DEF CuttingIInv
<1>. QED
  BY <1>2, <1>3

-----------------------------------------------------------------------------
(* The third party.                                                         *)

LEMMA InSeq ==
  ASSUME NEW T, NEW s, IsSeq(s), \A i \in DOMAIN s : s[i] \in T
  PROVE  s \in Seq(T)
<1>1. {s[i] : i \in DOMAIN s} \subseteq T
  OBVIOUS
<1>. QED
  BY <1>1, SeqMonotonic DEF IsSeq

LEMMA SentIs ==
  ASSUME CutsTyped
  PROVE  /\ IsSeq(sent) /\ IsSeq(splits) /\ Len(sent) \in Nat /\ Len(splits) \in Nat
         /\ DOMAIN sent = 1..Len(sent) /\ DOMAIN splits = 1..Len(splits)
         /\ \A r \in DOMAIN sent : sent[r] \in SentType
         /\ \A s \in DOMAIN splits : splits[s] \in SplitType
BY TypedIsSeq, LenProperties DEF CutsTyped

\* What an order sent, after what was sent before.
SentMore(S, order) ==
  /\ IsSeq(sent')
  /\ \A r \in DOMAIN sent : r \in DOMAIN sent' /\ sent'[r] = sent[r]
  /\ \A r \in DOMAIN sent' \ DOMAIN sent :
       sent'[r] = [order |-> order, coil |-> sent'[r].coil, status |-> "SENT"] /\ sent'[r].coil \in S
  /\ \A c \in S : \E r \in DOMAIN sent' \ DOMAIN sent : sent'[r].coil = c
  /\ \A r, q \in DOMAIN sent' \ DOMAIN sent : sent'[r].coil = sent'[q].coil => r = q

LEMMA SendsMore ==
  ASSUME CutsTyped, NEW S \in SUBSET Cuts!Coils, NEW order,
         sent' = sent \o [k \in DOMAIN SetToSeq(S) |->
                            [order |-> order, coil |-> SetToSeq(S)[k], status |-> "SENT"]]
  PROVE  SentMore(S, order)
<1>1. IsFiniteSet(S)
  <2>1. PICK n \in Nat : S \subseteq 1..n
    BY CoilsAre
  <2>2. IsFiniteSet(1..n)
    BY FS_Interval
  <2>. QED
    BY <2>1, <2>2, FS_Subset
<1>a. PICK m \in Nat : m = Cardinality(S)
  BY <1>1, FS_CardinalityType
<1>b. PICK cs : cs = SetToSeq(S)
  OBVIOUS
<1>2. /\ cs = SetToSeq(S) /\ IsSeq(cs) /\ DOMAIN cs = 1..m
      /\ \A k \in 1..m : cs[k] \in S
      /\ \A x \in S : \E k \in 1..m : cs[k] = x
      /\ \A k, l \in 1..m : cs[k] = cs[l] => k = l
  BY <1>1, <1>a, <1>b, SetToSeqIs
<1>3. PICK t : t = [k \in 1..m |-> [order |-> order, coil |-> cs[k], status |-> "SENT"]]
  OBVIOUS
<1>4. IsSeq(t) /\ DOMAIN t = 1..m
  BY <1>3, FunctionIsSeq
<1>5. sent' = sent \o t
  BY <1>2, <1>3
<1>6. IsSeq(sent)
  BY SentIs
<1>7. Joins(sent', sent, t)
  BY <1>4, <1>5, <1>6, Joined
<1>8. /\ IsSeq(sent')
      /\ \A r \in DOMAIN sent : r \in DOMAIN sent' /\ sent'[r] = sent[r]
      /\ \A r \in DOMAIN sent' \ DOMAIN sent : \E k \in 1..m : r = Len(sent) + k /\ sent'[r] = t[k]
      /\ \A k \in 1..m : \E r \in DOMAIN sent' \ DOMAIN sent : r = Len(sent) + k /\ sent'[r] = t[k]
  BY <1>4, <1>7, Zenon DEF Joins
<1>9. \A k \in 1..m : t[k] = [order |-> order, coil |-> cs[k], status |-> "SENT"] /\ t[k].coil = cs[k]
  BY <1>3
<1>10. ASSUME NEW r \in DOMAIN sent' \ DOMAIN sent
       PROVE  /\ sent'[r] = [order |-> order, coil |-> sent'[r].coil, status |-> "SENT"]
              /\ sent'[r].coil \in S
  <2>1. PICK k \in 1..m : sent'[r] = t[k]
    BY <1>8
  <2>. QED
    BY <1>2, <1>9, <2>1
<1>11. ASSUME NEW c \in S PROVE \E r \in DOMAIN sent' \ DOMAIN sent : sent'[r].coil = c
  <2>1. PICK k \in 1..m : cs[k] = c
    BY <1>2
  <2>2. PICK r \in DOMAIN sent' \ DOMAIN sent : sent'[r] = t[k]
    BY <1>8
  <2>. QED
    BY <1>9, <2>1, <2>2
<1>12. ASSUME NEW r \in DOMAIN sent' \ DOMAIN sent, NEW q \in DOMAIN sent' \ DOMAIN sent,
              sent'[r].coil = sent'[q].coil
       PROVE  r = q
  <2>1. PICK k \in 1..m : r = Len(sent) + k /\ sent'[r] = t[k]
    BY <1>8
  <2>2. PICK l \in 1..m : q = Len(sent) + l /\ sent'[q] = t[l]
    BY <1>8
  <2>3. cs[k] = cs[l]
    BY <1>9, <1>12, <2>1, <2>2
  <2>. QED
    BY <1>2, <2>1, <2>2, <2>3
<1>. QED
  BY <1>8, <1>10, <1>11, <1>12, Zenon DEF SentMore

LEMMA SendKeeps ==
  ASSUME CuttingIInv, NEW S \in SUBSET Cuts!Coils, Cuts!Send(S)
  PROVE  CuttingIInv'
<1>1. /\ CutsTyped /\ \A c \in S : coil[c].kind = "COIL" /\ coil[c].status = "OPEN"
      /\ UNCHANGED <<cutRows, splits, mounted>>
  BY DEF Cuts!Send, CuttingIInv
<1>2. PICK order \in Nat : order = Len(sent) + 1
  BY <1>1, SentIs
<1>3. SentMore(S, order)
  <2>1. sent' = sent \o [k \in DOMAIN SetToSeq(S) |->
                           [order |-> order, coil |-> SetToSeq(S)[k], status |-> "SENT"]]
    BY <1>2, SetToSeqInCuts DEF Cuts!Send
  <2>. QED
    BY <1>1, <2>1, SendsMore
<1>4. ASSUME NEW c \in S
      PROVE  /\ coil'[c] \in CoilType /\ coil'[c].kind = coil[c].kind /\ coil'[c].born = coil[c].born
             /\ coil'[c].status = "IN_THIRD_PARTY" /\ coil'[c].closedBy = Cuts!NotClosed
  <2>1. PICK k : k = Cuts!Opened(coil[c], "CUTTING_SEND")
    OBVIOUS
  <2>2. /\ k \in CoilType /\ k.kind = coil[c].kind /\ k.born = coil[c].born
        /\ k.closedBy = coil[c].closedBy
    BY <1>1, <2>1, CoilsAre, OpenedIs DEF Films
  <2>3. coil'[c] = [k EXCEPT !.status = "IN_THIRD_PARTY"]
    BY <2>1 DEF Cuts!Send
  <2>4. coil[c].closedBy = Cuts!NotClosed
    BY <1>1 DEF CuttingIInv, Terminations
  <2>. QED
    BY <2>2, <2>3, <2>4 DEF CoilType
<1>5. ASSUME NEW c \in Cuts!Coils \ S PROVE coil'[c] = coil[c]
  BY DEF Cuts!Send
<1>6. CoilsKeep /\ Cuts!Coils' = Cuts!Coils
  <2>1. \A c \in Cuts!Coils : coil'[c] \in CoilType /\ coil'[c].kind = coil[c].kind /\ coil'[c].born = coil[c].born
    BY <1>1, <1>4, <1>5, CoilsAre
  <2>2. coil' = [c \in Cuts!Coils |-> coil'[c]]
    BY DEF Cuts!Send
  <2>3. coil' \in [Cuts!Coils -> CoilType]
    BY <2>1, <2>2
  <2>. QED
    BY <1>1, <2>1, <2>3, CoilsMapped
<1>7. RowsGo({}, {})
  BY <1>1, SameRows
<1>8. CutsTyped'
  <2>1. ASSUME NEW r \in DOMAIN sent' PROVE sent'[r] \in SentType
    <3>1. CASE r \in DOMAIN sent
      BY <1>1, <1>3, <3>1, SentIs DEF SentMore
    <3>2. CASE r \notin DOMAIN sent
      <4>1. PICK c \in S : sent'[r] = [order |-> order, coil |-> c, status |-> "SENT"]
        BY <1>3, <3>2 DEF SentMore
      <4>2. c \in Nat
        BY <1>1, CoilsAre
      <4>. QED
        BY <4>1, <4>2 DEF SentType
    <3>. QED
      BY <3>1, <3>2
  <2>2. sent' \in Seq(SentType)
    BY <1>3, <2>1, InSeq DEF SentMore
  <2>. QED
    BY <1>1, <1>6, <1>7, <2>2, TypedKept DEF CutsTyped
<1>9. Entries'
  <2>1. ASSUME NEW c \in Cuts!Coils PROVE EntryKept(c, {}, {})
    BY <1>1, <1>4, <1>5 DEF CuttingIInv, Entries, EntryKept
  <2>. QED
    BY <1>6, <1>7, <2>1, EntriesKept DEF CuttingIInv
<1>10. Places'
  <2>1. ASSUME NEW r \in DOMAIN sent'
        PROVE  sent'[r].coil \in Cuts!Coils /\ coil[sent'[r].coil].kind = "COIL"
    <3>1. CASE r \in DOMAIN sent
      BY <1>3, <3>1 DEF SentMore, CuttingIInv, Places
    <3>2. CASE r \notin DOMAIN sent
      BY <1>1, <1>3, <3>2 DEF SentMore
    <3>. QED
      BY <3>1, <3>2
  <2>2. ASSUME NEW c \in Cuts!Coils \ S PROVE AtOne(c)'
    <3>1. Cuts!Sent(c)' = Cuts!Sent(c)
      BY <1>3 DEF SentMore, Cuts!Sent
    <3>. QED
      BY <1>5, <3>1 DEF CuttingIInv, Places, PlaceOf, AtOne
  <2>3. ASSUME NEW c \in S PROVE AtOne(c)'
    <3>1. Cuts!Sent(c) = {}
      BY <1>1 DEF CuttingIInv, Places, PlaceOf
    <3>2. PICK r \in DOMAIN sent' \ DOMAIN sent : sent'[r].coil = c
      BY <1>3 DEF SentMore
    <3>3. r \in Cuts!Sent(c)'
      BY <1>3, <3>2 DEF SentMore, Cuts!Sent
    <3>4. ASSUME NEW q \in Cuts!Sent(c)' PROVE q = r
      <4>1. q \notin DOMAIN sent
        BY <1>3, <3>1, <3>4 DEF SentMore, Cuts!Sent
      <4>2. q \in DOMAIN sent' \ DOMAIN sent /\ sent'[q].coil = c
        BY <4>1, <3>4 DEF Cuts!Sent
      <4>. QED
        BY <1>3, <3>2, <4>2 DEF SentMore
    <3>5. Cuts!Sent(c)' = {r}
      BY <3>3, <3>4
    <3>. QED
      BY <1>4, <3>3, <3>5 DEF AtOne
  <2>4. ASSUME NEW c \in mounted' PROVE coil[c].kind = "STRIP" /\ coil'[c].status = "OPEN" /\ c \in Cuts!Coils
    BY <1>1, <1>5 DEF CuttingIInv, Places, PlaceOf
  <2>. QED
    BY <1>1, <1>6, <2>1, <2>2, <2>3, <2>4, PlacesKept DEF CuttingIInv
<1>11. Terminations'
  <2>1. ASSUME NEW c \in Cuts!Coils \ S, coil[c].status = "CLOSED" PROVE Stands(c, coil[c].closedBy)'
    <3>1. PICK by : by = coil[c].closedBy /\ by = coil'[c].closedBy
      BY <1>5
    <3>2. Stands(c, by)
      BY <2>1, <3>1 DEF CuttingIInv, Terminations
    <3>3. Stands(c, by)'
      BY <1>1, <1>3, <1>7, <3>2, StandsStay DEF Stands, SentMore
    <3>. QED
      BY <3>1, <3>3
  <2>. QED
    BY <1>4, <1>5, <1>6, <2>1 DEF CuttingIInv, Terminations
<1>. QED
  BY <1>8, <1>9, <1>10, <1>11 DEF CuttingIInv

\* A coil that comes back from the cutter is in stock, sealed again or not.
CameBack(c) ==
  /\ coil'[c] \in CoilType /\ coil'[c].kind = coil[c].kind /\ coil'[c].born = coil[c].born
  /\ coil'[c].status = "OPEN" /\ coil'[c].closedBy = Cuts!NotClosed

LEMMA CancelKeeps ==
  ASSUME CuttingIInv, NEW o, Cuts!Cancel(o)
  PROVE  CuttingIInv'
<1>. DEFINE Resealed(c) ==
              IF coil[c].film = "CUTTING_SEND" /\ Cuts!MayReseal(c)
              THEN [Cuts!With(coil, c, "OPEN")[c] EXCEPT !.film = "SEALED"]
              ELSE Cuts!With(coil, c, "OPEN")[c]
<1>1. CutsTyped /\ UNCHANGED <<cutRows, splits, mounted>>
  BY DEF Cuts!Cancel, CuttingIInv
<1>2. PICK waiting : waiting = {r \in Cuts!OfOrder(o) : sent[r].status = "SENT"}
  OBVIOUS
<1>3. PICK back : back = {sent[r].coil : r \in waiting}
  OBVIOUS
<1>4. /\ sent' = [r \in DOMAIN sent |->
                    IF r \in waiting THEN [sent[r] EXCEPT !.status = "CANCELLED"] ELSE sent[r]]
      /\ coil' = [c \in Cuts!Coils |-> IF c \in back THEN Resealed(c) ELSE coil[c]]
  BY <1>2, <1>3 DEF Cuts!Cancel
<1>5. /\ DOMAIN sent' = DOMAIN sent
      /\ \A r \in waiting : /\ r \in DOMAIN sent /\ r \in Cuts!Sent(sent[r].coil)
                            /\ sent'[r] \in SentType /\ sent'[r].coil = sent[r].coil
                            /\ sent'[r].status = "CANCELLED"
      /\ \A r \in DOMAIN sent \ waiting : sent'[r] = sent[r]
  BY <1>1, <1>2, <1>4, SentIs DEF Cuts!OfOrder, Cuts!Sent, SentType
<1>6. ASSUME NEW c \in back
      PROVE  /\ c \in Cuts!Coils /\ coil[c].status = "IN_THIRD_PARTY" /\ coil[c].kind = "COIL"
             /\ Cuts!Sent(c) \subseteq waiting
  <2>1. PICK r \in waiting : c = sent[r].coil
    BY <1>3
  <2>2. c \in Cuts!Coils /\ coil[c].kind = "COIL" /\ r \in Cuts!Sent(c)
    BY <1>5, <2>1 DEF CuttingIInv, Places
  <2>3. coil[c].status = "IN_THIRD_PARTY" /\ \E q \in Cuts!Sent(c) : Cuts!Sent(c) = {q}
    BY <2>2 DEF CuttingIInv, Places, PlaceOf
  <2>. QED
    BY <2>2, <2>3
<1>7. ASSUME NEW c \in back PROVE CameBack(c)
  <2>1. PICK k : k = Cuts!With(coil, c, "OPEN")[c]
    OBVIOUS
  <2>2. IsWith(k, coil[c], "OPEN", Cuts!NotClosed)
    BY <1>1, <1>6, <2>1, CoilsAre, WithIs DEF Statuses
  <2>3. PICK sealed : sealed = [k EXCEPT !.film = "SEALED"]
    OBVIOUS
  <2>4. /\ sealed \in CoilType /\ sealed.kind = k.kind /\ sealed.born = k.born
        /\ sealed.status = k.status /\ sealed.closedBy = k.closedBy
    BY <2>2, <2>3 DEF IsWith, CoilType, Films
  <2>5. coil'[c] = sealed \/ coil'[c] = k
    BY <1>4, <1>6, <2>1, <2>3
  <2>. QED
    BY <2>2, <2>4, <2>5 DEF IsWith, CameBack
<1>8. ASSUME NEW c \in Cuts!Coils \ back PROVE coil'[c] = coil[c]
  BY <1>4
<1>9. CoilsKeep /\ Cuts!Coils' = Cuts!Coils
  <2>1. \A c \in Cuts!Coils : coil'[c] \in CoilType /\ coil'[c].kind = coil[c].kind /\ coil'[c].born = coil[c].born
    BY <1>1, <1>7, <1>8, CoilsAre DEF CameBack
  <2>2. coil' = [c \in Cuts!Coils |-> coil'[c]]
    BY <1>4
  <2>3. coil' \in [Cuts!Coils -> CoilType]
    BY <2>1, <2>2
  <2>. QED
    BY <1>1, <2>1, <2>3, CoilsMapped
<1>10. RowsGo({}, {})
  BY <1>1, SameRows
<1>11. CutsTyped'
  <2>1. IsSeq(sent')
    <3>1. PICK n \in Nat : n = Len(sent) /\ DOMAIN sent = 1..n
      BY <1>1, SentIs
    <3>2. sent' = [r \in 1..n |-> sent'[r]]
      BY <1>4, <3>1
    <3>. QED
      BY <3>2, FunctionIsSeq
  <2>2. \A r \in DOMAIN sent' : sent'[r] \in SentType
    BY <1>1, <1>5, SentIs
  <2>3. sent' \in Seq(SentType)
    BY <2>1, <2>2, InSeq
  <2>. QED
    BY <1>1, <1>9, <1>10, <2>3, TypedKept DEF CutsTyped
<1>12. Entries'
  <2>1. ASSUME NEW c \in Cuts!Coils PROVE EntryKept(c, {}, {})
    BY <1>6, <1>7, <1>8 DEF CuttingIInv, Entries, EntryKept, CameBack
  <2>. QED
    BY <1>9, <1>10, <2>1, EntriesKept DEF CuttingIInv
<1>13. Places'
  <2>1. \A r \in DOMAIN sent' : sent'[r].coil = sent[r].coil /\ r \in DOMAIN sent
    BY <1>5
  <2>2. ASSUME NEW c \in back PROVE AtOne(c)'
    <3>1. Cuts!Sent(c)' = {}
      BY <1>5, <1>6 DEF Cuts!Sent
    <3>. QED
      BY <1>7, <3>1 DEF AtOne, CameBack
  <2>3. ASSUME NEW c \in Cuts!Coils \ back PROVE AtOne(c)'
    <3>1. Cuts!Sent(c)' = Cuts!Sent(c)
      BY <1>3, <1>5 DEF Cuts!Sent
    <3>. QED
      BY <1>8, <3>1 DEF CuttingIInv, Places, PlaceOf, AtOne
  <2>4. ASSUME NEW c \in mounted' PROVE coil[c].kind = "STRIP" /\ coil'[c].status = "OPEN" /\ c \in Cuts!Coils
    BY <1>1, <1>6, <1>8 DEF CuttingIInv, Places, PlaceOf
  <2>. QED
    BY <1>9, <2>1, <2>2, <2>3, <2>4, PlacesKept DEF CuttingIInv, Places
<1>14. Terminations'
  <2>1. ASSUME NEW c \in Cuts!Coils \ back, coil[c].status = "CLOSED" PROVE Stands(c, coil[c].closedBy)'
    <3>1. PICK by : by = coil[c].closedBy /\ by = coil'[c].closedBy
      BY <1>8
    <3>2. Stands(c, by)
      BY <2>1, <3>1 DEF CuttingIInv, Terminations
    <3>3. by.kind = "CUTTING" => by.id \in DOMAIN sent' /\ sent'[by.id] = sent[by.id]
      BY <1>2, <1>5, <3>2 DEF Stands
    <3>4. Stands(c, by)'
      BY <1>1, <1>10, <3>2, <3>3, StandsStay DEF Stands
    <3>. QED
      BY <3>1, <3>4
  <2>. QED
    BY <1>7, <1>8, <1>9, <2>1 DEF CuttingIInv, Terminations, CameBack
<1>. QED
  BY <1>11, <1>12, <1>13, <1>14 DEF CuttingIInv

-----------------------------------------------------------------------------
(* The operations of one coil.                                              *)

LEMMA OneCutRow ==
  ASSUME CutsTyped, NEW row, RowHolds(row, 1), cutRows' = Append(cutRows, row)
  PROVE  \E i \in Nat : /\ i = Len(cutRows') /\ i \in DOMAIN cutRows' /\ cutRows'[i] = row
                        /\ RowsGo({}, {i})
<1>1. PICK t : t = <<row>>
  OBVIOUS
<1>2. /\ cutRows' = cutRows \o t /\ IsSeq(t) /\ Len(t) = 1 /\ DOMAIN t = 1..1 /\ t[1] = row
  BY <1>1, Appended DEF CutsTyped
<1>3. \A k \in DOMAIN t : RowHolds(t[k], 1)
  BY <1>2
<1>4. RowsGo({}, DOMAIN cutRows' \ DOMAIN cutRows) /\ Joins(cutRows', cutRows, t)
  BY <1>2, <1>3, CutRowsAdded
<1>5. PICK n \in Nat : n = Len(cutRows)
  BY SeqIs DEF CutsTyped
<1>6. PICK i \in DOMAIN cutRows' \ DOMAIN cutRows : i = n + 1 /\ cutRows'[i] = row
  BY <1>2, <1>4, <1>5 DEF Joins
<1>7. \A j \in DOMAIN cutRows' \ DOMAIN cutRows : j = i
  BY <1>2, <1>4, <1>5, <1>6 DEF Joins
<1>8. DOMAIN cutRows' \ DOMAIN cutRows = {i}
  BY <1>6, <1>7
<1>9. Len(cutRows') = n + 1
  BY <1>2, <1>4, <1>5 DEF Joins
<1>10. i \in Nat /\ i = Len(cutRows')
  BY <1>5, <1>6, <1>9
<1>11. RowsGo({}, {i})
  BY <1>4, <1>8
<1>. QED
  BY <1>6, <1>10, <1>11

LEMMA UndoneOne ==
  ASSUME CutsTyped, NEW i \in DOMAIN cutRows, cutRows' = Append(cutRows, Cuts!Undo(i))
  PROVE  RowsGo({i}, {})
<1>1. PICK q : q = <<i>>
  OBVIOUS
<1>2. IsSeq(q) /\ DOMAIN q = 1..1 /\ q[1] = i
  BY <1>1, Appended DEF CutsTyped
<1>3. PICK u : u = Cuts!Undo(i)
  OBVIOUS
<1>4. Cuts!UndoAll(q) = <<u>>
  <2>1. Cuts!Undo(q[1]) = u
    BY <1>2, <1>3
  <2>2. \A k \in 1..1 : Cuts!Undo(q[k]) = u
    BY <2>1
  <2>3. Cuts!UndoAll(q) = [k \in 1..1 |-> u]
    BY <1>2, <2>2 DEF Cuts!UndoAll
  <2>. QED
    BY <2>3
<1>5. cutRows' = cutRows \o Cuts!UndoAll(q)
  BY <1>3, <1>4, Appended DEF CutsTyped
<1>6. /\ {i} \subseteq DOMAIN cutRows /\ \A k \in DOMAIN q : q[k] \in {i}
      /\ \A u1 \in {i} : \E k \in DOMAIN q : q[k] = u1
  BY <1>2
<1>. QED
  BY <1>2, <1>5, <1>6, Undone

\* What an operation of one coil, of no order, has to leave.
LEMMA OneCoil ==
  ASSUME CuttingIInv, NEW c \in Cuts!Coils, NEW U, NEW N, RowsGo(U, N), CoilsKeep, Cuts!Coils' = Cuts!Coils,
         \A d \in Cuts!Coils \ {c} : coil'[d] = coil[d],
         UNCHANGED <<splits, sent, mounted>>, c \notin mounted,
         \A i \in U : i \in DOMAIN cutRows /\ cutRows[i].coil = c,
         \A i \in N : EntryRow(i)' /\ cutRows'[i].coil = c,
         EntryKept(c, U, N),
         coil'[c].status = "IN_THIRD_PARTY" <=> coil[c].status = "IN_THIRD_PARTY",
         coil'[c].status \in {"OPEN", "IN_THIRD_PARTY"} => coil'[c].closedBy = Cuts!NotClosed,
         coil'[c].status = "CLOSED" => Stands(c, coil[c].closedBy)'
  PROVE  CuttingIInv'
<1>1. CutsTyped'
  BY TypedKept DEF CuttingIInv, CutsTyped
<1>2. ASSUME NEW d \in Cuts!Coils PROVE EntryKept(d, U, N)
  BY DEF CuttingIInv, Entries, EntryKept
<1>3. Entries'
  BY <1>2, EntriesKept DEF CuttingIInv
<1>4. Places'
  BY PlacesStay DEF CuttingIInv, Places, PlaceOf
<1>5. ASSUME NEW d \in Cuts!Coils \ {c}, coil[d].status = "CLOSED" PROVE Stands(d, coil[d].closedBy)'
  <2>1. PICK by : by = coil[d].closedBy /\ by = coil'[d].closedBy
    OBVIOUS
  <2>2. Stands(d, by)
    BY <1>5, <2>1 DEF CuttingIInv, Terminations
  <2>3. Stands(d, by)'
    BY <2>2, StandsStay DEF Stands
  <2>. QED
    BY <2>1, <2>3
<1>6. Terminations'
  BY <1>5 DEF CuttingIInv, Terminations
<1>. QED
  BY <1>1, <1>3, <1>4, <1>6 DEF CuttingIInv

\* What closed a coil that stays closed.
LEMMA ClosedStill ==
  ASSUME CuttingIInv, NEW c \in Cuts!Coils, NEW U, NEW N, RowsGo(U, N), UNCHANGED <<splits, sent>>,
         coil[c].status = "CLOSED", coil'[c].closedBy = coil[c].closedBy,
         coil[c].closedBy.kind = "SCRAP" => coil[c].closedBy.id \notin U
  PROVE  Stands(c, coil[c].closedBy)'
<1>1. PICK by : by = coil[c].closedBy /\ by = coil'[c].closedBy
  OBVIOUS
<1>2. Stands(c, by)
  BY <1>1 DEF CuttingIInv, Terminations
<1>3. Stands(c, by)'
  BY <1>1, <1>2, StandsStay DEF Stands
<1>. QED
  BY <1>1, <1>3

LEMMA ScrapKeeps ==
  ASSUME CuttingIInv, NEW c \in Cuts!Coils, Cuts!Scrap(c)
  PROVE  CuttingIInv'
<1>1. CutsTyped /\ UNCHANGED <<splits, sent, mounted>> /\ coil[c].status \in {"OPEN", "CLOSED"} /\ c \notin mounted
  BY DEF Cuts!Scrap, Cuts!AtHand, CuttingIInv
<1>2. c \in Nat
  BY <1>1, CoilsAre
<1>3. PICK row : RowHolds(row, 1) /\ row.coil = c /\ row.type = "OUT" /\ row.ref.kind = "SCRAP" /\ cutRows' = Append(cutRows, row)
  <2>1. PICK q : cutRows' = Append(cutRows, Cuts!Row(c, "OUT", q, Cuts!Ref("SCRAP", c), 0))
    BY DEF Cuts!Scrap
  <2>2. PICK ref : ref = Cuts!Ref("SCRAP", c)
    OBVIOUS
  <2>3. ref \in RefType /\ ref.kind = "SCRAP"
    BY <1>2, <2>2, RefIs DEF Kinds
  <2>4. PICK row : row = Cuts!Row(c, "OUT", q, ref, 0)
    OBVIOUS
  <2>5. RowHolds(row, 1) /\ row.coil = c /\ row.type = "OUT" /\ row.ref = ref
    BY <1>2, <2>3, <2>4 DEF Cuts!Row, RowHolds
  <2>. QED
    BY <2>1, <2>2, <2>3, <2>4, <2>5
<1>4. PICK i \in Nat : i = Len(cutRows') /\ i \in DOMAIN cutRows' /\ cutRows'[i] = row /\ RowsGo({}, {i})
  BY <1>1, <1>3, OneCutRow
<1>5. PICK cause : cause = Cuts!Ref("SCRAP", i)
  OBVIOUS
<1>6. cause \in RefType /\ cause.kind = "SCRAP" /\ cause.id = i
  BY <1>4, <1>5, RefIs DEF Kinds
<1>7. PICK open : open = Cuts!Opened(coil[c], "SCRAP")
  OBVIOUS
<1>8. /\ open \in CoilType /\ open.kind = coil[c].kind /\ open.born = coil[c].born
      /\ open.status = coil[c].status /\ open.closedBy = coil[c].closedBy
  BY <1>1, <1>7, CoilsAre, OpenedIs DEF Films
<1>9. PICK cs : cs = [coil EXCEPT ![c] = open]
  OBVIOUS
<1>9a. cs \in [Cuts!Coils -> CoilType] /\ cs[c] = open /\ \A d \in Cuts!Coils \ {c} : cs[d] = coil[d]
  BY <1>1, <1>8, <1>9, CoilsAre
<1>10. coil' = Cuts!Terminated(cs, cutRows', c, cause)
  BY <1>4, <1>5, <1>7, <1>9 DEF Cuts!Scrap
<1>11. /\ coil' \in [Cuts!Coils -> CoilType] /\ \A d \in Cuts!Coils \ {c} : coil'[d] = coil[d]
       /\ \/ coil'[c] = open
          \/ coil[c].status = "OPEN" /\ IsWith(coil'[c], open, "CLOSED", cause)
  <2>1. MayEnd(coil', Cuts!Coils, cs, c, cause)
    BY <1>6, <1>9a, <1>10, TerminatedIs
  <2>. QED
    BY <1>8, <1>9a, <2>1 DEF MayEnd
<1>12. CoilsKeep /\ Cuts!Coils' = Cuts!Coils
  BY <1>1, <1>8, <1>11, CoilsMapped DEF IsWith
<1>13. EntryRow(i)' /\ cutRows'[i].coil = c
  BY <1>3, <1>4, <1>12 DEF EntryRow
<1>14. EntryKept(c, {}, {i})
  BY <1>1, <1>8, <1>11 DEF EntryKept, IsWith
<1>15. ASSUME coil'[c].status = "CLOSED" PROVE Stands(c, coil[c].closedBy)'
  <2>1. CASE coil'[c] = open
    BY <1>1, <1>4, <1>8, <1>15, <2>1, ClosedStill
  <2>2. CASE IsWith(coil'[c], open, "CLOSED", cause)
    <3>1. Stands(c, cause)'
      BY <1>3, <1>4, <1>6 DEF Stands, RowsGo
    <3>. QED
      BY <2>2, <3>1 DEF IsWith
  <2>. QED
    BY <1>11, <2>1, <2>2
<1>16. /\ coil'[c].status # "IN_THIRD_PARTY"
       /\ coil'[c].status = "OPEN" => coil'[c].closedBy = Cuts!NotClosed
  BY <1>1, <1>8, <1>11 DEF IsWith, CuttingIInv, Terminations
<1>. QED
  BY <1>1, <1>4, <1>11, <1>12, <1>13, <1>14, <1>15, <1>16, OneCoil

\* A row that stands is of a coil that was not annulled.
LEMMA LiveIs ==
  ASSUME CuttingIInv, NEW c, NEW i \in Cuts!LiveOf(c)
  PROVE  /\ i \in DOMAIN cutRows /\ Cuts!LiveRow(i) /\ cutRows[i].coil = c /\ EntryRow(i)
         /\ c \in Cuts!Coils /\ coil[c].status # "CANCELLED" /\ RowHolds(cutRows[i], i)
BY DEF CuttingIInv, CutsTyped, Entries, EntryRow, Cuts!LiveOf

\* With(coil, c, status), of a coil.
LEMMA CoilWith ==
  ASSUME CutsTyped, NEW c \in Cuts!Coils, NEW status \in Statuses, coil' = Cuts!With(coil, c, status)
  PROVE  /\ CoilsKeep /\ Cuts!Coils' = Cuts!Coils /\ \A d \in Cuts!Coils \ {c} : coil'[d] = coil[d]
         /\ coil'[c].status = status /\ coil'[c].closedBy = Cuts!NotClosed
<1>1. /\ coil' \in [Cuts!Coils -> CoilType] /\ \A d \in Cuts!Coils \ {c} : coil'[d] = coil[d]
      /\ IsWith(coil'[c], coil[c], status, Cuts!NotClosed)
  BY CoilsAre, WithIs
<1>2. \A d \in Cuts!Coils : coil'[d].kind = coil[d].kind /\ coil'[d].born = coil[d].born
  BY <1>1 DEF IsWith
<1>3. CoilsKeep /\ Cuts!Coils' = Cuts!Coils
  BY <1>1, <1>2, CoilsMapped
<1>. QED
  BY <1>1, <1>3 DEF IsWith

LEMMA CancelScrapKeeps ==
  ASSUME CuttingIInv, NEW i \in DOMAIN cutRows, Cuts!CancelScrap(i)
  PROVE  CuttingIInv'
<1>1. PICK c : c = cutRows[i].coil
  OBVIOUS
<1>2. /\ CutsTyped /\ cutRows[i].ref.kind = "SCRAP" /\ Cuts!LiveRow(i) /\ c \notin mounted
      /\ cutRows' = Append(cutRows, Cuts!Undo(i)) /\ UNCHANGED <<splits, sent, mounted>>
      /\ coil' = IF coil[c].closedBy = Cuts!Ref("SCRAP", i) THEN Cuts!With(coil, c, "OPEN") ELSE coil
  BY <1>1 DEF Cuts!CancelScrap, CuttingIInv
<1>3. i \in Cuts!LiveOf(c)
  BY <1>1, <1>2 DEF Cuts!LiveOf
<1>4. c \in Cuts!Coils /\ coil[c].status # "CANCELLED" /\ i \in Nat
  BY <1>2, <1>3, LiveIs, UndoIs
<1>5. RowsGo({i}, {})
  BY <1>2, UndoneOne
<1>6. coil[c].born.kind # "SCRAP"
  BY <1>4 DEF CuttingIInv, Places, PlaceOf
<1>7. coil[c] \in CoilType
  BY <1>2, <1>4, CoilsAre
<1>8. CASE coil[c].closedBy = Cuts!Ref("SCRAP", i)
  <2>1. /\ CoilsKeep /\ Cuts!Coils' = Cuts!Coils /\ \A d \in Cuts!Coils \ {c} : coil'[d] = coil[d]
        /\ coil'[c].status = "OPEN" /\ coil'[c].closedBy = Cuts!NotClosed
    BY <1>2, <1>4, <1>8, CoilWith DEF Statuses
  <2>2. coil[c].closedBy # Cuts!NotClosed
    BY <1>4, <1>8, RefIs DEF Kinds
  <2>3. coil[c].status # "IN_THIRD_PARTY"
    BY <1>4, <2>2 DEF CuttingIInv, Terminations
  <2>4. EntryKept(c, {i}, {})
    BY <1>2, <1>4, <1>6, <2>1 DEF EntryKept
  <2>. QED
    BY <1>1, <1>2, <1>4, <1>5, <2>1, <2>3, <2>4, OneCoil
<1>9. CASE coil[c].closedBy # Cuts!Ref("SCRAP", i)
  <2>1. coil' = coil /\ CoilsKeep /\ Cuts!Coils' = Cuts!Coils
    BY <1>2, <1>9, SameCoils
  <2>2. EntryKept(c, {i}, {})
    BY <1>2, <1>4, <1>6, <2>1 DEF EntryKept
  <2>3. coil[c].closedBy.kind = "SCRAP" => coil[c].closedBy.id # i
    <3>1. coil[c].closedBy \in RefType
      BY <1>7 DEF CoilType
    <3>. QED
      BY <1>9, <3>1, RefIs
  <2>4. coil'[c].status = "CLOSED" => Stands(c, coil[c].closedBy)'
    BY <1>2, <1>4, <1>5, <2>1, <2>3, ClosedStill
  <2>5. coil'[c].status \in {"OPEN", "IN_THIRD_PARTY"} => coil'[c].closedBy = Cuts!NotClosed
    BY <1>4, <2>1 DEF CuttingIInv, Terminations
  <2>. QED
    BY <1>1, <1>2, <1>4, <1>5, <2>1, <2>2, <2>4, <2>5, OneCoil
<1>. QED
  BY <1>8, <1>9

LEMMA CloseKeeps ==
  ASSUME CuttingIInv, NEW c \in Cuts!Coils, Cuts!Close(c)
  PROVE  CuttingIInv'
<1>1. CutsTyped /\ coil[c].status = "OPEN" /\ c \notin mounted /\ UNCHANGED <<splits, sent, mounted>>
  BY DEF Cuts!Close, CuttingIInv
<1>2. PICK new : new = [[coil[c] EXCEPT !.status = "CLOSED"] EXCEPT !.closedBy = Cuts!Manual]
  OBVIOUS
<1>3. IsWith(new, coil[c], "CLOSED", Cuts!Manual)
  BY <1>1, <1>2, CoilsAre, RecordSet, RefIs DEF Statuses
<1>4. coil' = [coil EXCEPT ![c] = new]
  BY <1>2 DEF Cuts!Close
<1>5. CoilsKeep /\ Cuts!Coils' = Cuts!Coils /\ coil'[c] = new /\ \A d \in Cuts!Coils \ {c} : coil'[d] = coil[d]
  BY <1>1, <1>3, <1>4, CoilUpdated DEF IsWith
<1>6. coil'[c].status = "CLOSED" /\ coil'[c].closedBy = Cuts!Manual
  BY <1>3, <1>5 DEF IsWith
<1>7. Stands(c, coil[c].closedBy)'
  BY <1>6, RefIs DEF Stands
<1>8. PICK N : /\ RowsGo({}, N)
               /\ \A i \in N : cutRows'[i].coil = c /\ cutRows'[i].ref.kind = "CLOSE_ADJUSTMENT"
  <2>1. CASE cutRows' = cutRows
    BY <1>1, <2>1, SameRows
  <2>2. ASSUME NEW type \in {"IN", "OUT"}, NEW q,
               cutRows' = Append(cutRows, Cuts!Row(c, type, q, Cuts!Ref("CLOSE_ADJUSTMENT", c), 0))
        PROVE  \E N : /\ RowsGo({}, N)
                      /\ \A i \in N : cutRows'[i].coil = c /\ cutRows'[i].ref.kind = "CLOSE_ADJUSTMENT"
    <3>1. PICK ref : ref = Cuts!Ref("CLOSE_ADJUSTMENT", c)
      OBVIOUS
    <3>2. ref \in RefType /\ ref.kind = "CLOSE_ADJUSTMENT" /\ c \in Nat
      BY <1>1, <3>1, CoilsAre, RefIs DEF Kinds
    <3>3. PICK row : row = Cuts!Row(c, type, q, ref, 0)
      OBVIOUS
    <3>4. RowHolds(row, 1) /\ row.coil = c /\ row.ref = ref
      BY <3>2, <3>3 DEF Cuts!Row, RowHolds
    <3>5. PICK i \in Nat : cutRows'[i] = row /\ RowsGo({}, {i})
      BY <1>1, <2>2, <3>1, <3>3, <3>4, OneCutRow
    <3>. QED
      BY <3>2, <3>4, <3>5
  <2>3. \/ cutRows' = cutRows
        \/ \E type \in {"IN", "OUT"} : \E q :
             cutRows' = Append(cutRows, Cuts!Row(c, type, q, Cuts!Ref("CLOSE_ADJUSTMENT", c), 0))
    BY DEF Cuts!Close
  <2>. QED
    BY <2>1, <2>2, <2>3
<1>9. ASSUME NEW i \in N PROVE EntryRow(i)' /\ cutRows'[i].coil = c
  BY <1>5, <1>8 DEF EntryRow
<1>10. EntryKept(c, {}, N)
  BY <1>1, <1>6 DEF EntryKept
<1>. QED
  BY <1>1, <1>5, <1>6, <1>7, <1>8, <1>9, <1>10, OneCoil

LEMMA ReopenKeeps ==
  ASSUME CuttingIInv, NEW c \in Cuts!Coils, Cuts!Reopen(c)
  PROVE  CuttingIInv'
<1>1. /\ CutsTyped /\ coil[c].status = "CLOSED" /\ c \notin mounted /\ UNCHANGED <<splits, sent, mounted>>
      /\ coil' = Cuts!With(coil, c, "OPEN")
  BY DEF Cuts!Reopen, CuttingIInv
<1>2. /\ CoilsKeep /\ Cuts!Coils' = Cuts!Coils /\ \A d \in Cuts!Coils \ {c} : coil'[d] = coil[d]
      /\ coil'[c].status = "OPEN" /\ coil'[c].closedBy = Cuts!NotClosed
  BY <1>1, CoilWith DEF Statuses
<1>3. PICK U : /\ RowsGo(U, {})
               /\ \A i \in U : /\ i \in DOMAIN cutRows /\ cutRows[i].coil = c
                               /\ cutRows[i].ref.kind = "CLOSE_ADJUSTMENT"
  <2>1. CASE cutRows' = cutRows
    BY <1>1, <2>1, SameRows
  <2>2. ASSUME NEW i \in Cuts!Adjustment(c), Cuts!LiveRow(i), cutRows' = Append(cutRows, Cuts!Undo(i))
        PROVE  \E U : /\ RowsGo(U, {})
                      /\ \A j \in U : /\ j \in DOMAIN cutRows /\ cutRows[j].coil = c
                                      /\ cutRows[j].ref.kind = "CLOSE_ADJUSTMENT"
    <3>1. i \in DOMAIN cutRows /\ cutRows[i].coil = c /\ cutRows[i].ref.kind = "CLOSE_ADJUSTMENT"
      BY DEF Cuts!Adjustment
    <3>2. RowsGo({i}, {})
      BY <1>1, <2>2, <3>1, UndoneOne
    <3>. QED
      BY <3>1, <3>2
  <2>. QED
    BY <2>1, <2>2 DEF Cuts!Reopen
<1>4. EntryKept(c, U, {})
  <2>1. coil[c].born.kind # "CLOSE_ADJUSTMENT"
    BY DEF CuttingIInv, Places, PlaceOf
  <2>. QED
    BY <1>1, <1>2, <1>3, <2>1 DEF EntryKept
<1>. QED
  BY <1>1, <1>2, <1>3, <1>4, OneCoil

LEMMA AnnulKeeps ==
  ASSUME CuttingIInv, NEW c \in Cuts!Coils, Cuts!Annul(c)
  PROVE  CuttingIInv'
<1>1. /\ CutsTyped /\ coil[c].status \in {"OPEN", "CLOSED"} /\ c \notin mounted
      /\ UNCHANGED <<splits, sent, mounted>>
      /\ Cardinality(Cuts!LiveOf(c)) = 1 /\ cutRows' = Append(cutRows, Cuts!Undo(CHOOSE i \in Cuts!LiveOf(c) : TRUE))
      /\ coil' = Cuts!With(coil, c, "CANCELLED")
  BY CardinalityInCuts DEF Cuts!Annul, Cuts!AtHand, CuttingIInv
<1>2. PICK i : Cuts!LiveOf(c) = {i}
  <2>1. PICK n \in Nat : DOMAIN cutRows = 1..n
    BY <1>1, SeqIs DEF CutsTyped
  <2>2. IsFiniteSet(1..n) /\ Cuts!LiveOf(c) \subseteq 1..n
    BY <2>1, FS_Interval DEF Cuts!LiveOf
  <2>3. IsFiniteSet(Cuts!LiveOf(c))
    BY <2>2, FS_Subset
  <2>. QED
    BY <1>1, <2>3, FS_Singleton
<1>3. i \in DOMAIN cutRows /\ cutRows[i].coil = c
  BY <1>2 DEF Cuts!LiveOf
<1>4. cutRows' = Append(cutRows, Cuts!Undo(i))
  BY <1>1, <1>2
<1>5. RowsGo({i}, {})
  BY <1>1, <1>3, <1>4, UndoneOne
<1>6. /\ CoilsKeep /\ Cuts!Coils' = Cuts!Coils /\ \A d \in Cuts!Coils \ {c} : coil'[d] = coil[d]
      /\ coil'[c].status = "CANCELLED" /\ coil'[c].closedBy = Cuts!NotClosed
  BY <1>1, CoilWith DEF Statuses
<1>7. EntryKept(c, {i}, {})
  BY <1>2, <1>6 DEF EntryKept
<1>. QED
  BY <1>1, <1>3, <1>5, <1>6, <1>7, OneCoil

-----------------------------------------------------------------------------
(* Cuts.                                                                    *)

LEMMA CutIs ==
  ASSUME NEW w, NEW weights \in Cuts!CutsOf(w)
  PROVE  \E m \in Nat : 1 <= m /\ IsSeq(weights) /\ DOMAIN weights = 1..m
<1>1. CASE \E a : weights = <<a>>
  <2>1. PICK a : weights = <<a>>
    BY <1>1
  <2>2. weights \in Seq({a}) /\ DOMAIN weights = 1..1
    BY <2>1
  <2>. QED
    BY <2>2, TypedIsSeq
<1>2. CASE \E a, b : weights = <<a, b>>
  <2>1. PICK a, b : weights = <<a, b>>
    BY <1>2
  <2>2. weights \in Seq({a, b}) /\ DOMAIN weights = 1..2
    BY <2>1
  <2>. QED
    BY <2>2, TypedIsSeq
<1>3. (\E a : weights = <<a>>) \/ weights \in (1..w) \X (1..w)
  BY DEF Cuts!CutsOf
<1>4. weights \in (1..w) \X (1..w) => \E a, b : weights = <<a, b>>
  OBVIOUS
<1>. QED
  BY <1>1, <1>2, <1>3, <1>4

\* The rows of a cut: the mother's, and one of each piece.
RowsOfCut(N, c, ref, pieces) ==
  /\ RowsGo({}, N)
  /\ \A i \in N : \/ cutRows'[i].type = "OUT" /\ cutRows'[i].coil = c
                  \/ /\ cutRows'[i].type = "IN" /\ cutRows'[i].ref = ref
                     /\ \E k \in pieces : cutRows'[i].coil = Len(coil) + k
  /\ \A k \in pieces : \E i \in N : /\ cutRows'[i].type = "IN" /\ cutRows'[i].ref = ref
                                    /\ cutRows'[i].coil = Len(coil) + k

LEMMA CutRowsGo ==
  ASSUME CutsTyped, NEW c \in Cuts!Coils, NEW w, NEW m \in Nat, NEW weights, DOMAIN weights = 1..m,
         NEW ref \in RefType, cutRows' = cutRows \o Cuts!CutRows(c, w, ref, weights)
  PROVE  \E N : RowsOfCut(N, c, ref, 1..m)
<1>1. PICK n \in Nat : n = Len(coil) /\ c \in Nat
  BY CoilsAre
<1>2. PICK out : out = Cuts!Row(c, "OUT", w, ref, 0)
  OBVIOUS
<1>3. RowHolds(out, 1) /\ out.type = "OUT" /\ out.coil = c
  BY <1>1, <1>2 DEF Cuts!Row, RowHolds
<1>4. PICK ins : ins = [k \in 1..m |-> Cuts!Row(n + k, "IN", weights[k], ref, 0)]
  OBVIOUS
<1>5. ASSUME NEW k \in 1..m
      PROVE  RowHolds(ins[k], 1) /\ ins[k].type = "IN" /\ ins[k].ref = ref /\ ins[k].coil = n + k
  <2>1. PICK d \in Nat : d = n + k
    BY <1>1
  <2>2. PICK row : row = Cuts!Row(d, "IN", weights[k], ref, 0)
    OBVIOUS
  <2>3. RowHolds(row, 1) /\ row.type = "IN" /\ row.ref = ref /\ row.coil = d
    BY <2>2 DEF Cuts!Row, RowHolds
  <2>4. ins[k] = row
    BY <1>4, <2>1, <2>2
  <2>. QED
    BY <2>1, <2>3, <2>4
<1>6. IsSeq(ins) /\ DOMAIN ins = 1..m
  BY <1>4, FunctionIsSeq
<1>7. PICK first : first = <<out>>
  OBVIOUS
<1>8. IsSeq(first) /\ DOMAIN first = 1..1 /\ first[1] = out
  BY <1>7, Appended DEF CutsTyped
<1>9. PICK t : t = first \o ins
  OBVIOUS
<1>10. Joins(t, first, ins)
  BY <1>6, <1>8, <1>9, Joined
<1>11. /\ IsSeq(t) /\ \A k \in DOMAIN t : t[k] = out \/ \E l \in 1..m : t[k] = ins[l]
       /\ \A l \in 1..m : \E k \in DOMAIN t : t[k] = ins[l]
  <2>1. IsSeq(t) /\ \A k \in DOMAIN first : k \in DOMAIN t /\ t[k] = first[k]
    BY <1>10 DEF Joins
  <2>2. \A k \in DOMAIN t \ DOMAIN first : \E l \in DOMAIN ins : t[k] = ins[l]
    BY <1>10 DEF Joins
  <2>3. \A l \in DOMAIN ins : \E k \in DOMAIN t : t[k] = ins[l]
    BY <1>10 DEF Joins
  <2>4. \A k \in DOMAIN first : first[k] = out
    BY <1>8
  <2>. QED
    BY <1>6, <2>1, <2>2, <2>3, <2>4, Zenon
<1>12. \A k \in DOMAIN t : RowHolds(t[k], 1)
  <2>1. ASSUME NEW k \in DOMAIN t PROVE RowHolds(t[k], 1)
    <3>1. CASE t[k] = out
      BY <1>3, <3>1
    <3>2. CASE \E l \in 1..m : t[k] = ins[l]
      <4>1. PICK l \in 1..m : t[k] = ins[l]
        BY <3>2
      <4>2. RowHolds(ins[l], 1)
        BY <1>5
      <4>. QED
        BY <4>1, <4>2
    <3>. QED
      BY <1>11, <3>1, <3>2
  <2>. QED
    BY <2>1
<1>13. cutRows' = cutRows \o t
  BY <1>1, <1>2, <1>4, <1>7, <1>9 DEF Cuts!CutRows
<1>14. PICK N : N = DOMAIN cutRows' \ DOMAIN cutRows
  OBVIOUS
<1>15. RowsGo({}, N) /\ Joins(cutRows', cutRows, t)
  BY <1>11, <1>12, <1>13, <1>14, CutRowsAdded
<1>16. /\ \A i \in N : \E k \in DOMAIN t : cutRows'[i] = t[k]
       /\ \A k \in DOMAIN t : \E i \in N : cutRows'[i] = t[k]
  BY <1>14, <1>15 DEF Joins
<1>17. ASSUME NEW i \in N
       PROVE  \/ cutRows'[i].type = "OUT" /\ cutRows'[i].coil = c
              \/ /\ cutRows'[i].type = "IN" /\ cutRows'[i].ref = ref
                 /\ \E k \in 1..m : cutRows'[i].coil = n + k
  <2>1. PICK l \in DOMAIN t : cutRows'[i] = t[l]
    BY <1>16
  <2>2. CASE t[l] = out
    BY <1>3, <2>1, <2>2
  <2>3. CASE \E k \in 1..m : t[l] = ins[k]
    BY <1>5, <2>1, <2>3
  <2>. QED
    BY <1>11, <2>2, <2>3
<1>18. ASSUME NEW k \in 1..m
       PROVE  \E i \in N : cutRows'[i].type = "IN" /\ cutRows'[i].ref = ref /\ cutRows'[i].coil = n + k
  <2>1. PICK l \in DOMAIN t : t[l] = ins[k]
    BY <1>11
  <2>2. PICK i \in N : cutRows'[i] = t[l]
    BY <1>16
  <2>. QED
    BY <1>5, <2>1, <2>2
<1>19. RowsOfCut(N, c, ref, 1..m)
  BY <1>1, <1>15, <1>17, <1>18 DEF RowsOfCut
<1>. QED
  BY <1>19

\* The coils after a cut: the pieces come last.
BornIn(new, cs, m, ref, kind) ==
  /\ new \in Seq(CoilType) /\ new \in [DOMAIN new -> CoilType] /\ Cuts!Coils \subseteq DOMAIN new
  /\ \A d \in Cuts!Coils : new[d] = cs[d]
  /\ \A d \in DOMAIN new \ Cuts!Coils :
       /\ new[d].kind = kind /\ new[d].born = ref
       /\ new[d].status = "OPEN" /\ new[d].closedBy = Cuts!NotClosed
       /\ \E k \in 1..m : d = Len(coil) + k
  /\ \A k \in 1..m : Len(coil) + k \in DOMAIN new \ Cuts!Coils

LEMMA BornAfter ==
  ASSUME CutsTyped, NEW cs \in [Cuts!Coils -> CoilType], NEW m \in Nat, NEW weights, DOMAIN weights = 1..m,
         NEW ref \in RefType, NEW kind \in {"COIL", "STRIP"},
         NEW new, new = cs \o Cuts!Born(kind, ref, weights)
  PROVE  BornIn(new, cs, m, ref, kind)
<1>1. PICK n \in Nat : n = Len(coil) /\ Cuts!Coils = 1..n
  BY CoilsAre
<1>2. PICK piece : piece = Cuts!Coil(kind, ref, "BIRTH")
  OBVIOUS
<1>3. /\ piece \in CoilType /\ piece.kind = kind /\ piece.born = ref
      /\ piece.status = "OPEN" /\ piece.closedBy = Cuts!NotClosed
  BY <1>2, RefIs DEF Cuts!Coil, CoilType, Films
<1>4. PICK t : t = [k \in 1..m |-> piece]
  OBVIOUS
<1>5. new = cs \o t
  BY <1>2, <1>4 DEF Cuts!Born
<1>6. IsSeq(t) /\ DOMAIN t = 1..m /\ \A k \in 1..m : t[k] = piece
  BY <1>4, FunctionIsSeq
<1>7. IsSeq(cs) /\ DOMAIN cs = 1..n /\ Len(cs) = n
  <2>1. cs = [k \in 1..n |-> cs[k]]
    BY <1>1
  <2>. QED
    BY <2>1, FunctionIsSeq
<1>8. Joins(new, cs, t)
  BY <1>5, <1>6, <1>7, Joined
<1>9. /\ IsSeq(new) /\ \A d \in Cuts!Coils : d \in DOMAIN new /\ new[d] = cs[d]
      /\ \A d \in DOMAIN new \ Cuts!Coils : new[d] = piece /\ \E k \in 1..m : d = n + k
      /\ \A k \in 1..m : n + k \in DOMAIN new \ Cuts!Coils
  <2>1. /\ IsSeq(new) /\ \A d \in DOMAIN cs : d \in DOMAIN new /\ new[d] = cs[d]
        /\ \A d \in DOMAIN new \ DOMAIN cs : \E k \in DOMAIN t : d = Len(cs) + k /\ new[d] = t[k]
        /\ \A k \in DOMAIN t : \E d \in DOMAIN new \ DOMAIN cs : d = Len(cs) + k
    BY <1>8, Zenon DEF Joins
  <2>2. DOMAIN cs = Cuts!Coils /\ DOMAIN t = 1..m /\ Len(cs) = n
    BY <1>1, <1>6, <1>7
  <2>3. ASSUME NEW d \in DOMAIN new \ Cuts!Coils PROVE new[d] = piece /\ \E k \in 1..m : d = n + k
    <3>1. PICK k \in 1..m : d = n + k /\ new[d] = t[k]
      BY <2>1, <2>2
    <3>. QED
      BY <1>6, <3>1
  <2>4. ASSUME NEW k \in 1..m PROVE n + k \in DOMAIN new \ Cuts!Coils
    <3>1. PICK d \in DOMAIN new \ Cuts!Coils : d = n + k
      BY <2>1, <2>2
    <3>. QED
      BY <3>1
  <2>. QED
    BY <2>1, <2>2, <2>3, <2>4
<1>10. \A d \in DOMAIN new : new[d] \in CoilType
  BY <1>3, <1>9
<1>11. new \in Seq(CoilType)
  BY <1>9, <1>10, InSeq
<1>12. new \in [DOMAIN new -> CoilType]
  <2>1. new \in [1..Len(new) -> CoilType] /\ DOMAIN new = 1..Len(new)
    BY <1>11, LenProperties
  <2>. QED
    BY <2>1
<1>. QED
  BY <1>1, <1>3, <1>9, <1>11, <1>12 DEF BornIn

\* A cut is done: the mother is in stock, or terminated by it, and the pieces enter.
CutDone(c, ref) ==
  /\ CoilsKeep /\ Entries' /\ \E N : RowsGo({}, N)
  /\ \A d \in Cuts!Coils \ {c} : coil'[d] = coil[d]
  /\ \/ coil'[c].status = "OPEN" /\ coil'[c].closedBy = Cuts!NotClosed
     \/ coil'[c].status = "CLOSED" /\ coil'[c].closedBy = ref /\ c \notin mounted
  /\ \A d \in Cuts!Coils' \ Cuts!Coils :
       PlaceEnters(d) /\ coil'[d].status = "OPEN" /\ coil'[d].closedBy = Cuts!NotClosed

LEMMA CutIsDone ==
  ASSUME CuttingIInv, NEW c \in Cuts!Coils, NEW w, NEW weights \in Cuts!CutsOf(w), NEW kind \in {"COIL", "STRIP"},
         NEW ref \in RefType, ref.kind = "SPLIT" \/ (ref.kind = "CUTTING" /\ kind = "STRIP"),
         NEW cs \in [Cuts!Coils -> CoilType], \A d \in Cuts!Coils \ {c} : cs[d] = coil[d],
         cs[c].kind = coil[c].kind, cs[c].born = coil[c].born,
         cs[c].status = "OPEN", cs[c].closedBy = Cuts!NotClosed, coil[c].status # "CANCELLED",
         cutRows' = cutRows \o Cuts!CutRows(c, w, ref, weights),
         coil' = Cuts!Terminated(cs \o Cuts!Born(kind, ref, weights), cutRows', c, ref)
  PROVE  CutDone(c, ref)
<1>1. CutsTyped
  BY DEF CuttingIInv
<1>2. PICK m \in Nat : 1 <= m /\ DOMAIN weights = 1..m
  BY CutIs
<1>3. PICK N : RowsOfCut(N, c, ref, 1..m)
  BY <1>1, <1>2, CutRowsGo
<1>4. PICK new : new = cs \o Cuts!Born(kind, ref, weights)
  OBVIOUS
<1>5. /\ new \in Seq(CoilType) /\ new \in [DOMAIN new -> CoilType] /\ Cuts!Coils \subseteq DOMAIN new
      /\ \A d \in Cuts!Coils : new[d] = cs[d]
      /\ \A d \in DOMAIN new \ Cuts!Coils :
           /\ new[d].kind = kind /\ new[d].born = ref
           /\ new[d].status = "OPEN" /\ new[d].closedBy = Cuts!NotClosed
           /\ \E k \in 1..m : d = Len(coil) + k
      /\ \A k \in 1..m : Len(coil) + k \in DOMAIN new \ Cuts!Coils
  <2>1. BornIn(new, cs, m, ref, kind)
    BY <1>1, <1>2, <1>4, BornAfter
  <2>. QED
    BY <2>1 DEF BornIn
<1>6. coil' = Cuts!Terminated(new, cutRows', c, ref)
  BY <1>4
<1>7. /\ coil' \in [DOMAIN new -> CoilType] /\ \A d \in DOMAIN new \ {c} : coil'[d] = new[d]
      /\ \/ coil'[c] = new[c]
         \/ c \notin mounted /\ IsWith(coil'[c], new[c], "CLOSED", ref)
  <2>1. PICK D : D = DOMAIN new
    OBVIOUS
  <2>2. new \in [D -> CoilType] /\ c \in D
    BY <1>5, <2>1
  <2>3. MayEnd(coil', D, new, c, ref)
    BY <1>6, <2>2, TerminatedIs
  <2>. QED
    BY <2>1, <2>3 DEF MayEnd
<1>8. coil' \in Seq(CoilType)
  <2>1. PICK l \in Nat : DOMAIN new = 1..l
    BY <1>5, LenProperties
  <2>. QED
    BY <1>7, <2>1, SeqDef
<1>9. Cuts!Coils' = DOMAIN new
  BY <1>7 DEF Cuts!Coils
<1>10. /\ \A d \in Cuts!Coils \ {c} : coil'[d] = coil[d]
       /\ coil'[c].kind = coil[c].kind /\ coil'[c].born = coil[c].born
       /\ \/ coil'[c].status = "OPEN" /\ coil'[c].closedBy = Cuts!NotClosed
          \/ coil'[c].status = "CLOSED" /\ coil'[c].closedBy = ref /\ c \notin mounted
  BY <1>5, <1>7 DEF IsWith
<1>11. CoilsKeep
  BY <1>5, <1>8, <1>9, <1>10 DEF CoilsKeep
<1>12. ASSUME NEW d \in Cuts!Coils' \ Cuts!Coils
       PROVE  /\ coil'[d].kind = kind /\ coil'[d].born = ref
              /\ coil'[d].status = "OPEN" /\ coil'[d].closedBy = Cuts!NotClosed
              /\ \E k \in 1..m : d = Len(coil) + k
  <2>1. d \in DOMAIN new \ Cuts!Coils /\ coil'[d] = new[d]
    BY <1>7, <1>9
  <2>. QED
    BY <1>5, <2>1
<1>13. ASSUME NEW i \in N PROVE EntryRow(i)'
  <2>1. CASE cutRows'[i].type = "OUT" /\ cutRows'[i].coil = c
    BY <1>5, <1>9, <2>1 DEF EntryRow
  <2>2. CASE cutRows'[i].ref = ref /\ \E k \in 1..m : cutRows'[i].coil = Len(coil) + k
    <3>1. PICK d : d = cutRows'[i].coil /\ d \in Cuts!Coils' \ Cuts!Coils
      BY <1>5, <1>9, <2>2
    <3>. QED
      BY <1>12, <2>2, <3>1 DEF EntryRow
  <2>. QED
    BY <1>3, <2>1, <2>2 DEF RowsOfCut
<1>14. ASSUME NEW d \in Cuts!Coils PROVE EntryKept(d, {}, N)
  <2>1. ASSUME NEW i \in N PROVE cutRows'[i].coil = c \/ cutRows'[i].coil \notin Cuts!Coils
    BY <1>3, <1>5 DEF RowsOfCut
  <2>2. coil'[d].status = "CANCELLED" => d # c /\ Cuts!LiveOf(d) = {}
    BY <1>10 DEF CuttingIInv, Entries
  <2>3. coil'[d].status # "CANCELLED" => coil[d].status # "CANCELLED"
    BY <1>10
  <2>. QED
    BY <2>1, <2>2, <2>3 DEF EntryKept
<1>15. ASSUME NEW d \in Cuts!Coils' \ Cuts!Coils PROVE EntryEnters(d, N)
  <2>1. PICK k \in 1..m : d = Len(coil) + k
    BY <1>12
  <2>2. PICK i \in N : cutRows'[i].type = "IN" /\ cutRows'[i].ref = ref /\ cutRows'[i].coil = d
    BY <1>3, <2>1 DEF RowsOfCut
  <2>3. coil'[d].born = ref /\ coil'[d].status # "CANCELLED"
    BY <1>12
  <2>. QED
    BY <2>2, <2>3, Zenon DEF EntryEnters
<1>16. RowsGo({}, N)
  BY <1>3 DEF RowsOfCut
<1>17. Entries'
  BY <1>11, <1>13, <1>14, <1>15, <1>16, EntriesKept DEF CuttingIInv
<1>18. \A d \in Cuts!Coils' \ Cuts!Coils : PlaceEnters(d)
  BY <1>12 DEF PlaceEnters
<1>. QED
  BY <1>10, <1>11, <1>12, <1>16, <1>17, <1>18 DEF CutDone

LEMMA ReceiveKeeps ==
  ASSUME CuttingIInv, NEW r \in DOMAIN sent, Cuts!Receive(r)
  PROVE  CuttingIInv'
<1>1. PICK c : c = sent[r].coil
  OBVIOUS
<1>2. /\ CutsTyped /\ c \in Cuts!Coils /\ coil[c].kind = "COIL" /\ coil[c].status = "IN_THIRD_PARTY"
      /\ r \in Cuts!Sent(c) /\ r \in Nat
      /\ sent' = [sent EXCEPT ![r].status = "RECEIVED"] /\ UNCHANGED <<splits, mounted>>
  BY <1>1, SentIs DEF Cuts!Receive, Cuts!Awaited, CuttingIInv, Places, Cuts!Sent
<1>3. PICK ref : ref = Cuts!Ref("CUTTING", r)
  OBVIOUS
<1>4. ref \in RefType /\ ref.kind = "CUTTING" /\ ref.id = r
  BY <1>2, <1>3, RefIs DEF Kinds
<1>a. PICK w : \E weights \in Cuts!CutsOf(w) :
        /\ cutRows' = cutRows \o Cuts!CutRows(c, w, ref, weights)
        /\ coil' = Cuts!Terminated(Cuts!With(coil, c, "OPEN") \o Cuts!Born("STRIP", ref, weights), cutRows', c, ref)
  BY <1>1, <1>3 DEF Cuts!Receive
<1>5. PICK weights \in Cuts!CutsOf(w) :
        /\ cutRows' = cutRows \o Cuts!CutRows(c, w, ref, weights)
        /\ coil' = Cuts!Terminated(Cuts!With(coil, c, "OPEN") \o Cuts!Born("STRIP", ref, weights), cutRows', c, ref)
  BY <1>a
<1>6. PICK cs : cs = Cuts!With(coil, c, "OPEN")
  OBVIOUS
<1>7. /\ cs \in [Cuts!Coils -> CoilType] /\ \A d \in Cuts!Coils \ {c} : cs[d] = coil[d]
      /\ cs[c].kind = coil[c].kind /\ cs[c].born = coil[c].born
      /\ cs[c].status = "OPEN" /\ cs[c].closedBy = Cuts!NotClosed
  <2>1. coil \in [Cuts!Coils -> CoilType] /\ "OPEN" \in Statuses
    BY <1>2, CoilsAre DEF Statuses
  <2>2. /\ cs \in [Cuts!Coils -> CoilType] /\ \A d \in Cuts!Coils \ {c} : cs[d] = coil[d]
        /\ IsWith(cs[c], coil[c], "OPEN", Cuts!NotClosed)
    BY <1>2, <1>6, <2>1, WithIs
  <2>. QED
    BY <2>2 DEF IsWith
<1>8. CutDone(c, ref)
  <2>1. coil' = Cuts!Terminated(cs \o Cuts!Born("STRIP", ref, weights), cutRows', c, ref)
    BY <1>5, <1>6
  <2>. QED
    BY <1>2, <1>4, <1>5, <1>7, <2>1, CutIsDone
<1>9. PICK N : RowsGo({}, N)
  BY <1>8 DEF CutDone
<1>10. /\ DOMAIN sent' = DOMAIN sent /\ \A q \in DOMAIN sent \ {r} : sent'[q] = sent[q]
       /\ sent'[r] \in SentType /\ sent'[r].coil = c /\ sent'[r].status = "RECEIVED"
       /\ sent' \in Seq(SentType)
  <2>1. sent[r] \in SentType
    BY <1>2, SentIs
  <2>2. PICK row : row = [sent[r] EXCEPT !.status = "RECEIVED"]
    OBVIOUS
  <2>3. row \in SentType /\ row.coil = c /\ row.status = "RECEIVED"
    BY <1>1, <2>1, <2>2 DEF SentType
  <2>4. sent' = [sent EXCEPT ![r] = row]
    BY <1>2, <2>2
  <2>5. sent \in Seq(SentType)
    BY <1>2 DEF CutsTyped
  <2>. QED
    BY <1>2, <2>3, <2>4, <2>5, SentIs, ExceptSeq
<1>11. CutsTyped'
  BY <1>2, <1>8, <1>9, <1>10, TypedKept DEF CutDone, CutsTyped
<1>12. Places'
  <2>1. \A q \in DOMAIN sent' : sent'[q].coil = sent[q].coil /\ q \in DOMAIN sent
    BY <1>1, <1>10
  <2>2. AtOne(c)'
    <3>1. Cuts!Sent(c) = {r}
      BY <1>2 DEF CuttingIInv, Places, PlaceOf
    <3>2. Cuts!Sent(c)' = {}
      BY <1>10, <2>1, <3>1 DEF Cuts!Sent
    <3>. QED
      BY <1>8, <3>2 DEF CutDone, AtOne
  <2>3. ASSUME NEW d \in Cuts!Coils \ {c} PROVE AtOne(d)'
    <3>1. Cuts!Sent(d)' = Cuts!Sent(d)
      BY <1>1, <1>10 DEF Cuts!Sent
    <3>2. coil'[d] = coil[d]
      BY <1>8 DEF CutDone
    <3>. QED
      BY <3>1, <3>2 DEF CuttingIInv, Places, PlaceOf, AtOne
  <2>4. ASSUME NEW d \in mounted' PROVE coil[d].kind = "STRIP" /\ coil'[d].status = "OPEN" /\ d \in Cuts!Coils
    <3>1. d \in Cuts!Coils /\ coil[d].kind = "STRIP" /\ coil[d].status = "OPEN"
      BY <1>2 DEF CuttingIInv, Places, PlaceOf
    <3>. QED
      BY <1>2, <1>8, <3>1 DEF CutDone
  <2>. QED
    BY <1>8, <2>1, <2>2, <2>3, <2>4, PlacesKept DEF CutDone, CuttingIInv, Places
<1>13. Terminations'
  <2>1. ASSUME NEW d \in Cuts!Coils \ {c}, coil[d].status = "CLOSED" PROVE Stands(d, coil[d].closedBy)'
    <3>1. PICK by : by = coil[d].closedBy /\ by = coil'[d].closedBy
      BY <1>8 DEF CutDone
    <3>2. Stands(d, by)
      BY <2>1, <3>1 DEF CuttingIInv, Terminations
    <3>3. by.kind = "CUTTING" => by.id \in DOMAIN sent' /\ sent'[by.id] = sent[by.id]
      BY <1>2, <1>10, <3>2 DEF Stands, Cuts!Sent
    <3>4. Stands(d, by)'
      BY <1>2, <1>9, <3>2, <3>3, StandsStay DEF Stands
    <3>. QED
      BY <3>1, <3>4
  <2>2. coil'[c].closedBy = ref => Stands(c, coil[c].closedBy)'
    BY <1>4, <1>10 DEF Stands
  <2>3. \A d \in Cuts!Coils \ {c} : coil'[d] = coil[d]
    BY <1>8 DEF CutDone
  <2>. QED
    BY <1>8, <2>1, <2>2, <2>3 DEF CutDone, CuttingIInv, Terminations
<1>. QED
  BY <1>8, <1>11, <1>12, <1>13 DEF CutDone, CuttingIInv

LEMMA SplitKeeps ==
  ASSUME CuttingIInv, NEW c \in Cuts!Coils, Cuts!Split(c)
  PROVE  CuttingIInv'
<1>1. /\ CutsTyped /\ coil[c].status = "OPEN" /\ c \notin mounted /\ UNCHANGED <<sent, mounted>>
      /\ coil[c] \in CoilType /\ coil[c].kind \in {"COIL", "STRIP"} /\ coil[c].closedBy = Cuts!NotClosed
  BY CoilsAre DEF Cuts!Split, CuttingIInv, Terminations, CoilType
<1>2. PICK s \in Nat : s = Len(splits) + 1
  BY <1>1, SentIs
<1>3. PICK ref : ref = Cuts!Ref("SPLIT", s)
  OBVIOUS
<1>4. ref \in RefType /\ ref.kind = "SPLIT" /\ ref.id = s
  BY <1>2, <1>3, RefIs DEF Kinds
<1>5. PICK w : \E weights \in Cuts!CutsOf(w) :
        /\ cutRows' = cutRows \o Cuts!CutRows(c, w, ref, weights)
        /\ coil' = Cuts!Terminated([coil EXCEPT ![c] = Cuts!Opened(@, "SPLIT")]
                                \o Cuts!Born(coil[c].kind, ref, weights), cutRows', c, ref)
  BY <1>2, <1>3 DEF Cuts!Split
<1>6. PICK weights \in Cuts!CutsOf(w) :
        /\ cutRows' = cutRows \o Cuts!CutRows(c, w, ref, weights)
        /\ coil' = Cuts!Terminated([coil EXCEPT ![c] = Cuts!Opened(@, "SPLIT")]
                                \o Cuts!Born(coil[c].kind, ref, weights), cutRows', c, ref)
  BY <1>5
<1>7. PICK open : open = Cuts!Opened(coil[c], "SPLIT")
  OBVIOUS
<1>8. /\ open \in CoilType /\ open.kind = coil[c].kind /\ open.born = coil[c].born
      /\ open.status = coil[c].status /\ open.closedBy = coil[c].closedBy
  BY <1>1, <1>7, OpenedIs DEF Films
<1>9. PICK cs : cs = [coil EXCEPT ![c] = open]
  OBVIOUS
<1>10. cs \in [Cuts!Coils -> CoilType] /\ cs[c] = open /\ \A d \in Cuts!Coils \ {c} : cs[d] = coil[d]
  BY <1>1, <1>8, <1>9, CoilsAre
<1>11. CutDone(c, ref)
  <2>1. PICK kind \in {"COIL", "STRIP"} : kind = coil[c].kind
    BY <1>1
  <2>2. coil' = Cuts!Terminated(cs \o Cuts!Born(kind, ref, weights), cutRows', c, ref)
    BY <1>6, <1>7, <1>9, <2>1
  <2>. QED
    BY <1>1, <1>4, <1>6, <1>8, <1>10, <2>2, CutIsDone
<1>12. PICK N : RowsGo({}, N)
  BY <1>11 DEF CutDone
<1>13. /\ splits' \in Seq(SplitType) /\ s \in DOMAIN splits'
       /\ splits'[s].mother = c /\ splits'[s].status = "ACTIVE"
       /\ \A z \in DOMAIN splits : z \in DOMAIN splits' /\ splits'[z] = splits[z]
  <2>1. PICK emptied \in BOOLEAN :
          splits' = Append(splits, [mother |-> c, status |-> "ACTIVE", emptied |-> emptied])
    BY DEF Cuts!Split
  <2>2. PICK row : row = [mother |-> c, status |-> "ACTIVE", emptied |-> emptied]
    OBVIOUS
  <2>3. row \in SplitType /\ row.mother = c /\ row.status = "ACTIVE"
    BY <1>1, <2>2, CoilsAre DEF SplitType
  <2>4. splits \in Seq(SplitType) /\ splits' = Append(splits, row)
    BY <1>1, <2>1, <2>2 DEF CutsTyped
  <2>5. /\ splits' \in Seq(SplitType) /\ DOMAIN splits' = 1..s /\ DOMAIN splits = 1..(s - 1)
        /\ splits'[s] = row /\ \A z \in 1..(s - 1) : splits'[z] = splits[z]
    BY <1>1, <1>2, <2>3, <2>4, AppendProperties, SentIs, LenProperties
  <2>6. s \in 1..s /\ \A z \in 1..(s - 1) : z \in 1..s
    BY <1>1, <1>2, SentIs
  <2>. QED
    BY <2>3, <2>5, <2>6, Zenon
<1>14. CutsTyped'
  BY <1>1, <1>11, <1>12, <1>13, TypedKept DEF CutDone, CutsTyped
<1>15. Places'
  BY <1>1, <1>11, PlacesStay DEF CutDone, CuttingIInv, Places, PlaceOf
<1>16. Terminations'
  <2>1. ASSUME NEW d \in Cuts!Coils \ {c}, coil[d].status = "CLOSED" PROVE Stands(d, coil[d].closedBy)'
    <3>1. PICK by : by = coil[d].closedBy /\ by = coil'[d].closedBy
      BY <1>11 DEF CutDone
    <3>2. Stands(d, by)
      BY <2>1, <3>1 DEF CuttingIInv, Terminations
    <3>3. Stands(d, by)'
      <4>1. by.kind = "SPLIT" => by.id \in DOMAIN splits' /\ splits'[by.id] = splits[by.id]
        BY <1>13, <3>2 DEF Stands
      <4>2. by.kind = "CUTTING" => by.id \in DOMAIN sent' /\ sent'[by.id] = sent[by.id]
        BY <1>1, <3>2 DEF Stands
      <4>. QED
        BY <1>12, <3>2, <4>1, <4>2, StandsStay
    <3>. QED
      BY <3>1, <3>3
  <2>2. coil'[c].closedBy = ref => Stands(c, coil[c].closedBy)'
    BY <1>4, <1>13 DEF Stands
  <2>3. \A d \in Cuts!Coils \ {c} : coil'[d] = coil[d]
    BY <1>11 DEF CutDone
  <2>. QED
    BY <1>11, <2>1, <2>2, <2>3 DEF CutDone, CuttingIInv, Terminations
<1>. QED
  BY <1>11, <1>14, <1>15, <1>16 DEF CutDone, CuttingIInv

-----------------------------------------------------------------------------
(* Cuts that are undone.                                                    *)

LEMMA CutUndone ==
  ASSUME CutsTyped, NEW ref,
         cutRows' = cutRows \o Cuts!UndoAll(SetToSeq(Cuts!Ins(Cuts!LiveBy(ref))) \o SetToSeq(Cuts!Outs(Cuts!LiveBy(ref))))
  PROVE  RowsGo(Cuts!LiveBy(ref), {})
<1>1. PICK ins, outs : ins = Cuts!Ins(Cuts!LiveBy(ref)) /\ outs = Cuts!Outs(Cuts!LiveBy(ref))
  OBVIOUS
<1>2. ins \subseteq DOMAIN cutRows /\ outs \subseteq DOMAIN cutRows /\ Cuts!LiveBy(ref) = ins \cup outs
  BY <1>1 DEF Cuts!Ins, Cuts!Outs, Cuts!LiveBy, CutsTyped, RowHolds
<1>3. IsFiniteSet(ins) /\ IsFiniteSet(outs)
  <2>1. PICK n \in Nat : DOMAIN cutRows = 1..n
    BY SeqIs DEF CutsTyped
  <2>2. IsFiniteSet(1..n)
    BY FS_Interval
  <2>. QED
    BY <1>2, <2>1, <2>2, FS_Subset
<1>4. PICK a, b : a = SetToSeq(ins) /\ b = SetToSeq(outs)
  OBVIOUS
<1>5. /\ IsSeq(a) /\ \A k \in DOMAIN a : a[k] \in ins
      /\ \A i \in ins : \E k \in DOMAIN a : a[k] = i
  BY <1>3, <1>4, SetToSeqIs
<1>6. /\ IsSeq(b) /\ \A k \in DOMAIN b : b[k] \in outs
      /\ \A i \in outs : \E k \in DOMAIN b : b[k] = i
  BY <1>3, <1>4, SetToSeqIs
<1>7. PICK q : q = a \o b
  OBVIOUS
<1>8. Joins(q, a, b)
  BY <1>5, <1>6, <1>7, Joined
<1>9. /\ IsSeq(q) /\ \A k \in DOMAIN q : q[k] \in Cuts!LiveBy(ref)
      /\ \A i \in Cuts!LiveBy(ref) : \E k \in DOMAIN q : q[k] = i
  BY <1>2, <1>5, <1>6, <1>8 DEF Joins
<1>10. cutRows' = cutRows \o Cuts!UndoAll(q) /\ Cuts!LiveBy(ref) \subseteq DOMAIN cutRows
  BY <1>1, <1>2, <1>4, <1>7
<1>. QED
  BY <1>9, <1>10, Undone

\* The pieces of a cut that is undone are annulled, and no other coil.
LEMMA PiecesUndone ==
  ASSUME CuttingIInv, NEW ref, RowsGo(Cuts!LiveBy(ref), {}), CoilsKeep, Cuts!Coils' = Cuts!Coils, NEW P,
         Cuts!Intact(P, ref),
         \A i \in Cuts!Ins(Cuts!LiveBy(ref)) : cutRows[i].ref = coil[cutRows[i].coil].born => cutRows[i].coil \in P,
         \A c \in P : coil'[c].status = "CANCELLED",
         \A c \in Cuts!Coils \ P : coil'[c].status = "CANCELLED" <=> coil[c].status = "CANCELLED"
  PROVE  Entries'
<1>1. ASSUME NEW c \in Cuts!Coils PROVE EntryKept(c, Cuts!LiveBy(ref), {})
  <2>1. CASE c \in P
    <3>1. Cuts!LiveOf(c) \subseteq Cuts!LiveBy(ref)
      BY <2>1 DEF Cuts!Intact, Cuts!LiveOf, Cuts!LiveBy
    <3>. QED
      BY <2>1, <3>1 DEF EntryKept
  <2>2. CASE c \notin P
    BY <2>2 DEF EntryKept, CuttingIInv, Entries, Cuts!Ins
  <2>. QED
    BY <2>1, <2>2
<1>. QED
  BY <1>1, EntriesKept DEF CuttingIInv

LEMMA ReverseReceptionKeeps ==
  ASSUME CuttingIInv, NEW r \in DOMAIN sent, Cuts!ReverseReception(r)
  PROVE  CuttingIInv'
<1>1. PICK c : c = sent[r].coil
  OBVIOUS
<1>2. PICK ref : ref = Cuts!Ref("CUTTING", r)
  OBVIOUS
<1>3. PICK P : P = Cuts!Pieces(Cuts!LiveBy(ref))
  OBVIOUS
<1>4. /\ CutsTyped /\ c \in Cuts!Coils /\ coil[c].kind = "COIL" /\ r \in Nat
      /\ sent[r].status = "RECEIVED" /\ UNCHANGED <<splits, mounted>>
      /\ coil[c].status \notin {"IN_THIRD_PARTY", "CANCELLED"}
      /\ P \cap mounted = {} /\ Cuts!Intact(P, ref)
  BY <1>1, <1>2, <1>3, SentIs DEF Cuts!ReverseReception, Cuts!MayReverse, CuttingIInv, Places
<1>5. ref \in RefType /\ ref.kind = "CUTTING" /\ ref.id = r
  BY <1>2, <1>4, RefIs DEF Kinds
<1>6. RowsGo(Cuts!LiveBy(ref), {})
  <2>1. cutRows' = cutRows \o Cuts!UndoAll(SetToSeq(Cuts!Ins(Cuts!LiveBy(ref))) \o SetToSeq(Cuts!Outs(Cuts!LiveBy(ref))))
    BY <1>2, SetToSeqInCuts DEF Cuts!ReverseReception
  <2>. QED
    BY <1>4, <2>1, CutUndone
<1>7. ASSUME NEW p \in P PROVE p \in Cuts!Coils /\ coil[p].kind = "STRIP"
  <2>1. PICK i \in Cuts!Ins(Cuts!LiveBy(ref)) : p = cutRows[i].coil
    BY <1>3 DEF Cuts!Pieces
  <2>2. /\ i \in DOMAIN cutRows /\ Cuts!LiveRow(i) /\ cutRows[i].ref = ref /\ cutRows[i].type = "IN"
    BY <2>1 DEF Cuts!Ins, Cuts!LiveBy
  <2>3. EntryRow(i)
    BY <2>2 DEF CuttingIInv, Entries
  <2>4. p \in Cuts!Coils /\ coil[p].born.kind = "CUTTING"
    BY <1>5, <2>1, <2>2, <2>3 DEF EntryRow
  <2>. QED
    BY <2>4 DEF CuttingIInv, Places, PlaceOf
<1>8. c \notin P
  BY <1>4, <1>7
<1>9. coil' = [d \in Cuts!Coils |-> IF d \in P THEN [coil[d] EXCEPT !.status = "CANCELLED"]
                               ELSE IF d = c THEN Cuts!With(coil, c, "IN_THIRD_PARTY")[d]
                               ELSE coil[d]]
  BY <1>1, <1>2, <1>3 DEF Cuts!ReverseReception
<1>10. ASSUME NEW p \in P
       PROVE  /\ coil'[p] \in CoilType /\ coil'[p].kind = coil[p].kind /\ coil'[p].born = coil[p].born
              /\ coil'[p].status = "CANCELLED"
  <2>1. coil[p] \in CoilType /\ p \in Cuts!Coils
    BY <1>4, <1>7, CoilsAre
  <2>2. PICK new : new = [coil[p] EXCEPT !.status = "CANCELLED"]
    OBVIOUS
  <2>3. new \in CoilType /\ new.kind = coil[p].kind /\ new.born = coil[p].born /\ new.status = "CANCELLED"
    BY <2>1, <2>2 DEF CoilType
  <2>4. coil'[p] = new
    BY <1>9, <2>1, <2>2
  <2>. QED
    BY <2>3, <2>4
<1>11. IsWith(coil'[c], coil[c], "IN_THIRD_PARTY", Cuts!NotClosed)
  <2>1. coil \in [Cuts!Coils -> CoilType] /\ "IN_THIRD_PARTY" \in Statuses
    BY <1>4, CoilsAre DEF Statuses
  <2>2. IsWith(Cuts!With(coil, c, "IN_THIRD_PARTY")[c], coil[c], "IN_THIRD_PARTY", Cuts!NotClosed)
    BY <1>4, <2>1, WithIs
  <2>3. coil'[c] = Cuts!With(coil, c, "IN_THIRD_PARTY")[c]
    BY <1>4, <1>8, <1>9
  <2>. QED
    BY <2>2, <2>3
<1>12. ASSUME NEW d \in Cuts!Coils, d \notin P, d # c PROVE coil'[d] = coil[d]
  BY <1>9, <1>12
<1>13. CoilsKeep /\ Cuts!Coils' = Cuts!Coils
  <2>1. \A d \in Cuts!Coils : coil'[d] \in CoilType /\ coil'[d].kind = coil[d].kind /\ coil'[d].born = coil[d].born
    BY <1>4, <1>10, <1>11, <1>12, CoilsAre DEF IsWith
  <2>2. coil' = [d \in Cuts!Coils |-> coil'[d]]
    BY <1>9
  <2>3. coil' \in [Cuts!Coils -> CoilType]
    BY <2>1, <2>2
  <2>. QED
    BY <1>4, <2>1, <2>3, CoilsMapped
<1>14. /\ DOMAIN sent' = DOMAIN sent /\ \A q \in DOMAIN sent \ {r} : sent'[q] = sent[q]
       /\ sent'[r].coil = c /\ sent'[r].status = "SENT" /\ sent' \in Seq(SentType)
  <2>1. sent[r] \in SentType
    BY <1>4, SentIs
  <2>2. PICK row : row = [sent[r] EXCEPT !.status = "SENT"]
    OBVIOUS
  <2>3. row \in SentType /\ row.coil = c /\ row.status = "SENT"
    BY <1>1, <2>1, <2>2 DEF SentType
  <2>4. sent' = [sent EXCEPT ![r] = row]
    BY <2>2 DEF Cuts!ReverseReception
  <2>5. sent \in Seq(SentType)
    BY <1>4 DEF CutsTyped
  <2>. QED
    BY <1>4, <2>3, <2>4, <2>5, SentIs, ExceptSeq
<1>15. CutsTyped'
  BY <1>4, <1>6, <1>13, <1>14, TypedKept DEF CutsTyped
<1>16. Entries'
  <2>1. \A i \in Cuts!Ins(Cuts!LiveBy(ref)) : cutRows[i].coil \in P
    BY <1>3 DEF Cuts!Pieces
  <2>2. \A d \in Cuts!Coils \ P : coil'[d].status = "CANCELLED" <=> coil[d].status = "CANCELLED"
    BY <1>4, <1>11, <1>12 DEF IsWith
  <2>3. \A d \in P : coil'[d].status = "CANCELLED"
    BY <1>10
  <2>. QED
    BY <1>4, <1>6, <1>13, <2>1, <2>2, <2>3, PiecesUndone
<1>17. Places'
  <2>1. \A q \in DOMAIN sent' : sent'[q].coil = sent[q].coil /\ q \in DOMAIN sent
    BY <1>1, <1>14
  <2>2. AtOne(c)'
    <3>1. Cuts!Sent(c) = {}
      BY <1>4 DEF CuttingIInv, Places, PlaceOf
    <3>2. Cuts!Sent(c)' = {r}
      BY <1>14, <2>1, <3>1 DEF Cuts!Sent
    <3>. QED
      BY <1>11, <3>2 DEF IsWith, AtOne
  <2>3. ASSUME NEW p \in P PROVE AtOne(p)'
    <3>1. Cuts!Sent(p)' = {}
      BY <1>7, <2>1 DEF CuttingIInv, Places, Cuts!Sent
    <3>. QED
      BY <1>10, <3>1 DEF AtOne
  <2>4. ASSUME NEW d \in Cuts!Coils, d \notin P, d # c PROVE AtOne(d)'
    <3>1. Cuts!Sent(d)' = Cuts!Sent(d)
      BY <1>1, <1>14, <2>4 DEF Cuts!Sent
    <3>. QED
      BY <1>12, <2>4, <3>1 DEF CuttingIInv, Places, PlaceOf, AtOne
  <2>5. ASSUME NEW d \in mounted' PROVE coil[d].kind = "STRIP" /\ coil'[d].status = "OPEN" /\ d \in Cuts!Coils
    BY <1>4, <1>12 DEF CuttingIInv, Places, PlaceOf
  <2>. QED
    BY <1>13, <2>1, <2>2, <2>3, <2>4, <2>5, PlacesKept DEF CuttingIInv, Places
<1>18. Terminations'
  <2>1. ASSUME NEW d \in Cuts!Coils, d \notin P, d # c, coil[d].status = "CLOSED"
        PROVE  Stands(d, coil[d].closedBy)'
    <3>1. PICK by : by = coil[d].closedBy /\ by = coil'[d].closedBy
      BY <1>12, <2>1
    <3>2. Stands(d, by)
      BY <2>1, <3>1 DEF CuttingIInv, Terminations
    <3>3. by.kind = "CUTTING" => by.id \in DOMAIN sent' /\ sent'[by.id] = sent[by.id]
      BY <1>1, <1>14, <2>1, <3>2 DEF Stands
    <3>4. by.kind = "SCRAP" => by.id \notin Cuts!LiveBy(ref)
      BY <1>5, <3>2 DEF Stands, Cuts!LiveBy
    <3>5. Stands(d, by)'
      BY <1>4, <1>6, <3>2, <3>3, <3>4, StandsStay DEF Stands
    <3>. QED
      BY <3>1, <3>5
  <2>2. \A d \in Cuts!Coils : d = c \/ d \in P \/ coil'[d] = coil[d]
    BY <1>12
  <2>3. \A p \in P : coil'[p].status = "CANCELLED"
    BY <1>10
  <2>4. coil'[c].status = "IN_THIRD_PARTY" /\ coil'[c].closedBy = Cuts!NotClosed
    BY <1>11 DEF IsWith
  <2>. QED
    BY <1>13, <2>1, <2>2, <2>3, <2>4 DEF CuttingIInv, Terminations
<1>. QED
  BY <1>15, <1>16, <1>17, <1>18 DEF CuttingIInv

LEMMA RevertSplitKeeps ==
  ASSUME CuttingIInv, ChildrenAtHome, NEW s \in DOMAIN splits, Cuts!RevertSplit(s)
  PROVE  CuttingIInv'
<1>1. PICK c : c = splits[s].mother
  OBVIOUS
<1>2. PICK ref : ref = Cuts!Ref("SPLIT", s)
  OBVIOUS
<1>3. PICK P : P = Cuts!Children(s)
  OBVIOUS
<1>4. /\ CutsTyped /\ s \in Nat /\ UNCHANGED <<sent, mounted>> /\ P \subseteq Cuts!Coils
      /\ \A d \in P : coil[d].status # "IN_THIRD_PARTY" /\ coil[d].born = ref
      /\ \A d \in Cuts!Coils : coil[d].born = ref => d \in P
      /\ P \cap mounted = {} /\ Cuts!Intact(P, ref)
  BY <1>2, <1>3, SentIs DEF Cuts!RevertSplit, Cuts!Children, CuttingIInv
<1>5. ref \in RefType /\ ref.kind = "SPLIT" /\ ref.id = s
  BY <1>2, <1>4, RefIs DEF Kinds
<1>6. RowsGo(Cuts!LiveBy(ref), {})
  <2>1. cutRows' = cutRows \o Cuts!UndoAll(SetToSeq(Cuts!Ins(Cuts!LiveBy(ref))) \o SetToSeq(Cuts!Outs(Cuts!LiveBy(ref))))
    BY <1>2, SetToSeqInCuts DEF Cuts!RevertSplit
  <2>. QED
    BY <1>4, <2>1, CutUndone
<1>7. coil' = [d \in Cuts!Coils |-> IF d \in P THEN [coil[d] EXCEPT !.status = "CANCELLED"]
                               ELSE IF d = c THEN Cuts!MotherBack(s) ELSE coil[d]]
  BY <1>1, <1>3 DEF Cuts!RevertSplit
<1>8. ASSUME NEW p \in P
      PROVE  /\ coil'[p] \in CoilType /\ coil'[p].kind = coil[p].kind /\ coil'[p].born = coil[p].born
             /\ coil'[p].status = "CANCELLED"
  <2>1. coil[p] \in CoilType /\ p \in Cuts!Coils
    BY <1>4, CoilsAre
  <2>2. PICK new : new = [coil[p] EXCEPT !.status = "CANCELLED"]
    OBVIOUS
  <2>3. new \in CoilType /\ new.kind = coil[p].kind /\ new.born = coil[p].born /\ new.status = "CANCELLED"
    BY <2>1, <2>2 DEF CoilType
  <2>4. coil'[p] = new
    BY <1>7, <2>1, <2>2
  <2>. QED
    BY <2>3, <2>4
<1>9. ASSUME NEW d \in Cuts!Coils \ P
      PROVE  \/ coil'[d] = coil[d] /\ (coil[d].status = "CLOSED" => d # c \/ coil[d].closedBy # ref)
             \/ coil[d].status = "CLOSED" /\ IsWith(coil'[d], coil[d], "OPEN", Cuts!NotClosed)
  <2>1. CASE d # c
    BY <1>7, <2>1
  <2>2. CASE d = c
    <3>1. coil \in [Cuts!Coils -> CoilType] /\ "OPEN" \in Statuses
      BY <1>4, CoilsAre DEF Statuses
    <3>2. PICK back : back = Cuts!With(coil, c, "OPEN")[c]
      OBVIOUS
    <3>3. IsWith(back, coil[c], "OPEN", Cuts!NotClosed)
      BY <2>2, <3>1, <3>2, WithIs
    <3>4. \/ Cuts!MotherBack(s) = back /\ coil[c].status = "CLOSED"
          \/ Cuts!MotherBack(s) = coil[c] /\ (coil[c].status = "CLOSED" => coil[c].closedBy # ref)
      BY <1>1, <1>2, <3>2 DEF Cuts!MotherBack
    <3>5. coil'[c] = Cuts!MotherBack(s)
      BY <1>7, <2>2
    <3>. QED
      BY <2>2, <3>3, <3>4, <3>5
  <2>. QED
    BY <2>1, <2>2
<1>10. CoilsKeep /\ Cuts!Coils' = Cuts!Coils
  <2>1. \A d \in Cuts!Coils : coil'[d] \in CoilType /\ coil'[d].kind = coil[d].kind /\ coil'[d].born = coil[d].born
    BY <1>4, <1>8, <1>9, CoilsAre DEF IsWith
  <2>2. coil' = [d \in Cuts!Coils |-> coil'[d]]
    BY <1>7
  <2>3. coil' \in [Cuts!Coils -> CoilType]
    BY <2>1, <2>2
  <2>. QED
    BY <1>4, <2>1, <2>3, CoilsMapped
<1>11. /\ DOMAIN splits' = DOMAIN splits /\ \A z \in DOMAIN splits \ {s} : splits'[z] = splits[z]
       /\ splits' \in Seq(SplitType)
  <2>1. splits[s] \in SplitType
    BY <1>4, SentIs
  <2>2. PICK row : row = [splits[s] EXCEPT !.status = "REVERTED"]
    OBVIOUS
  <2>3. row \in SplitType
    BY <2>1, <2>2 DEF SplitType
  <2>4. splits' = [splits EXCEPT ![s] = row]
    BY <2>2 DEF Cuts!RevertSplit
  <2>5. splits \in Seq(SplitType)
    BY <1>4 DEF CutsTyped
  <2>. QED
    BY <1>4, <2>3, <2>4, <2>5, SentIs, ExceptSeq
<1>12. CutsTyped'
  BY <1>4, <1>6, <1>10, <1>11, TypedKept DEF CutsTyped
<1>13. Entries'
  <2>1. ASSUME NEW i \in Cuts!Ins(Cuts!LiveBy(ref)), cutRows[i].ref = coil[cutRows[i].coil].born PROVE cutRows[i].coil \in P
    <3>1. i \in DOMAIN cutRows /\ Cuts!LiveRow(i) /\ cutRows[i].ref = ref
      BY DEF Cuts!Ins, Cuts!LiveBy
    <3>2. cutRows[i].coil \in Cuts!Coils
      BY <3>1 DEF CuttingIInv, Entries, EntryRow
    <3>. QED
      BY <1>4, <2>1, <3>1, <3>2
  <2>2. \A d \in Cuts!Coils \ P : coil'[d].status = "CANCELLED" <=> coil[d].status = "CANCELLED"
    BY <1>9 DEF IsWith
  <2>3. \A d \in P : coil'[d].status = "CANCELLED"
    BY <1>8
  <2>. QED
    BY <1>4, <1>6, <1>10, <2>1, <2>2, <2>3, PiecesUndone
<1>14. Places'
  <2>1. \A d \in Cuts!Coils : coil'[d].status = "IN_THIRD_PARTY" <=> coil[d].status = "IN_THIRD_PARTY"
    BY <1>4, <1>8, <1>9 DEF IsWith
  <2>2. ASSUME NEW d \in mounted' PROVE coil'[d].status = "OPEN"
    <3>1. d \in Cuts!Coils \ P /\ coil[d].status = "OPEN"
      BY <1>4 DEF CuttingIInv, Places, PlaceOf
    <3>. QED
      BY <1>9, <3>1
  <2>. QED
    BY <1>4, <1>10, <2>1, <2>2, PlacesStay DEF CuttingIInv
<1>15. Terminations'
  <2>1. ASSUME NEW d \in Cuts!Coils \ P, coil'[d] = coil[d], coil[d].status = "CLOSED",
               d # c \/ coil[d].closedBy # ref
        PROVE  Stands(d, coil[d].closedBy)'
    <3>1. PICK by : by = coil[d].closedBy /\ by = coil'[d].closedBy
      BY <2>1
    <3>2. Stands(d, by) /\ by \in RefType
      BY <1>4, <2>1, <3>1, CoilsAre DEF CuttingIInv, Terminations, CoilType
    <3>3. by.kind = "SPLIT" => by.id \in DOMAIN splits' /\ splits'[by.id] = splits[by.id]
      <4>1. ASSUME by.kind = "SPLIT", by.id = s PROVE FALSE
        <5>1. d = c
          BY <1>1, <3>2, <4>1 DEF Stands
        <5>2. by = ref
          BY <1>2, <3>2, <4>1, RefIs
        <5>. QED
          BY <2>1, <3>1, <5>1, <5>2
      <4>. QED
        BY <1>11, <3>2, <4>1 DEF Stands
    <3>4. by.kind = "SCRAP" => by.id \notin Cuts!LiveBy(ref)
      BY <1>5, <3>2 DEF Stands, Cuts!LiveBy
    <3>5. Stands(d, by)'
      BY <1>4, <1>6, <3>2, <3>3, <3>4, StandsStay DEF Stands
    <3>. QED
      BY <3>1, <3>5
  <2>2. ASSUME NEW d \in Cuts!Coils, coil'[d].status \in {"OPEN", "IN_THIRD_PARTY"}
        PROVE  coil'[d].closedBy = Cuts!NotClosed
    BY <1>8, <1>9, <2>2 DEF IsWith, CuttingIInv, Terminations
  <2>3. ASSUME NEW d \in Cuts!Coils, coil'[d].status = "CLOSED" PROVE Stands(d, coil[d].closedBy)'
    <3>1. d \in Cuts!Coils \ P
      BY <1>8, <2>3
    <3>2. coil'[d] = coil[d] /\ (d # c \/ coil[d].closedBy # ref)
      BY <1>9, <2>3, <3>1 DEF IsWith
    <3>. QED
      BY <2>1, <2>3, <3>1, <3>2
  <2>. QED
    BY <1>10, <2>2, <2>3 DEF Terminations
<1>. QED
  BY <1>12, <1>13, <1>14, <1>15 DEF CuttingIInv

-----------------------------------------------------------------------------
(* The first state, and every step.                                         *)

LEMMA InitHolds ==
  ASSUME Cuts!CuttingAssumption, Cuts!Init
  PROVE  CuttingIInv
<1>1. Bought \in Nat /\ splits = <<>> /\ sent = <<>> /\ mounted = {}
  BY DEF Cuts!CuttingAssumption, Cuts!Init
<1>2. PICK k : k = Cuts!Coil("COIL", Cuts!Purchase, "SEALED")
  OBVIOUS
<1>3. PICK row : row = Cuts!Row(1, "IN", Weight, Cuts!Purchase, 0)
  OBVIOUS
<1>4. /\ Cuts!Purchase \in RefType /\ Cuts!Purchase.kind = "PURCHASE" /\ Cuts!NotClosed \in RefType
  BY DEF Cuts!Purchase, Cuts!NotClosed, Cuts!Ref, RefType, Kinds
<1>5. /\ k \in CoilType /\ k.kind = "COIL" /\ k.born = Cuts!Purchase /\ k.status = "OPEN"
      /\ k.closedBy = Cuts!NotClosed
  BY <1>2, <1>4 DEF Cuts!Coil, CoilType, Films
<1>6. coil = [c \in 1..Bought |-> k]
  BY <1>2 DEF Cuts!Init
<1>7. Cuts!Coils = 1..Bought /\ \A c \in Cuts!Coils : coil[c] = k
  BY <1>6 DEF Cuts!Coils
<1>8. coil \in Seq(CoilType)
  BY <1>1, <1>5, <1>6, SeqDef
<1>9. /\ cutRows = [c \in 1..Bought |-> Cuts!Row(c, "IN", Weight, Cuts!Purchase, 0)]
      /\ DOMAIN cutRows = 1..Bought
  BY DEF Cuts!Init
<1>10. cutRows = [i \in 1..Bought |-> cutRows[i]]
  BY <1>9
<1>11. IsSeq(cutRows)
  BY <1>1, <1>10, FunctionIsSeq
<1>12. \A i \in DOMAIN cutRows :
         /\ cutRows[i].coil = i /\ cutRows[i].type = "IN" /\ cutRows[i].ref = Cuts!Purchase
         /\ cutRows[i].reverses = 0 /\ i \in Nat /\ i > 0
  BY <1>1, <1>9 DEF Cuts!Row
<1>13. CutsTyped
  <2>1. \A i \in DOMAIN cutRows : RowHolds(cutRows[i], i)
    BY <1>4, <1>12 DEF RowHolds
  <2>2. splits \in Seq(SplitType) /\ sent \in Seq(SentType)
    BY <1>1, EmptySeq
  <2>. QED
    BY <1>8, <1>11, <2>1, <2>2 DEF CutsTyped
<1>14. Entries
  <2>1. \A i \in DOMAIN cutRows : Cuts!LiveRow(i)
    BY <1>12 DEF Cuts!LiveRow
  <2>2. \A i \in DOMAIN cutRows : EntryRow(i)
    BY <1>5, <1>7, <1>9, <1>12 DEF EntryRow
  <2>3. \A c \in Cuts!Coils : c \in Cuts!LiveOf(c)
    BY <1>7, <1>9, <1>12, <2>1 DEF Cuts!LiveOf
  <2>4. \A c \in Cuts!Coils : Cuts!EntryStands(c)
    BY <1>5, <1>7, <1>9, <1>12, <2>3 DEF Cuts!EntryStands
  <2>. QED
    BY <1>5, <1>7, <2>2, <2>4 DEF Entries
<1>15. Places
  <2>1. DOMAIN sent = {} /\ \A c : Cuts!Sent(c) = {}
    BY <1>1 DEF Cuts!Sent
  <2>2. \A c \in Cuts!Coils : PlaceOf(c)
    BY <1>1, <1>4, <1>5, <1>7, <2>1 DEF PlaceOf
  <2>. QED
    BY <1>1, <2>1, <2>2 DEF Places
<1>16. Terminations
  BY <1>5, <1>7 DEF Terminations
<1>. QED
  BY <1>13, <1>14, <1>15, <1>16 DEF CuttingIInv

\* Inductive: every step of a coil, of a cut or of a sending keeps it.
LEMMA Inductive ==
  ASSUME ChildrenAtHome, CuttingIInv, [Cuts!Next]_(Cuts!vars)
  PROVE  CuttingIInv'
<1>1. CASE UNCHANGED Cuts!vars
  <2>1. UNCHANGED <<coil, cutRows, splits, sent, mounted>>
    BY <1>1 DEF Cuts!vars
  <2>2. CoilsKeep /\ Cuts!Coils' = Cuts!Coils
    BY <2>1, SameCoils DEF CuttingIInv
  <2>. QED
    BY <2>1, <2>2, NothingHappens
<1>2. ASSUME NEW S \in SUBSET Cuts!Coils, Cuts!Send(S)
      PROVE  CuttingIInv'
  BY <1>2, SendKeeps
<1>3. ASSUME NEW r \in DOMAIN sent, Cuts!Receive(r) \/ Cuts!ReverseReception(r) \/ Cuts!Cancel(r)
      PROVE  CuttingIInv'
  BY <1>3, ReceiveKeeps, ReverseReceptionKeeps, CancelKeeps
<1>4. ASSUME NEW s \in DOMAIN splits, Cuts!RevertSplit(s)
      PROVE  CuttingIInv'
  BY <1>4, RevertSplitKeeps
<1>5. ASSUME NEW i \in DOMAIN cutRows, Cuts!CancelScrap(i)
      PROVE  CuttingIInv'
  BY <1>5, CancelScrapKeeps
<1>6. ASSUME NEW c \in Cuts!Coils,
             \/ Cuts!Split(c) \/ Cuts!Scrap(c) \/ Cuts!Close(c) \/ Cuts!Reopen(c) \/ Cuts!OpenFilm(c) \/ Cuts!Reseal(c)
             \/ Cuts!Mount(c) \/ Cuts!Release(c) \/ Cuts!Annul(c)
      PROVE  CuttingIInv'
  BY <1>6, SplitKeeps, ScrapKeeps, CloseKeeps, ReopenKeeps, FilmSteps, CustodySteps, AnnulKeeps
<1>. QED
  BY <1>1, <1>2, <1>3, <1>4, <1>5, <1>6 DEF Cuts!Next

-----------------------------------------------------------------------------
(* The kilos of a cut.                                                      *)

QtysOf(rs) == [i \in DOMAIN rs |-> rs[i].qty]

IsQtySum(rs, S, g) ==
  g = [s \in SUBSET S |-> IF s = {} THEN 0 ELSE rs[Pick(s)].qty + g[s \ {Pick(s)}]]

LEMMA CutQtyUnfolds ==
  ASSUME NEW rs, NEW S
  PROVE  Cuts!QtyOf(rs, S) = (CHOOSE g : IsQtySum(rs, S, g))[S]
BY DEF Cuts!QtyOf, Cuts!MapThenSumSet, Cuts!MapThenFoldSet, IsQtySum, Pick

\* The sums of Cutting are those of the lemmas.
LEMMA CutQtyIs ==
  ASSUME NEW rs, NEW S \in SUBSET DOMAIN rs, IsFiniteSet(S)
  PROVE  Cuts!QtyOf(rs, S) = SumFunctionOnSet(QtysOf(rs), S)
<1> DEFINE f == QtysOf(rs)
<1>1. ASSUME NEW g PROVE IsSum(f, S, g) <=> IsQtySum(rs, S, g)
  <2>1. ASSUME NEW s \in SUBSET S
        PROVE  (IF s = {} THEN 0 ELSE f[Pick(s)] + g[s \ {Pick(s)}])
               = (IF s = {} THEN 0 ELSE rs[Pick(s)].qty + g[s \ {Pick(s)}])
    <3>1. CASE s = {}
      BY <3>1
    <3>2. CASE s # {}
      <4>1. Pick(s) \in DOMAIN rs
        BY <3>2, PickIn
      <4>2. f[Pick(s)] = rs[Pick(s)].qty
        BY <4>1 DEF QtysOf
      <4>. QED
        BY <4>2
    <3>. QED
      BY <3>1, <3>2
  <2>2. [s \in SUBSET S |-> IF s = {} THEN 0 ELSE f[Pick(s)] + g[s \ {Pick(s)}]]
        = [s \in SUBSET S |-> IF s = {} THEN 0 ELSE rs[Pick(s)].qty + g[s \ {Pick(s)}]]
    BY <2>1
  <2>. QED
    BY <2>2 DEF IsSum, IsQtySum
<1> DEFINE one == CHOOSE g : IsSum(f, S, g)
           two == CHOOSE g : IsQtySum(rs, S, g)
<1>2. \E g : IsSum(f, S, g)
  BY SumExists
<1>3. IsSum(f, S, one) /\ IsQtySum(rs, S, two)
  BY <1>1, <1>2
<1>4. IsSum(f, S, two)
  BY <1>1, <1>3
<1>5. one[S] = two[S]
  <2>1. S \in SUBSET S
    OBVIOUS
  <2> HIDE DEF one, two, f
  <2>. QED
    BY <1>3, <1>4, <2>1, SumIsOne
<1>. QED
  BY <1>5, CutQtyUnfolds, SumUnfolds

\* Some rows with quantities.
Weighed(rs, S) == S \subseteq DOMAIN rs /\ IsFiniteSet(S) /\ \A i \in S : rs[i].qty \in Nat

LEMMA CutQtyNat ==
  ASSUME NEW rs, NEW S, Weighed(rs, S)
  PROVE  Cuts!QtyOf(rs, S) \in Nat
<1>1. \A i \in S : QtysOf(rs)[i] \in Nat
  BY DEF Weighed, QtysOf
<1>. QED
  BY <1>1, CutQtyIs, SumNat DEF Weighed

LEMMA CutQtyNone ==
  ASSUME NEW rs
  PROVE  Cuts!QtyOf(rs, {}) = 0
<1>1. IsFiniteSet({}) /\ {} \in SUBSET DOMAIN rs
  BY FS_EmptySet
<1>. QED
  BY <1>1, CutQtyIs, SumEmpty

LEMMA CutQtyTakes ==
  ASSUME NEW rs, NEW S, Weighed(rs, S), NEW i \in S
  PROVE  Cuts!QtyOf(rs, S) = rs[i].qty + Cuts!QtyOf(rs, S \ {i})
<1>1. \A j \in S : QtysOf(rs)[j] \in Int
  BY DEF Weighed, QtysOf
<1>2. SumFunctionOnSet(QtysOf(rs), S) = QtysOf(rs)[i] + SumFunctionOnSet(QtysOf(rs), S \ {i})
  BY <1>1, SumTakes DEF Weighed
<1>3. IsFiniteSet(S \ {i}) /\ S \ {i} \in SUBSET DOMAIN rs /\ QtysOf(rs)[i] = rs[i].qty
  BY FS_Subset DEF Weighed, QtysOf
<1>. QED
  BY <1>2, <1>3, CutQtyIs DEF Weighed

LEMMA CutQtyOne ==
  ASSUME NEW rs, NEW i \in DOMAIN rs, rs[i].qty \in Nat
  PROVE  Cuts!QtyOf(rs, {i}) = rs[i].qty
<1>1. Weighed(rs, {i})
  BY FS_Singleton DEF Weighed
<1>2. Cuts!QtyOf(rs, {i}) = rs[i].qty + Cuts!QtyOf(rs, {i} \ {i})
  BY <1>1, CutQtyTakes
<1>3. {i} \ {i} = {}
  OBVIOUS
<1>. QED
  BY <1>2, <1>3, CutQtyNone

LEMMA CutQtyTwo ==
  ASSUME NEW rs, NEW i \in DOMAIN rs, NEW j \in DOMAIN rs, i # j,
         rs[i].qty \in Nat, rs[j].qty \in Nat
  PROVE  Cuts!QtyOf(rs, {i, j}) = rs[i].qty + rs[j].qty
<1>1. IsFiniteSet({i, j})
  <2>1. IsFiniteSet({i} \cup {j})
    BY FS_Singleton, FS_Union
  <2>2. {i} \cup {j} = {i, j}
    OBVIOUS
  <2>. QED
    BY <2>1, <2>2
<1>2. Weighed(rs, {i, j})
  BY <1>1 DEF Weighed
<1>3. Cuts!QtyOf(rs, {i, j}) = rs[i].qty + Cuts!QtyOf(rs, {i, j} \ {i})
  BY <1>2, CutQtyTakes
<1>4. {i, j} \ {i} = {j}
  OBVIOUS
<1>. QED
  BY <1>3, <1>4, CutQtyOne

\* Fewer rows, which are as they were, have no more.
LEMMA CutQtyLess ==
  ASSUME NEW rs, NEW new, NEW S, NEW R \in SUBSET S, Weighed(rs, S),
         \A i \in S : i \in DOMAIN new /\ new[i] = rs[i]
  PROVE  Cuts!QtyOf(new, R) <= Cuts!QtyOf(rs, S)
<1>1. IsFiniteSet(R) /\ IsFiniteSet(S) /\ S \in SUBSET DOMAIN rs /\ R \in SUBSET DOMAIN rs /\ R \in SUBSET DOMAIN new
  BY FS_Subset DEF Weighed
<1>2. \A i \in S : QtysOf(rs)[i] \in Nat
  BY DEF Weighed, QtysOf
<1>3. SumFunctionOnSet(QtysOf(rs), R) <= SumFunctionOnSet(QtysOf(rs), S)
  BY <1>1, <1>2, SumOfSubset
<1>4. \A i \in R : QtysOf(new)[i] = QtysOf(rs)[i]
  BY <1>1 DEF QtysOf
<1>5. SumFunctionOnSet(QtysOf(new), R) = SumFunctionOnSet(QtysOf(rs), R)
  BY <1>1, <1>4, SumSame
<1>. QED
  BY <1>1, <1>3, <1>5, CutQtyIs

LEMMA CutQtySame ==
  ASSUME NEW rs, NEW new, NEW S, Weighed(rs, S),
         \A i \in S : i \in DOMAIN new /\ new[i] = rs[i]
  PROVE  Cuts!QtyOf(new, S) = Cuts!QtyOf(rs, S)
<1>1. IsFiniteSet(S) /\ S \in SUBSET DOMAIN rs /\ S \in SUBSET DOMAIN new
  BY DEF Weighed
<1>2. \A i \in S : QtysOf(new)[i] = QtysOf(rs)[i]
  BY <1>1 DEF QtysOf
<1>3. SumFunctionOnSet(QtysOf(new), S) = SumFunctionOnSet(QtysOf(rs), S)
  BY <1>1, <1>2, SumSame
<1>. QED
  BY <1>1, <1>3, CutQtyIs

-----------------------------------------------------------------------------
(* A cut stands whole or not at all.                                        *)

IsCut(ref) == ref \in RefType /\ ref.kind \in {"SPLIT", "CUTTING"}

\* The reception, or the split, was not undone.
StillStands(ref) ==
  \/ ref.kind = "CUTTING" /\ ref.id \in DOMAIN sent /\ sent[ref.id].status = "RECEIVED"
  \/ ref.kind = "SPLIT" /\ ref.id \in DOMAIN splits /\ splits[ref.id].status = "ACTIVE"

\* One row took its kilos from the mother, and no more entered.
StandsWhole(ref) ==
  /\ \E o : Cuts!Outs(Cuts!LiveBy(ref)) = {o}
  /\ Cuts!QtyOf(cutRows, Cuts!Ins(Cuts!LiveBy(ref))) <= Cuts!QtyOf(cutRows, Cuts!Outs(Cuts!LiveBy(ref)))

RowsWeighed == \A i \in DOMAIN cutRows : cutRows[i].qty \in Nat

WholeOrNot(ref) == IF StillStands(ref) THEN StandsWhole(ref) ELSE Cuts!LiveBy(ref) = {}

Wholes == RowsWeighed /\ \A ref : IsCut(ref) => WholeOrNot(ref)

LEMMA RowsFinite ==
  ASSUME CutsTyped, NEW S \in SUBSET DOMAIN cutRows
  PROVE  IsFiniteSet(S)
<1>1. PICK n \in Nat : DOMAIN cutRows = 1..n
  BY SeqIs DEF CutsTyped
<1>2. IsFiniteSet(1..n)
  BY FS_Interval
<1>. QED
  BY <1>1, <1>2, FS_Subset

LEMMA LiveByGoes ==
  ASSUME NEW U, NEW N, RowsGo(U, N), NEW ref
  PROVE  \A i : i \in Cuts!LiveBy(ref)' <=>
                  \/ i \in Cuts!LiveBy(ref) /\ i \notin U
                  \/ i \in N /\ cutRows'[i].ref = ref
<1>1. ASSUME NEW i \in DOMAIN cutRows
      PROVE  i \in Cuts!LiveBy(ref)' <=> i \in Cuts!LiveBy(ref) /\ i \notin U
  BY <1>1 DEF RowsGo, Cuts!LiveBy
<1>2. ASSUME NEW i \in DOMAIN cutRows' \ DOMAIN cutRows
      PROVE  i \in Cuts!LiveBy(ref)' <=> i \in N /\ cutRows'[i].ref = ref
  BY <1>2 DEF RowsGo, Cuts!LiveBy
<1>. QED
  BY <1>1, <1>2 DEF RowsGo, Cuts!LiveBy

\* The row that took the kilos stays, and no row of the cut is added.
Untouched(ref, U, N) ==
  /\ \A i \in N : cutRows'[i].ref # ref
  /\ \A i \in U : i \in Cuts!LiveBy(ref) => cutRows[i].type = "IN"

LEMMA CutStays ==
  ASSUME CutsTyped, RowsWeighed, NEW U, NEW N, RowsGo(U, N), NEW ref, Untouched(ref, U, N), StandsWhole(ref)
  PROVE  StandsWhole(ref)'
<1>1. PICK live, liveNow : live = Cuts!LiveBy(ref) /\ liveNow = Cuts!LiveBy(ref)'
  OBVIOUS
<1>2. live \subseteq DOMAIN cutRows
  BY <1>1 DEF Cuts!LiveBy
<1>3. /\ liveNow \subseteq live /\ \A i \in live : i \in DOMAIN cutRows' /\ cutRows'[i] = cutRows[i]
      /\ \A i \in live : cutRows[i].type = "OUT" => i \in liveNow
  BY <1>1, <1>2, LiveByGoes DEF Untouched, RowsGo
<1>4. Cuts!Outs(liveNow)' = Cuts!Outs(live) /\ Cuts!Ins(liveNow)' \subseteq Cuts!Ins(live)
  BY <1>3 DEF Cuts!Outs, Cuts!Ins
<1>5. Weighed(cutRows, Cuts!Ins(live)) /\ Weighed(cutRows, Cuts!Outs(live))
  BY <1>2, RowsFinite DEF Weighed, RowsWeighed, Cuts!Outs, Cuts!Ins
<1>6. PICK rs, new : rs = cutRows /\ new = cutRows'
  OBVIOUS
<1>7. PICK outs, ins, insNow : outs = Cuts!Outs(live) /\ ins = Cuts!Ins(live) /\ insNow = Cuts!Ins(liveNow)'
  OBVIOUS
<1>8. /\ Weighed(rs, ins) /\ Weighed(rs, outs) /\ insNow \in SUBSET ins
      /\ \A i \in ins \cup outs : i \in DOMAIN new /\ new[i] = rs[i]
  BY <1>3, <1>4, <1>5, <1>6, <1>7 DEF Cuts!Outs, Cuts!Ins
<1>9. Cuts!QtyOf(new, outs) = Cuts!QtyOf(rs, outs) /\ Cuts!QtyOf(rs, outs) \in Nat
  BY <1>8, CutQtySame, CutQtyNat
<1>10. Cuts!QtyOf(new, insNow) <= Cuts!QtyOf(rs, ins) /\ Cuts!QtyOf(rs, ins) \in Nat
  BY <1>8, CutQtyLess, CutQtyNat
<1>11. Weighed(new, insNow)
  BY <1>8, FS_Subset DEF Weighed
<1>12. Cuts!QtyOf(new, insNow) \in Nat
  BY <1>11, CutQtyNat
<1>13. Cuts!QtyOf(rs, ins) <= Cuts!QtyOf(rs, outs) /\ \E o : outs = {o}
  BY <1>1, <1>6, <1>7 DEF StandsWhole
<1>14. Cuts!QtyOf(new, insNow) <= Cuts!QtyOf(new, outs)
  BY <1>9, <1>10, <1>12, <1>13
<1>15. Cuts!Outs(Cuts!LiveBy(ref))' = outs /\ Cuts!Ins(Cuts!LiveBy(ref))' = insNow
  <2>1. Cuts!Outs(Cuts!LiveBy(ref))' = Cuts!Outs(liveNow)' /\ Cuts!Ins(Cuts!LiveBy(ref))' = Cuts!Ins(liveNow)'
    BY <1>1 DEF Cuts!Outs, Cuts!Ins
  <2>. QED
    BY <1>4, <1>7, <2>1
<1>16. Cuts!QtyOf(cutRows, Cuts!Ins(Cuts!LiveBy(ref)))' = Cuts!QtyOf(new, insNow)
  BY <1>6, <1>15
<1>17. Cuts!QtyOf(cutRows, Cuts!Outs(Cuts!LiveBy(ref)))' = Cuts!QtyOf(new, outs)
  BY <1>6, <1>15
<1>. QED
  BY <1>13, <1>14, <1>15, <1>16, <1>17, Zenon DEF StandsWhole

\* An operation does or undoes one cut, `this`, and leaves the others.
LEMMA WholesKept ==
  ASSUME CutsTyped, Wholes, NEW U, NEW N, RowsGo(U, N), RowsWeighed', NEW this,
         \A ref : (IsCut(ref) /\ ref # this) =>
            Untouched(ref, U, N) /\ (StillStands(ref)' <=> StillStands(ref)),
         IsCut(this) => WholeOrNot(this)'
  PROVE  Wholes'
<1>1. ASSUME NEW ref, IsCut(ref), ref # this PROVE WholeOrNot(ref)'
  <2>1. Untouched(ref, U, N) /\ (StillStands(ref)' <=> StillStands(ref)) /\ WholeOrNot(ref)
    BY <1>1 DEF Wholes
  <2>2. CASE StillStands(ref)
    <3>1. StandsWhole(ref)'
      BY <2>1, <2>2, CutStays DEF Wholes, WholeOrNot
    <3>. QED
      BY <2>1, <2>2, <3>1 DEF WholeOrNot
  <2>3. CASE ~StillStands(ref)
    <3>1. Cuts!LiveBy(ref)' = {}
      BY <2>1, <2>3, LiveByGoes DEF WholeOrNot, Untouched
    <3>. QED
      BY <2>1, <2>3, <3>1 DEF WholeOrNot
  <2>. QED
    BY <2>2, <2>3
<1>2. \A ref : IsCut(ref)' <=> IsCut(ref)
  BY DEF IsCut
<1>3. \A ref : IsCut(ref) => WholeOrNot(ref)'
  BY <1>1
<1>. QED
  BY <1>2, <1>3 DEF Wholes

\* The rows that are added have quantities.
LEMMA MoreRowsWeighed ==
  ASSUME CutsTyped, RowsWeighed, NEW t, IsSeq(t), \A k \in DOMAIN t : t[k].qty \in Nat, cutRows' = cutRows \o t
  PROVE  RowsWeighed'
<1>1. Joins(cutRows', cutRows, t)
  BY Joined DEF CutsTyped
<1>2. /\ \A i \in DOMAIN cutRows : cutRows'[i] = cutRows[i]
      /\ \A i \in DOMAIN cutRows' \ DOMAIN cutRows : \E k \in DOMAIN t : cutRows'[i] = t[k]
  BY <1>1 DEF Joins
<1>3. ASSUME NEW i \in DOMAIN cutRows' PROVE cutRows'[i].qty \in Nat
  <2>1. CASE i \in DOMAIN cutRows
    BY <1>2, <2>1 DEF RowsWeighed
  <2>2. CASE i \notin DOMAIN cutRows
    BY <1>2, <2>2
  <2>. QED
    BY <2>1, <2>2
<1>. QED
  BY <1>3 DEF RowsWeighed

LEMMA OneRowWeighed ==
  ASSUME CutsTyped, RowsWeighed, NEW row, row.qty \in Nat, cutRows' = Append(cutRows, row)
  PROVE  RowsWeighed'
<1>1. PICK t : t = <<row>>
  OBVIOUS
<1>2. cutRows' = cutRows \o t /\ IsSeq(t) /\ DOMAIN t = 1..1 /\ t[1] = row
  BY <1>1, Appended DEF CutsTyped
<1>3. \A k \in DOMAIN t : t[k].qty \in Nat
  BY <1>2
<1>. QED
  BY <1>2, <1>3, MoreRowsWeighed

LEMMA UndoWeighed ==
  ASSUME CutsTyped, RowsWeighed, NEW i \in DOMAIN cutRows
  PROVE  Cuts!Undo(i).qty \in Nat
BY DEF RowsWeighed, Cuts!Undo, Cuts!Row

LEMMA UndoneWeighed ==
  ASSUME CutsTyped, RowsWeighed, NEW q, IsSeq(q), \A k \in DOMAIN q : q[k] \in DOMAIN cutRows,
         cutRows' = cutRows \o Cuts!UndoAll(q)
  PROVE  RowsWeighed'
<1>1. PICK m \in Nat : DOMAIN q = 1..m
  BY SeqIs
<1>2. PICK t : t = Cuts!UndoAll(q)
  OBVIOUS
<1>3. t = [k \in 1..m |-> Cuts!Undo(q[k])]
  BY <1>1, <1>2 DEF Cuts!UndoAll
<1>4. IsSeq(t) /\ DOMAIN t = 1..m /\ \A k \in 1..m : t[k] = Cuts!Undo(q[k])
  BY <1>3, FunctionIsSeq
<1>5. \A k \in DOMAIN t : t[k].qty \in Nat
  BY <1>1, <1>4, UndoWeighed
<1>. QED
  BY <1>2, <1>4, <1>5, MoreRowsWeighed

LEMMA CutWeighs ==
  ASSUME NEW w \in Nat, NEW weights \in Cuts!CutsOf(w)
  PROVE  \/ /\ DOMAIN weights = 1..1 /\ weights[1] \in Nat /\ weights[1] <= w
         \/ /\ DOMAIN weights = 1..2 /\ weights[1] \in Nat /\ weights[2] \in Nat
            /\ weights[1] + weights[2] <= w
<1>1. CASE \E a \in 1..w : weights = <<a>>
  <2>1. PICK a \in 1..w : weights = <<a>>
    BY <1>1
  <2>2. DOMAIN weights = 1..1 /\ weights[1] = a
    BY <2>1
  <2>. QED
    BY <2>2
<1>2. CASE \E a, b \in 1..w : weights = <<a, b>> /\ a + b <= w
  <2>1. PICK a, b \in 1..w : weights = <<a, b>> /\ a + b <= w
    BY <1>2
  <2>2. DOMAIN weights = 1..2 /\ weights[1] = a /\ weights[2] = b
    BY <2>1
  <2>. QED
    BY <2>1, <2>2
<1>3. \/ \E a \in 1..w : weights = <<a>>
      \/ weights \in (1..w) \X (1..w) /\ weights[1] + weights[2] \in (w - Kerf)..w
  BY DEF Cuts!CutsOf
<1>4. ASSUME weights \in (1..w) \X (1..w), weights[1] + weights[2] \in (w - Kerf)..w
      PROVE  \E a, b \in 1..w : weights = <<a, b>> /\ a + b <= w
  <2>1. PICK a, b \in 1..w : weights = <<a, b>>
    BY <1>4
  <2>2. a + b = weights[1] + weights[2]
    BY <2>1
  <2>. QED
    BY <1>4, <2>1, <2>2
<1>. QED
  BY <1>1, <1>2, <1>3, <1>4

\* The row of the mother, and after it those of the pieces.
InOrder(n, m, w, ref, weights) ==
  LET added == DOMAIN cutRows' \ DOMAIN cutRows
  IN  /\ n + 1 \in added /\ cutRows'[n + 1].type = "OUT" /\ cutRows'[n + 1].ref = ref /\ cutRows'[n + 1].qty = w
      /\ \A l \in 1..m : /\ n + 1 + l \in added /\ cutRows'[n + 1 + l].type = "IN"
                         /\ cutRows'[n + 1 + l].ref = ref /\ cutRows'[n + 1 + l].qty = weights[l]
      /\ \A i \in added : i = n + 1 \/ \E l \in 1..m : i = n + 1 + l

LEMMA CutRowsInOrder ==
  ASSUME CutsTyped, NEW c \in Cuts!Coils, NEW w, NEW m \in Nat, NEW weights, DOMAIN weights = 1..m,
         NEW ref \in RefType, cutRows' = cutRows \o Cuts!CutRows(c, w, ref, weights)
  PROVE  /\ RowsGo({}, DOMAIN cutRows' \ DOMAIN cutRows)
         /\ \E n \in Nat : InOrder(n, m, w, ref, weights)
<1>1. PICK size \in Nat : size = Len(coil) /\ c \in Nat
  BY CoilsAre
<1>2. PICK out : out = Cuts!Row(c, "OUT", w, ref, 0)
  OBVIOUS
<1>3. RowHolds(out, 1) /\ out.type = "OUT" /\ out.ref = ref /\ out.qty = w
  BY <1>1, <1>2 DEF Cuts!Row, RowHolds
<1>4. PICK ins : ins = [k \in 1..m |-> Cuts!Row(size + k, "IN", weights[k], ref, 0)]
  OBVIOUS
<1>5. ASSUME NEW k \in 1..m
      PROVE  RowHolds(ins[k], 1) /\ ins[k].type = "IN" /\ ins[k].ref = ref /\ ins[k].qty = weights[k]
  <2>1. PICK d \in Nat : d = size + k
    BY <1>1
  <2>2. PICK row : row = Cuts!Row(d, "IN", weights[k], ref, 0)
    OBVIOUS
  <2>3. RowHolds(row, 1) /\ row.type = "IN" /\ row.ref = ref /\ row.qty = weights[k]
    BY <2>2 DEF Cuts!Row, RowHolds
  <2>4. ins[k] = row
    BY <1>4, <2>1, <2>2
  <2>. QED
    BY <2>3, <2>4
<1>6. IsSeq(ins) /\ DOMAIN ins = 1..m /\ Len(ins) = m
  BY <1>4, FunctionIsSeq
<1>7. PICK first : first = <<out>>
  OBVIOUS
<1>8. IsSeq(first) /\ DOMAIN first = 1..1 /\ Len(first) = 1 /\ first[1] = out
  BY <1>7, Appended DEF CutsTyped
<1>9. PICK t : t = first \o ins
  OBVIOUS
<1>10. Joins(t, first, ins)
  BY <1>6, <1>8, <1>9, Joined
<1>11. /\ IsSeq(t) /\ 1 \in DOMAIN t /\ t[1] = out
       /\ \A k \in DOMAIN t : k = 1 \/ \E l \in 1..m : k = 1 + l
       /\ \A l \in 1..m : 1 + l \in DOMAIN t /\ t[1 + l] = ins[l]
  <2>1. IsSeq(t) /\ 1 \in DOMAIN t /\ t[1] = out
    BY <1>8, <1>10 DEF Joins
  <2>2. \A k \in DOMAIN t \ DOMAIN first : \E l \in DOMAIN ins : k = Len(first) + l
    BY <1>10 DEF Joins
  <2>3. \A l \in DOMAIN ins : \E k \in DOMAIN t \ DOMAIN first : k = Len(first) + l /\ t[k] = ins[l]
    BY <1>10 DEF Joins
  <2>4. \A k \in DOMAIN t : k = 1 \/ \E l \in 1..m : k = 1 + l
    BY <1>6, <1>8, <2>2
  <2>5. \A l \in 1..m : 1 + l \in DOMAIN t /\ t[1 + l] = ins[l]
    BY <1>6, <1>8, <2>3
  <2>. QED
    BY <2>1, <2>4, <2>5
<1>12. \A k \in DOMAIN t : RowHolds(t[k], 1)
  <2>1. ASSUME NEW k \in DOMAIN t PROVE RowHolds(t[k], 1)
    <3>1. CASE k = 1
      BY <1>3, <1>11, <3>1
    <3>2. CASE \E l \in 1..m : k = 1 + l
      <4>1. PICK l \in 1..m : k = 1 + l
        BY <3>2
      <4>2. t[k] = ins[l]
        BY <1>11, <4>1
      <4>. QED
        BY <1>5, <4>2
    <3>. QED
      BY <1>11, <3>1, <3>2
  <2>. QED
    BY <2>1
<1>13. cutRows' = cutRows \o t
  BY <1>1, <1>2, <1>4, <1>7, <1>9 DEF Cuts!CutRows
<1>14. PICK added : added = DOMAIN cutRows' \ DOMAIN cutRows
  OBVIOUS
<1>15. RowsGo({}, added) /\ Joins(cutRows', cutRows, t)
  BY <1>11, <1>12, <1>13, <1>14, CutRowsAdded
<1>16. PICK n \in Nat : n = Len(cutRows)
  BY SeqIs DEF CutsTyped
<1>17. /\ \A i \in added : \E k \in DOMAIN t : i = n + k
       /\ \A k \in DOMAIN t : n + k \in added /\ cutRows'[n + k] = t[k]
  <2>1. \A i \in added : \E k \in DOMAIN t : i = n + k
    BY <1>14, <1>15, <1>16 DEF Joins
  <2>2. \A k \in DOMAIN t : \E i \in added : i = n + k /\ cutRows'[i] = t[k]
    BY <1>14, <1>15, <1>16 DEF Joins
  <2>. QED
    BY <2>1, <2>2
<1>18. n + 1 \in added /\ cutRows'[n + 1] = out
  BY <1>11, <1>17
<1>19. ASSUME NEW l \in 1..m PROVE n + 1 + l \in added /\ cutRows'[n + 1 + l] = ins[l]
  <2>1. 1 + l \in DOMAIN t /\ t[1 + l] = ins[l] /\ n + (1 + l) = n + 1 + l
    BY <1>11
  <2>2. n + (1 + l) \in added /\ cutRows'[n + (1 + l)] = t[1 + l]
    BY <1>17, <2>1
  <2>. QED
    BY <2>1, <2>2
<1>20. ASSUME NEW i \in added PROVE i = n + 1 \/ \E l \in 1..m : i = n + 1 + l
  <2>1. PICK k \in DOMAIN t : i = n + k
    BY <1>17
  <2>2. CASE k = 1
    BY <2>1, <2>2
  <2>3. CASE \E l \in 1..m : k = 1 + l
    <3>1. PICK l \in 1..m : k = 1 + l
      BY <2>3
    <3>2. n + (1 + l) = n + 1 + l
      OBVIOUS
    <3>. QED
      BY <2>1, <3>1, <3>2
  <2>. QED
    BY <1>11, <2>2, <2>3
<1>21. InOrder(n, m, w, ref, weights)
  <2>1. cutRows'[n + 1].type = "OUT" /\ cutRows'[n + 1].ref = ref /\ cutRows'[n + 1].qty = w
    BY <1>3, <1>18
  <2>2. ASSUME NEW l \in 1..m
        PROVE  /\ cutRows'[n + 1 + l].type = "IN" /\ cutRows'[n + 1 + l].ref = ref
               /\ cutRows'[n + 1 + l].qty = weights[l]
    BY <1>5, <1>19
  <2>. QED
    BY <1>14, <1>18, <1>19, <1>20, <2>1, <2>2 DEF InOrder
<1>. QED
  BY <1>14, <1>15, <1>21

\* A cut that is done stands whole.
LEMMA CutStandsNow ==
  ASSUME CutsTyped, RowsWeighed, NEW c \in Cuts!Coils, NEW w \in Nat, NEW weights \in Cuts!CutsOf(w),
         NEW ref \in RefType, Cuts!LiveBy(ref) = {}, cutRows' = cutRows \o Cuts!CutRows(c, w, ref, weights)
  PROVE  \E N : RowsGo({}, N) /\ (\A i \in N : cutRows'[i].ref = ref) /\ RowsWeighed' /\ StandsWhole(ref)'
<1>1. PICK m \in Nat :
        /\ DOMAIN weights = 1..m /\ \A l \in 1..m : weights[l] \in Nat
        /\ \/ m = 1 /\ weights[1] <= w
           \/ m = 2 /\ weights[1] + weights[2] <= w
  <2>1. CASE DOMAIN weights = 1..1 /\ weights[1] \in Nat /\ weights[1] <= w
    BY <2>1
  <2>2. CASE DOMAIN weights = 1..2 /\ weights[1] \in Nat /\ weights[2] \in Nat /\ weights[1] + weights[2] <= w
    <3>1. \A l \in 1..2 : l = 1 \/ l = 2
      OBVIOUS
    <3>. QED
      BY <2>2, <3>1
  <2>. QED
    BY <2>1, <2>2, CutWeighs
<1>2. PICK added : added = DOMAIN cutRows' \ DOMAIN cutRows
  OBVIOUS
<1>3. RowsGo({}, added)
  BY <1>1, <1>2, CutRowsInOrder
<1>4. PICK n \in Nat : InOrder(n, m, w, ref, weights)
  BY <1>1, CutRowsInOrder
<1>5. PICK new : new = cutRows'
  OBVIOUS
<1>6. /\ n + 1 \in added /\ new[n + 1].type = "OUT" /\ new[n + 1].ref = ref /\ new[n + 1].qty = w
      /\ \A l \in 1..m : /\ n + 1 + l \in added /\ new[n + 1 + l].type = "IN"
                         /\ new[n + 1 + l].ref = ref /\ new[n + 1 + l].qty = weights[l]
      /\ \A i \in added : i = n + 1 \/ \E l \in 1..m : i = n + 1 + l
  BY <1>2, <1>4, <1>5 DEF InOrder
<1>7. \A i \in added : cutRows'[i].ref = ref /\ new[i].qty \in Nat /\ i \in DOMAIN new
  <2>1. ASSUME NEW i \in added PROVE new[i].ref = ref /\ new[i].qty \in Nat
    <3>1. CASE i = n + 1
      BY <1>6, <3>1
    <3>2. CASE \E l \in 1..m : i = n + 1 + l
      <4>1. PICK l \in 1..m : i = n + 1 + l
        BY <3>2
      <4>2. weights[l] \in Nat
        BY <1>1
      <4>3. new[n + 1 + l].ref = ref /\ new[n + 1 + l].qty = weights[l]
        BY <1>6
      <4>. QED
        BY <4>1, <4>2, <4>3
    <3>. QED
      BY <1>6, <3>1, <3>2
  <2>2. \A i \in added : i \in DOMAIN new /\ cutRows'[i] = new[i]
    BY <1>2, <1>5
  <2>. QED
    BY <2>1, <2>2
<1>8. RowsWeighed'
  <2>1. ASSUME NEW i \in DOMAIN cutRows' PROVE cutRows'[i].qty \in Nat
    <3>1. CASE i \in DOMAIN cutRows
      BY <1>3, <3>1 DEF RowsGo, RowsWeighed
    <3>2. CASE i \notin DOMAIN cutRows
      BY <1>2, <1>5, <1>7, <3>2
    <3>. QED
      BY <3>1, <3>2
  <2>. QED
    BY <2>1 DEF RowsWeighed
<1>9. Cuts!LiveBy(ref)' = added
  <2>1. \A i : i \in Cuts!LiveBy(ref)' <=> i \in added
    BY <1>3, <1>7, LiveByGoes
  <2>. QED
    BY <2>1
<1>10. PICK o : o = n + 1
  OBVIOUS
<1>11. Cuts!Outs(Cuts!LiveBy(ref))' = {o}
  <2>1. \A i \in added : new[i].type = "OUT" <=> i = o
    BY <1>6, <1>10
  <2>. QED
    <3>1. \A i : i \in Cuts!Outs(Cuts!LiveBy(ref))' <=> i \in added /\ new[i].type = "OUT"
      BY <1>5, <1>9 DEF Cuts!Outs
    <3>2. \A i : i \in Cuts!Outs(Cuts!LiveBy(ref))' <=> i = o
      BY <1>6, <1>10, <2>1, <3>1
    <3>. QED
      BY <3>2
<1>12. PICK insNow : insNow = Cuts!Ins(Cuts!LiveBy(ref))'
  OBVIOUS
<1>13. \A i : i \in insNow <=> \E l \in 1..m : i = n + 1 + l
  <2>1. \A i : i \in insNow <=> i \in added /\ new[i].type = "IN"
    BY <1>5, <1>9, <1>12 DEF Cuts!Ins
  <2>. QED
    BY <1>6, <2>1
<1>14. Cuts!QtyOf(new, insNow) <= w
  <2>1. CASE m = 1 /\ weights[1] <= w
    <3>1. PICK x : x = n + 1 + 1
      OBVIOUS
    <3>2. \A l \in 1..m : l = 1
      BY <2>1
    <3>3. insNow = {x}
      BY <1>13, <2>1, <3>1, <3>2
    <3>4. x \in DOMAIN new /\ new[x].qty = weights[1] /\ weights[1] \in Nat
      <4>1. 1 \in 1..m
        BY <2>1
      <4>. QED
        BY <1>1, <1>6, <1>7, <3>1, <4>1
    <3>. QED
      BY <2>1, <3>3, <3>4, CutQtyOne
  <2>2. CASE m = 2 /\ weights[1] + weights[2] <= w
    <3>1. PICK x, y : x = n + 1 + 1 /\ y = n + 1 + 2
      OBVIOUS
    <3>2. \A l : l \in 1..m <=> l = 1 \/ l = 2
      BY <2>2
    <3>3. insNow = {x, y} /\ x # y
      <4>1. \A i : i \in insNow <=> i = x \/ i = y
        <5>1. 1 \in 1..m /\ 2 \in 1..m
          BY <2>2
        <5>2. x \in insNow /\ y \in insNow
          BY <1>13, <3>1, <5>1
        <5>3. ASSUME NEW i \in insNow PROVE i = x \/ i = y
          <6>1. PICK l \in 1..m : i = n + 1 + l
            BY <1>13
          <6>. QED
            BY <3>1, <3>2, <6>1
        <5>. QED
          BY <5>2, <5>3
      <4>2. x # y
        BY <3>1
      <4>. QED
        BY <4>1, <4>2
    <3>4. /\ x \in DOMAIN new /\ new[x].qty = weights[1] /\ weights[1] \in Nat
          /\ y \in DOMAIN new /\ new[y].qty = weights[2] /\ weights[2] \in Nat
      <4>1. 1 \in 1..m /\ 2 \in 1..m
        BY <2>2
      <4>. QED
        BY <1>1, <1>6, <1>7, <3>1, <4>1
    <3>5. Cuts!QtyOf(new, {x, y}) = new[x].qty + new[y].qty
      BY <3>3, <3>4, CutQtyTwo
    <3>. QED
      BY <2>2, <3>3, <3>4, <3>5
  <2>. QED
    BY <1>1, <2>1, <2>2
<1>15. Cuts!QtyOf(new, {o}) = w
  <2>1. o \in DOMAIN new /\ new[o].qty = w
    BY <1>6, <1>7, <1>10
  <2>. QED
    BY <2>1, CutQtyOne
<1>16. StandsWhole(ref)'
  <2>1. Cuts!QtyOf(cutRows, Cuts!Ins(Cuts!LiveBy(ref)))' = Cuts!QtyOf(new, insNow)
    BY <1>5, <1>12
  <2>2. Cuts!QtyOf(cutRows, Cuts!Outs(Cuts!LiveBy(ref)))' = Cuts!QtyOf(new, {o})
    BY <1>5, <1>11
  <2>3. Cuts!QtyOf(new, insNow) <= Cuts!QtyOf(new, {o})
    BY <1>14, <1>15
  <2>. QED
    BY <1>11, <2>1, <2>2, <2>3, Zenon DEF StandsWhole
<1>. QED
  BY <1>3, <1>7, <1>8, <1>16, Zenon

-----------------------------------------------------------------------------
(* What the operations leave of the cuts.                                   *)

LEMMA CutStockInt ==
  ASSUME CutsTyped, RowsWeighed, NEW c
  PROVE  Cuts!Stock(cutRows, c) \in Int
<1>1. ASSUME NEW type PROVE Cuts!QtyOf(cutRows, {i \in DOMAIN cutRows : cutRows[i].coil = c /\ cutRows[i].type = type}) \in Nat
  <2>1. PICK S : S = {i \in DOMAIN cutRows : cutRows[i].coil = c /\ cutRows[i].type = type}
    OBVIOUS
  <2>2. Weighed(cutRows, S)
    BY <2>1, RowsFinite DEF Weighed, RowsWeighed
  <2>. QED
    BY <2>1, <2>2, CutQtyNat
<1>2. /\ Cuts!QtyOf(cutRows, {i \in DOMAIN cutRows : cutRows[i].coil = c /\ cutRows[i].type = "IN"}) \in Nat
      /\ Cuts!QtyOf(cutRows, {i \in DOMAIN cutRows : cutRows[i].coil = c /\ cutRows[i].type = "OUT"}) \in Nat
  BY <1>1
<1>. QED
  BY <1>2 DEF Cuts!Stock

\* No cut is done or undone.
LEMMA CutsStay ==
  ASSUME CutsTyped, Wholes, NEW U, NEW N, RowsGo(U, N), RowsWeighed',
         \A ref : IsCut(ref) => Untouched(ref, U, N) /\ (StillStands(ref)' <=> StillStands(ref))
  PROVE  Wholes'
<1>1. ~IsCut(Cuts!Manual)
  BY RefIs DEF IsCut
<1>. QED
  BY <1>1, WholesKept

LEMMA RowsStay ==
  ASSUME CutsTyped, Wholes, cutRows' = cutRows,
         \A ref : IsCut(ref) => (StillStands(ref)' <=> StillStands(ref))
  PROVE  Wholes'
<1>1. RowsGo({}, {})
  BY SameRows
<1>2. RowsWeighed'
  BY DEF Wholes, RowsWeighed
<1>. QED
  BY <1>1, <1>2, CutsStay DEF Untouched

LEMMA StillStandsStays ==
  ASSUME UNCHANGED <<splits, sent>>, NEW ref
  PROVE  StillStands(ref)' <=> StillStands(ref)
BY DEF StillStands

LEMMA OtherSteps ==
  ASSUME CutsTyped, Wholes, NEW c,
         Cuts!OpenFilm(c) \/ Cuts!Reseal(c) \/ Cuts!Mount(c) \/ Cuts!Release(c)
  PROVE  Wholes'
<1>1. UNCHANGED <<cutRows, splits, sent>>
  BY DEF Cuts!OpenFilm, Cuts!Reseal, Cuts!Mount, Cuts!Release
<1>. QED
  BY <1>1, RowsStay, StillStandsStays

LEMMA SendWhole ==
  ASSUME CutsTyped, Wholes, NEW S \in SUBSET Cuts!Coils, Cuts!Send(S)
  PROVE  Wholes'
<1>1. PICK order \in Nat : order = Len(sent) + 1
  BY SentIs
<1>2. SentMore(S, order)
  <2>1. sent' = sent \o [k \in DOMAIN SetToSeq(S) |->
                           [order |-> order, coil |-> SetToSeq(S)[k], status |-> "SENT"]]
    BY <1>1, SetToSeqInCuts DEF Cuts!Send
  <2>. QED
    BY <2>1, SendsMore
<1>3. /\ \A r \in DOMAIN sent : r \in DOMAIN sent' /\ sent'[r] = sent[r]
      /\ \A r \in DOMAIN sent' \ DOMAIN sent : sent'[r].status = "SENT"
  <2>1. ASSUME NEW r \in DOMAIN sent' \ DOMAIN sent PROVE sent'[r].status = "SENT"
    <3>1. PICK x : sent'[r] = [order |-> order, coil |-> x, status |-> "SENT"]
      BY <1>2 DEF SentMore
    <3>. QED
      BY <3>1
  <2>. QED
    BY <1>2, <2>1 DEF SentMore
<1>4. UNCHANGED <<cutRows, splits>>
  BY DEF Cuts!Send
<1>5. ASSUME NEW ref PROVE StillStands(ref)' <=> StillStands(ref)
  BY <1>3, <1>4 DEF StillStands
<1>. QED
  BY <1>4, <1>5, RowsStay

LEMMA CancelWhole ==
  ASSUME CutsTyped, Wholes, NEW o, Cuts!Cancel(o)
  PROVE  Wholes'
<1>1. PICK waiting : waiting = {r \in Cuts!OfOrder(o) : sent[r].status = "SENT"}
  OBVIOUS
<1>2. sent' = [r \in DOMAIN sent |->
                 IF r \in waiting THEN [sent[r] EXCEPT !.status = "CANCELLED"] ELSE sent[r]]
  BY <1>1 DEF Cuts!Cancel
<1>3. UNCHANGED <<cutRows, splits>>
  BY DEF Cuts!Cancel
<1>4. /\ DOMAIN sent' = DOMAIN sent /\ \A r \in DOMAIN sent \ waiting : sent'[r] = sent[r]
      /\ \A r \in waiting : r \in DOMAIN sent /\ sent[r].status = "SENT" /\ sent'[r].status = "CANCELLED"
  <2>1. ASSUME NEW r \in waiting
        PROVE  r \in DOMAIN sent /\ sent[r].status = "SENT" /\ sent'[r].status = "CANCELLED"
    <3>1. r \in DOMAIN sent /\ sent[r].status = "SENT" /\ sent[r] \in SentType
      BY <1>1, SentIs DEF Cuts!OfOrder
    <3>2. sent'[r] = [sent[r] EXCEPT !.status = "CANCELLED"]
      BY <1>2, <3>1
    <3>. QED
      BY <3>1, <3>2 DEF SentType
  <2>. QED
    BY <1>2, <2>1
<1>5. ASSUME NEW ref PROVE StillStands(ref)' <=> StillStands(ref)
  <2>1. CASE ref.id \in waiting
    BY <1>3, <1>4, <2>1 DEF StillStands
  <2>2. CASE ref.id \notin waiting
    BY <1>3, <1>4, <2>2 DEF StillStands
  <2>. QED
    BY <2>1, <2>2
<1>. QED
  BY <1>3, <1>5, RowsStay

\* A row that is no cut's comes in.
LEMMA RowComes ==
  ASSUME CutsTyped, Wholes, UNCHANGED <<splits, sent>>,
         NEW row, RowHolds(row, 1), row.qty \in Nat, row.ref.kind \notin {"SPLIT", "CUTTING"},
         cutRows' = Append(cutRows, row)
  PROVE  Wholes'
<1>1. PICK i : cutRows'[i] = row /\ RowsGo({}, {i})
  BY OneCutRow
<1>2. RowsWeighed'
  BY OneRowWeighed DEF Wholes
<1>3. ASSUME NEW ref, IsCut(ref) PROVE Untouched(ref, {}, {i}) /\ (StillStands(ref)' <=> StillStands(ref))
  BY <1>1, <1>3, StillStandsStays DEF IsCut, Untouched
<1>. QED
  BY <1>1, <1>2, <1>3, CutsStay

\* A row that is no cut's, or brought a piece in, is undone.
LEMMA RowUndone ==
  ASSUME CutsTyped, Wholes, UNCHANGED <<splits, sent>>,
         NEW i \in DOMAIN cutRows, cutRows[i].type = "IN" \/ cutRows[i].ref.kind \notin {"SPLIT", "CUTTING"},
         cutRows' = Append(cutRows, Cuts!Undo(i))
  PROVE  Wholes'
<1>1. RowsGo({i}, {})
  BY UndoneOne
<1>2. RowsWeighed'
  <2>1. PICK row : row = Cuts!Undo(i)
    OBVIOUS
  <2>2. row.qty \in Nat /\ cutRows' = Append(cutRows, row)
    BY <2>1, UndoWeighed DEF Wholes
  <2>. QED
    BY <2>2, OneRowWeighed DEF Wholes
<1>3. ASSUME NEW ref, IsCut(ref) PROVE Untouched(ref, {i}, {}) /\ (StillStands(ref)' <=> StillStands(ref))
  BY <1>3, StillStandsStays DEF IsCut, Untouched, Cuts!LiveBy
<1>. QED
  BY <1>1, <1>2, <1>3, CutsStay

LEMMA ScrapWhole ==
  ASSUME CutsTyped, Wholes, NEW c \in Cuts!Coils, Cuts!Scrap(c)
  PROVE  Wholes'
<1>1. c \in Nat /\ UNCHANGED <<splits, sent>>
  BY CoilsAre DEF Cuts!Scrap
<1>2. PICK q \in 1..Cuts!Stock(cutRows, c) : cutRows' = Append(cutRows, Cuts!Row(c, "OUT", q, Cuts!Ref("SCRAP", c), 0))
  BY DEF Cuts!Scrap
<1>3. q \in Nat
  OBVIOUS
<1>4. PICK ref : ref = Cuts!Ref("SCRAP", c)
  OBVIOUS
<1>5. ref \in RefType /\ ref.kind = "SCRAP"
  BY <1>1, <1>4, RefIs DEF Kinds
<1>6. PICK row : row = Cuts!Row(c, "OUT", q, ref, 0)
  OBVIOUS
<1>7. RowHolds(row, 1) /\ row.qty = q /\ row.ref = ref
  BY <1>1, <1>5, <1>6 DEF Cuts!Row, RowHolds
<1>8. cutRows' = Append(cutRows, row) /\ row.ref.kind \notin {"SPLIT", "CUTTING"} /\ row.qty \in Nat
  BY <1>2, <1>3, <1>4, <1>5, <1>6, <1>7
<1>. QED
  BY <1>1, <1>7, <1>8, RowComes

LEMMA CloseWhole ==
  ASSUME CutsTyped, Wholes, NEW c \in Cuts!Coils, Cuts!Close(c)
  PROVE  Wholes'
<1>1. c \in Nat /\ UNCHANGED <<splits, sent>>
  BY CoilsAre DEF Cuts!Close
<1>2. PICK stock \in Int : stock = Cuts!Stock(cutRows, c)
  BY CutStockInt DEF Wholes
<1>3. PICK declared \in 0..Cuts!Intake(c) :
        \/ cutRows' = cutRows
        \/ /\ declared < stock
           /\ cutRows' = Append(cutRows, Cuts!Row(c, "OUT", stock - declared, Cuts!Ref("CLOSE_ADJUSTMENT", c), 0))
        \/ /\ declared > stock
           /\ cutRows' = Append(cutRows, Cuts!Row(c, "IN", declared - stock, Cuts!Ref("CLOSE_ADJUSTMENT", c), 0))
  BY <1>2 DEF Cuts!Close
<1>4. declared \in Nat
  OBVIOUS
<1>5. PICK ref : ref = Cuts!Ref("CLOSE_ADJUSTMENT", c)
  OBVIOUS
<1>6. ref \in RefType /\ ref.kind = "CLOSE_ADJUSTMENT"
  BY <1>1, <1>5, RefIs DEF Kinds
<1>7. ASSUME NEW type \in {"IN", "OUT"}, NEW q \in Nat, cutRows' = Append(cutRows, Cuts!Row(c, type, q, ref, 0))
      PROVE  Wholes'
  <2>1. PICK row : row = Cuts!Row(c, type, q, ref, 0)
    OBVIOUS
  <2>2. RowHolds(row, 1) /\ row.qty = q /\ row.ref = ref
    BY <1>1, <1>6, <2>1 DEF Cuts!Row, RowHolds
  <2>3. cutRows' = Append(cutRows, row) /\ row.ref.kind \notin {"SPLIT", "CUTTING"} /\ row.qty \in Nat
    BY <1>6, <1>7, <2>1, <2>2
  <2>. QED
    BY <1>1, <2>2, <2>3, RowComes
<1>8. CASE cutRows' = cutRows
  BY <1>1, <1>8, RowsStay, StillStandsStays
<1>9. declared < stock => stock - declared \in Nat
  BY <1>2, <1>4
<1>10. declared > stock => declared - stock \in Nat
  BY <1>2, <1>4
<1>. QED
  BY <1>3, <1>5, <1>7, <1>8, <1>9, <1>10

LEMMA CancelScrapWhole ==
  ASSUME CutsTyped, Wholes, NEW i \in DOMAIN cutRows, Cuts!CancelScrap(i)
  PROVE  Wholes'
BY RowUndone DEF Cuts!CancelScrap

LEMMA ReopenWhole ==
  ASSUME CutsTyped, Wholes, NEW c, Cuts!Reopen(c)
  PROVE  Wholes'
<1>1. UNCHANGED <<splits, sent>>
  BY DEF Cuts!Reopen
<1>2. CASE cutRows' = cutRows
  BY <1>1, <1>2, RowsStay, StillStandsStays
<1>3. CASE \E i \in Cuts!Adjustment(c) : cutRows' = Append(cutRows, Cuts!Undo(i))
  <2>1. PICK i \in Cuts!Adjustment(c) : cutRows' = Append(cutRows, Cuts!Undo(i))
    BY <1>3
  <2>2. i \in DOMAIN cutRows /\ cutRows[i].ref.kind = "CLOSE_ADJUSTMENT"
    BY DEF Cuts!Adjustment
  <2>. QED
    BY <1>1, <2>1, <2>2, RowUndone
<1>. QED
  BY <1>2, <1>3 DEF Cuts!Reopen

LEMMA AnnulWhole ==
  ASSUME CutsTyped, Wholes, NEW c, Cuts!Annul(c)
  PROVE  Wholes'
<1>1. /\ UNCHANGED <<splits, sent>> /\ Cardinality(Cuts!LiveOf(c)) = 1
      /\ Cuts!Ins(Cuts!LiveOf(c)) = Cuts!LiveOf(c)
      /\ cutRows' = Append(cutRows, Cuts!Undo(CHOOSE i \in Cuts!LiveOf(c) : TRUE))
  BY CardinalityInCuts DEF Cuts!Annul
<1>2. PICK i : i = CHOOSE k \in Cuts!LiveOf(c) : TRUE
  OBVIOUS
<1>3. Cuts!LiveOf(c) # {}
  BY <1>1, FS_EmptySet
<1>4. i \in Cuts!LiveOf(c)
  BY <1>2, <1>3
<1>5. i \in DOMAIN cutRows /\ cutRows[i].type = "IN"
  BY <1>1, <1>4 DEF Cuts!LiveOf, Cuts!Ins
<1>6. cutRows' = Append(cutRows, Cuts!Undo(i))
  BY <1>1, <1>2
<1>. QED
  BY <1>1, <1>5, <1>6, RowUndone

\* A cut is done: its rows are added, and it is the one that stands from now on.
LEMMA CutDoneWhole ==
  ASSUME CutsTyped, Wholes, NEW c \in Cuts!Coils, NEW w \in Nat, NEW weights \in Cuts!CutsOf(w),
         NEW this, IsCut(this), ~StillStands(this), StillStands(this)',
         cutRows' = cutRows \o Cuts!CutRows(c, w, this, weights),
         \A ref : (IsCut(ref) /\ ref # this) => (StillStands(ref)' <=> StillStands(ref))
  PROVE  Wholes'
<1>1. this \in RefType /\ Cuts!LiveBy(this) = {}
  BY DEF IsCut, Wholes, WholeOrNot
<1>2. PICK N : RowsGo({}, N) /\ (\A i \in N : cutRows'[i].ref = this) /\ RowsWeighed' /\ StandsWhole(this)'
  BY <1>1, CutStandsNow DEF Wholes
<1>3. WholeOrNot(this)'
  BY <1>2 DEF WholeOrNot
<1>4. \A ref : ref # this => Untouched(ref, {}, N)
  BY <1>2 DEF Untouched
<1>. QED
  BY <1>2, <1>3, <1>4, WholesKept

LEMMA ReceiveWhole ==
  ASSUME CuttingIInv, Wholes, NEW r \in DOMAIN sent, Cuts!Receive(r)
  PROVE  Wholes'
<1>1. PICK c : c = sent[r].coil
  OBVIOUS
<1>2. PICK ref : ref = Cuts!Ref("CUTTING", r)
  OBVIOUS
<1>3. /\ CutsTyped /\ c \in Cuts!Coils /\ r \in Nat /\ sent[r].status = "SENT"
      /\ sent' = [sent EXCEPT ![r].status = "RECEIVED"] /\ UNCHANGED splits
  BY <1>1, SentIs DEF Cuts!Receive, Cuts!Awaited, CuttingIInv, Places
<1>4. ref \in RefType /\ ref.kind = "CUTTING" /\ ref.id = r
  BY <1>2, <1>3, RefIs DEF Kinds
<1>5. PICK w \in 1..Cuts!Stock(cutRows, c) : \E weights \in Cuts!CutsOf(w) :
        cutRows' = cutRows \o Cuts!CutRows(c, w, ref, weights)
  BY <1>1, <1>2 DEF Cuts!Receive
<1>6. w \in Nat
  OBVIOUS
<1>7. PICK weights \in Cuts!CutsOf(w) : cutRows' = cutRows \o Cuts!CutRows(c, w, ref, weights)
  BY <1>5
<1>8. sent'[r].status = "RECEIVED" /\ DOMAIN sent' = DOMAIN sent /\ \A q \in DOMAIN sent \ {r} : sent'[q] = sent[q]
  <2>1. sent[r] \in SentType
    BY <1>3, SentIs
  <2>2. PICK row : row = [sent[r] EXCEPT !.status = "RECEIVED"]
    OBVIOUS
  <2>3. row.status = "RECEIVED"
    BY <2>1, <2>2 DEF SentType
  <2>4. sent' = [sent EXCEPT ![r] = row]
    BY <1>3, <2>2
  <2>. QED
    BY <2>3, <2>4
<1>9. ~StillStands(ref) /\ StillStands(ref)' /\ IsCut(ref)
  BY <1>3, <1>4, <1>8 DEF StillStands, IsCut
<1>10. ASSUME NEW other, IsCut(other), other # ref PROVE StillStands(other)' <=> StillStands(other)
  <2>1. other.kind # "CUTTING" \/ other.id # r
    BY <1>2, <1>10, RefIs DEF IsCut
  <2>. QED
    BY <1>3, <1>8, <2>1 DEF StillStands
<1>. QED
  BY <1>3, <1>6, <1>7, <1>9, <1>10, CutDoneWhole

LEMMA SplitWhole ==
  ASSUME CuttingIInv, Wholes, NEW c \in Cuts!Coils, Cuts!Split(c)
  PROVE  Wholes'
<1>1. CutsTyped /\ UNCHANGED sent
  BY DEF Cuts!Split, CuttingIInv
<1>2. PICK s \in Nat : s = Len(splits) + 1
  BY <1>1, SentIs
<1>3. PICK ref : ref = Cuts!Ref("SPLIT", s)
  OBVIOUS
<1>4. ref \in RefType /\ ref.kind = "SPLIT" /\ ref.id = s
  BY <1>2, <1>3, RefIs DEF Kinds
<1>5. PICK w \in 1..Cuts!Stock(cutRows, c) : \E weights \in Cuts!CutsOf(w) :
        cutRows' = cutRows \o Cuts!CutRows(c, w, ref, weights)
  BY <1>2, <1>3 DEF Cuts!Split
<1>6. w \in Nat
  OBVIOUS
<1>7. PICK weights \in Cuts!CutsOf(w) : cutRows' = cutRows \o Cuts!CutRows(c, w, ref, weights)
  BY <1>5
<1>8. /\ s \notin DOMAIN splits /\ DOMAIN splits' = DOMAIN splits \cup {s}
      /\ splits'[s].status = "ACTIVE" /\ \A z \in DOMAIN splits : splits'[z] = splits[z]
  <2>1. PICK emptied \in BOOLEAN :
          splits' = Append(splits, [mother |-> c, status |-> "ACTIVE", emptied |-> emptied])
    BY DEF Cuts!Split
  <2>2. PICK row : row = [mother |-> c, status |-> "ACTIVE", emptied |-> emptied]
    OBVIOUS
  <2>3. row \in SplitType /\ row.status = "ACTIVE"
    BY <1>1, <2>2, CoilsAre DEF SplitType
  <2>4. splits \in Seq(SplitType) /\ splits' = Append(splits, row)
    BY <1>1, <2>1, <2>2 DEF CutsTyped
  <2>5. /\ DOMAIN splits' = 1..s /\ DOMAIN splits = 1..(s - 1)
        /\ splits'[s] = row /\ \A z \in 1..(s - 1) : splits'[z] = splits[z]
    BY <1>1, <1>2, <2>3, <2>4, AppendProperties, SentIs, LenProperties
  <2>6. s \notin 1..(s - 1) /\ 1..s = 1..(s - 1) \cup {s}
    BY <1>1, <1>2, SentIs
  <2>. QED
    BY <2>3, <2>5, <2>6, Zenon
<1>9. ~StillStands(ref) /\ StillStands(ref)' /\ IsCut(ref)
  BY <1>4, <1>8 DEF StillStands, IsCut
<1>10. ASSUME NEW other, IsCut(other), other # ref PROVE StillStands(other)' <=> StillStands(other)
  <2>1. other.kind # "SPLIT" \/ other.id # s
    BY <1>3, <1>10, RefIs DEF IsCut
  <2>. QED
    BY <1>1, <1>8, <2>1 DEF StillStands
<1>. QED
  BY <1>1, <1>6, <1>7, <1>9, <1>10, CutDoneWhole

\* A cut is undone: all its rows are, and of the others none.
LEMMA CutUndoneWhole ==
  ASSUME CutsTyped, Wholes, NEW this, ~StillStands(this)',
         cutRows' = cutRows \o Cuts!UndoAll(SetToSeq(Cuts!Ins(Cuts!LiveBy(this))) \o SetToSeq(Cuts!Outs(Cuts!LiveBy(this)))),
         \A ref : (IsCut(ref) /\ ref # this) => (StillStands(ref)' <=> StillStands(ref))
  PROVE  Wholes'
<1>1. RowsGo(Cuts!LiveBy(this), {})
  BY CutUndone
<1>2. RowsWeighed'
  <2>1. PICK ins, outs : ins = Cuts!Ins(Cuts!LiveBy(this)) /\ outs = Cuts!Outs(Cuts!LiveBy(this))
    OBVIOUS
  <2>2. ins \in SUBSET DOMAIN cutRows /\ outs \in SUBSET DOMAIN cutRows
    BY <2>1 DEF Cuts!Ins, Cuts!Outs, Cuts!LiveBy
  <2>3. IsFiniteSet(ins) /\ IsFiniteSet(outs)
    BY <2>2, RowsFinite
  <2>4. PICK a, b : a = SetToSeq(ins) /\ b = SetToSeq(outs)
    OBVIOUS
  <2>5. /\ IsSeq(a) /\ \A k \in DOMAIN a : a[k] \in ins
        /\ IsSeq(b) /\ \A k \in DOMAIN b : b[k] \in outs
    BY <2>3, <2>4, SetToSeqIs
  <2>6. PICK q : q = a \o b
    OBVIOUS
  <2>7. Joins(q, a, b)
    BY <2>5, <2>6, Joined
  <2>8. IsSeq(q) /\ \A k \in DOMAIN q : q[k] \in DOMAIN cutRows
    BY <2>2, <2>5, <2>7 DEF Joins
  <2>9. cutRows' = cutRows \o Cuts!UndoAll(q)
    BY <2>1, <2>4, <2>6
  <2>. QED
    BY <2>8, <2>9, UndoneWeighed DEF Wholes
<1>3. WholeOrNot(this)'
  <2>1. Cuts!LiveBy(this)' = {}
    BY <1>1, LiveByGoes
  <2>. QED
    BY <2>1 DEF WholeOrNot
<1>4. \A ref : ref # this => Untouched(ref, Cuts!LiveBy(this), {})
  BY DEF Untouched, Cuts!LiveBy
<1>. QED
  BY <1>1, <1>2, <1>3, <1>4, WholesKept

LEMMA ReverseReceptionWhole ==
  ASSUME CutsTyped, Wholes, NEW r \in DOMAIN sent, Cuts!ReverseReception(r)
  PROVE  Wholes'
<1>1. PICK ref : ref = Cuts!Ref("CUTTING", r)
  OBVIOUS
<1>2. r \in Nat /\ sent' = [sent EXCEPT ![r].status = "SENT"] /\ UNCHANGED splits
  BY SentIs DEF Cuts!ReverseReception
<1>3. ref \in RefType /\ ref.kind = "CUTTING" /\ ref.id = r
  BY <1>1, <1>2, RefIs DEF Kinds
<1>4. cutRows' = cutRows \o Cuts!UndoAll(SetToSeq(Cuts!Ins(Cuts!LiveBy(ref))) \o SetToSeq(Cuts!Outs(Cuts!LiveBy(ref))))
  BY <1>1, SetToSeqInCuts DEF Cuts!ReverseReception
<1>5. sent'[r].status = "SENT" /\ DOMAIN sent' = DOMAIN sent /\ \A q \in DOMAIN sent \ {r} : sent'[q] = sent[q]
  <2>1. sent[r] \in SentType
    BY SentIs
  <2>2. PICK row : row = [sent[r] EXCEPT !.status = "SENT"]
    OBVIOUS
  <2>3. row.status = "SENT"
    BY <2>1, <2>2 DEF SentType
  <2>4. sent' = [sent EXCEPT ![r] = row]
    BY <1>2, <2>2
  <2>. QED
    BY <2>3, <2>4
<1>6. ~StillStands(ref)'
  BY <1>3, <1>5 DEF StillStands
<1>7. ASSUME NEW other, IsCut(other), other # ref PROVE StillStands(other)' <=> StillStands(other)
  <2>1. other.kind # "CUTTING" \/ other.id # r
    BY <1>1, <1>7, RefIs DEF IsCut
  <2>. QED
    BY <1>2, <1>5, <2>1 DEF StillStands
<1>. QED
  BY <1>4, <1>6, <1>7, CutUndoneWhole

LEMMA RevertSplitWhole ==
  ASSUME CutsTyped, Wholes, NEW s \in DOMAIN splits, Cuts!RevertSplit(s)
  PROVE  Wholes'
<1>1. PICK ref : ref = Cuts!Ref("SPLIT", s)
  OBVIOUS
<1>2. s \in Nat /\ splits' = [splits EXCEPT ![s].status = "REVERTED"] /\ UNCHANGED sent
  BY SentIs DEF Cuts!RevertSplit
<1>3. ref \in RefType /\ ref.kind = "SPLIT" /\ ref.id = s
  BY <1>1, <1>2, RefIs DEF Kinds
<1>4. cutRows' = cutRows \o Cuts!UndoAll(SetToSeq(Cuts!Ins(Cuts!LiveBy(ref))) \o SetToSeq(Cuts!Outs(Cuts!LiveBy(ref))))
  BY <1>1, SetToSeqInCuts DEF Cuts!RevertSplit
<1>5. /\ splits'[s].status = "REVERTED" /\ DOMAIN splits' = DOMAIN splits
      /\ \A z \in DOMAIN splits \ {s} : splits'[z] = splits[z]
  <2>1. splits[s] \in SplitType
    BY SentIs
  <2>2. PICK row : row = [splits[s] EXCEPT !.status = "REVERTED"]
    OBVIOUS
  <2>3. row.status = "REVERTED"
    BY <2>1, <2>2 DEF SplitType
  <2>4. splits' = [splits EXCEPT ![s] = row]
    BY <1>2, <2>2
  <2>. QED
    BY <2>3, <2>4
<1>6. ~StillStands(ref)'
  BY <1>3, <1>5 DEF StillStands
<1>7. ASSUME NEW other, IsCut(other), other # ref PROVE StillStands(other)' <=> StillStands(other)
  <2>1. other.kind # "SPLIT" \/ other.id # s
    BY <1>1, <1>7, RefIs DEF IsCut
  <2>. QED
    BY <1>2, <1>5, <2>1 DEF StillStands
<1>. QED
  BY <1>4, <1>6, <1>7, CutUndoneWhole

LEMMA WholesInit ==
  ASSUME Cuts!CuttingAssumption, Cuts!Init
  PROVE  Wholes
<1>1. splits = <<>> /\ sent = <<>> /\ Weight \in Nat
  BY DEF Cuts!CuttingAssumption, Cuts!Init
<1>2. \A i \in DOMAIN cutRows : cutRows[i].ref = Cuts!Purchase /\ cutRows[i].qty = Weight
  BY DEF Cuts!Init, Cuts!Row
<1>3. ASSUME NEW ref, IsCut(ref) PROVE WholeOrNot(ref)
  <2>1. ref # Cuts!Purchase
    BY <1>3 DEF IsCut, Cuts!Purchase, Cuts!Ref
  <2>2. Cuts!LiveBy(ref) = {}
    BY <1>2, <2>1 DEF Cuts!LiveBy
  <2>3. ~StillStands(ref)
    BY <1>1 DEF StillStands
  <2>. QED
    BY <2>2, <2>3 DEF WholeOrNot
<1>. QED
  BY <1>1, <1>2, <1>3 DEF Wholes, RowsWeighed

LEMMA WholesStep ==
  ASSUME CuttingIInv, Wholes, [Cuts!Next]_(Cuts!vars)
  PROVE  Wholes'
<1>1. CutsTyped
  BY DEF CuttingIInv
<1>2. CASE UNCHANGED Cuts!vars
  <2>1. UNCHANGED <<cutRows, splits, sent>>
    BY <1>2 DEF Cuts!vars
  <2>. QED
    BY <1>1, <2>1, RowsStay, StillStandsStays
<1>3. ASSUME NEW S \in SUBSET Cuts!Coils, Cuts!Send(S)
      PROVE  Wholes'
  BY <1>1, <1>3, SendWhole
<1>4. ASSUME NEW r \in DOMAIN sent, Cuts!Receive(r) \/ Cuts!ReverseReception(r) \/ Cuts!Cancel(r)
      PROVE  Wholes'
  BY <1>1, <1>4, ReceiveWhole, ReverseReceptionWhole, CancelWhole
<1>5. ASSUME NEW s \in DOMAIN splits, Cuts!RevertSplit(s)
      PROVE  Wholes'
  BY <1>1, <1>5, RevertSplitWhole
<1>6. ASSUME NEW i \in DOMAIN cutRows, Cuts!CancelScrap(i)
      PROVE  Wholes'
  BY <1>1, <1>6, CancelScrapWhole
<1>7. ASSUME NEW c \in Cuts!Coils,
             \/ Cuts!Split(c) \/ Cuts!Scrap(c) \/ Cuts!Close(c) \/ Cuts!Reopen(c) \/ Cuts!OpenFilm(c) \/ Cuts!Reseal(c)
             \/ Cuts!Mount(c) \/ Cuts!Release(c) \/ Cuts!Annul(c)
      PROVE  Wholes'
  BY <1>1, <1>7, SplitWhole, ScrapWhole, CloseWhole, ReopenWhole, OtherSteps, AnnulWhole
<1>. QED
  BY <1>2, <1>3, <1>4, <1>5, <1>6, <1>7 DEF Cuts!Next

-----------------------------------------------------------------------------
(* Theorems.                                                                *)

\* Every state keeps each coil in its place, with the entry it was born with and the
\* operation that terminated it.  The services of coils, splits and cutting orders
\* (coil-operations, coil-split, cutting) agree on it as long as nobody reverts a
\* split whose child is at the cutter: then the child is annulled there.
THEOREM CuttingInvariant ==
  ASSUME Cuts!CuttingAssumption, ChildrenAtHome
  PROVE  Cuts!Spec => []CuttingIInv
<1>1. Cuts!Init => CuttingIInv
  BY InitHolds
<1>2. CuttingIInv /\ [Cuts!Next]_(Cuts!vars) => CuttingIInv'
  BY Inductive
<1>. QED
  BY <1>1, <1>2, PTL DEF Cuts!Spec

\* A coil is in one place: it is IN_THIRD_PARTY exactly when one cutting order, and
\* no more, says that it sent it and waits for it, and a strip that a production
\* order mounted is open, so at no cutter and not annulled.
THEOREM CoilsAreInOnePlace ==
  ASSUME Cuts!CuttingAssumption, ChildrenAtHome
  PROVE  Cuts!Spec => []Cuts!OneCustodian
<1>1. ASSUME CuttingIInv
      PROVE  Cuts!OneCustodian
  <2>1. ASSUME NEW c \in Cuts!Coils
        PROVE  Cardinality(Cuts!Sent(c)) = IF coil[c].status = "IN_THIRD_PARTY" THEN 1 ELSE 0
    <3>1. PlaceOf(c)
      BY <1>1 DEF CuttingIInv, Places
    <3>2. CASE coil[c].status = "IN_THIRD_PARTY"
      <4>1. PICK r : Cuts!Sent(c) = {r}
        BY <3>1, <3>2 DEF PlaceOf
      <4>. QED
        BY <3>2, <4>1, FS_Singleton
    <3>3. CASE coil[c].status # "IN_THIRD_PARTY"
      BY <3>1, <3>3, FS_EmptySet DEF PlaceOf
    <3>. QED
      BY <3>2, <3>3
  <2>2. ASSUME NEW c \in mounted
        PROVE  coil[c].status = "OPEN"
    BY <1>1 DEF CuttingIInv, Places, PlaceOf
  <2>. QED
    BY <2>1, <2>2, CardinalityInCuts DEF Cuts!OneCustodian
<1>. QED
  BY <1>1, CuttingInvariant, PTL

\* A coil is CANCELLED when the row it entered with was undone, and only then: what
\* a cutter or an order has is never annulled, and no reversal brings back what was.
THEOREM EntriesStand ==
  ASSUME Cuts!CuttingAssumption, ChildrenAtHome
  PROVE  Cuts!Spec => []Cuts!EntryHolds
<1>1. CuttingIInv => Cuts!EntryHolds
  BY DEF CuttingIInv, Entries, Cuts!EntryHolds, Cuts!EntryStands
<1>. QED
  BY <1>1, CuttingInvariant, PTL

\* The split, the reception or the scrap that emptied a terminated coil still
\* stands: whoever undoes it opens the coil in the same step.
THEOREM ClosingsStand ==
  ASSUME Cuts!CuttingAssumption, ChildrenAtHome
  PROVE  Cuts!Spec => []Cuts!ClosedByStands
<1>1. CuttingIInv => Cuts!ClosedByStands
  BY DEF CuttingIInv, Terminations, Stands, Cuts!ClosedByStands
<1>. QED
  BY <1>1, CuttingInvariant, PTL

\* A reception, or a split, stands whole or is undone whole, however many times it was
\* received and reversed: as long as it stands, one row took its kilos from the mother
\* and its pieces have no more than those, and once it is undone no row of it is left.
THEOREM CutsAreWhole ==
  ASSUME Cuts!CuttingAssumption, ChildrenAtHome
  PROVE  Cuts!Spec => []Cuts!CutIsWhole
<1>1. Cuts!Init => Wholes
  BY WholesInit
<1>2. CuttingIInv /\ Wholes /\ [Cuts!Next]_(Cuts!vars) => Wholes'
  BY WholesStep
<1>3. ASSUME CuttingIInv, Wholes
      PROVE  Cuts!CutIsWhole
  <2>1. CutsTyped
    BY <1>3 DEF CuttingIInv
  <2>2. ASSUME NEW ref, IsCut(ref)
        PROVE  /\ Cardinality(Cuts!Outs(Cuts!LiveBy(ref))) = IF StillStands(ref) THEN 1 ELSE 0
               /\ Cuts!QtyOf(cutRows, Cuts!Ins(Cuts!LiveBy(ref))) <= Cuts!QtyOf(cutRows, Cuts!Outs(Cuts!LiveBy(ref)))
    <3>1. CASE StillStands(ref)
      <4>1. StandsWhole(ref)
        BY <1>3, <2>2, <3>1 DEF Wholes, WholeOrNot
      <4>2. Cardinality(Cuts!Outs(Cuts!LiveBy(ref))) = 1
        BY <4>1, FS_Singleton DEF StandsWhole
      <4>. QED
        BY <3>1, <4>1, <4>2 DEF StandsWhole
    <3>2. CASE ~StillStands(ref)
      <4>1. Cuts!LiveBy(ref) = {}
        BY <1>3, <2>2, <3>2 DEF Wholes, WholeOrNot
      <4>2. Cuts!Outs(Cuts!LiveBy(ref)) = {} /\ Cuts!Ins(Cuts!LiveBy(ref)) = {}
        BY <4>1 DEF Cuts!Outs, Cuts!Ins
      <4>. QED
        BY <3>2, <4>2, CutQtyNone, FS_EmptySet
    <3>. QED
      BY <3>1, <3>2
  <2>3. ASSUME NEW r \in DOMAIN sent
        PROVE  IsCut(Cuts!Ref("CUTTING", r)) /\ (StillStands(Cuts!Ref("CUTTING", r)) <=> sent[r].status = "RECEIVED")
    <3>1. PICK ref : ref = Cuts!Ref("CUTTING", r)
      OBVIOUS
    <3>2. ref \in RefType /\ ref.kind = "CUTTING" /\ ref.id = r
      BY <2>1, <3>1, SentIs, RefIs DEF Kinds
    <3>. QED
      BY <3>1, <3>2 DEF IsCut, StillStands
  <2>4. ASSUME NEW s \in DOMAIN splits
        PROVE  IsCut(Cuts!Ref("SPLIT", s)) /\ (StillStands(Cuts!Ref("SPLIT", s)) <=> splits[s].status = "ACTIVE")
    <3>1. PICK ref : ref = Cuts!Ref("SPLIT", s)
      OBVIOUS
    <3>2. ref \in RefType /\ ref.kind = "SPLIT" /\ ref.id = s
      BY <2>1, <3>1, SentIs, RefIs DEF Kinds
    <3>. QED
      BY <3>1, <3>2 DEF IsCut, StillStands
  <2>. QED
    BY <2>2, <2>3, <2>4, CardinalityInCuts DEF Cuts!CutIsWhole
<1>. QED
  BY <1>1, <1>2, <1>3, CuttingInvariant, PTL DEF Cuts!Spec

=============================================================================
