---------------------------- MODULE PromisesProofs ----------------------------
(* Proofs about the reservation ledger, for any number of transactions, coils,  *)
(* products, aggregates that overlap, lines and kilos.                          *)
(*                                                                              *)
(* An operation reads and writes at one place: an item with the lines that      *)
(* promise it, or a line that promises an aggregate.  What an aggregate has     *)
(* available is a sum to which each place adds its share (AvailableMoves), so   *)
(* that two stocks that differ at one place differ by its share.                *)
(*                                                                              *)
(* The invariant says three things.  The committed stock is good: every item    *)
(* and every aggregate covers what is promised of it.  What a transaction asked *)
(* about is still so, and once it has written, its write is the one it would    *)
(* make now and leaves the stock good.  Two transactions hold no row in common, *)
(* and two that have written do not both take from one aggregate that somebody  *)
(* was promised.  Of two such writes one at most lowers the share of its place  *)
(* in an aggregate, so that either can commit after the other (Together).       *)
(*                                                                              *)
(* All of it assumes Quiet: no coil enters an aggregate while a transaction is  *)
(* promising it.  Without it the invariant fails and so does Covered, as        *)
(* Promises_arrival shows.                                                      *)
(*                                                                              *)
(* A value that a lemma takes by name is picked (PICK x : x = ...), so that the *)
(* provers see a name and not the expression.                                   *)
EXTENDS Promises, Lemmas

-----------------------------------------------------------------------------
(* What the stock has available, place by place.                                *)
\* Where the operations meet: an item, with the lines that promise it; or a line that
\* promises an aggregate, of which nothing else depends.
PlaceOf(h) == IF For[h] \in Specs THEN h ELSE For[h]
Places == Items \cup {h \in Holders : For[h] \in Specs}

DbType ==
  [status : [Coils -> StatusType], kg : [Items -> 0..MaxKg],
   liquidated : [Coils -> (-MaxKg)..MaxKg], promises : [Holders -> PromiseType]]

\* The coils that count for an aggregate, and what a place adds to what it has available.
Counted(d, s) == {c \in Candidates(d, s) : d.kg[c] > 0}
Share(d, s, x) ==
  IF x \in Counted(d, s) THEN ItemAvailable(d, x)
  ELSE IF x \in Active(d, s) THEN 0 - d.promises[x].qty ELSE 0

\* Two stocks are alike at a place, or but for one.
Alike(d, e, x) ==
  /\ x \in Items => e.kg[x] = d.kg[x]
  /\ x \in Coils => e.status[x] = d.status[x] /\ e.liquidated[x] = d.liquidated[x]
  /\ \A h \in Holders : PlaceOf(h) = x => e.promises[h] = d.promises[h]
Differ(d, e, x) == \A y \in Places \ {x} : Alike(d, e, y)

\* A promise that was delivered is of an item, and not a temporary one.
FinePromise(h, p) ==
  /\ p.sent > 0 => /\ h \notin Temporary /\ For[h] \in Items
                   /\ p.state \in {"ACTIVE", "CONSUMED", "RELEASED"}
  /\ p.state = "CONSUMED" => p.qty = 0
  /\ p.state = "EXPIRED" => h \in Temporary

\* A closing can be undone within the bound; of a coil that is to come nothing is known.
FineCoil(d, c) ==
  /\ d.kg[c] + d.liquidated[c] \in 0..MaxKg
  /\ d.status[c] = "ABSENT" =>
       /\ d.kg[c] = 0 /\ d.liquidated[c] = 0
       /\ \A h \in Holders : For[h] = c =>
            d.promises[h].state = "NONE" /\ d.promises[h].sent = 0

Fine(d, x) ==
  /\ x \in Items => ItemAvailable(d, x) >= 0
  /\ x \in Coils => FineCoil(d, x)
  /\ \A h \in Holders : PlaceOf(h) = x => FinePromise(h, d.promises[h])

Good(d) ==
  /\ d \in DbType
  /\ \A x \in Places : Fine(d, x)
  /\ \A s \in Specs : Available(d, s) >= 0
-----------------------------------------------------------------------------
(* What is promised.                                                        *)

LEMMA ActiveFinite ==
  ASSUME AvailabilityAssumption, NEW d, NEW x
  PROVE  IsFiniteSet(Active(d, x)) /\ Active(d, x) \subseteq Holders
BY FS_Subset DEF Active, AvailabilityAssumption

LEMMA ReservedNat ==
  ASSUME AvailabilityAssumption, NEW d \in DbType, NEW x
  PROVE  Reserved(d, x) \in Nat
<1> DEFINE f == [h \in Holders |-> d.promises[h].qty]
<1>1. \A h \in Active(d, x) : f[h] \in Nat
  BY ActiveFinite DEF DbType, PromiseType, AvailabilityAssumption
<1>2. SumFunctionOnSet(f, Active(d, x)) \in Nat
  <2> HIDE DEF f
  <2> QED BY <1>1, ActiveFinite, SumNat
<1> QED BY <1>2 DEF Reserved

PromiseFor(d, h, x) == IF h \in Active(d, x) THEN d.promises[h].qty ELSE 0

\* One line changes what it promises.
LEMMA ReservedMoves ==
  ASSUME AvailabilityAssumption, NEW d \in DbType, NEW e \in DbType, NEW h \in Holders,
         \A g \in Holders \ {h} : e.promises[g] = d.promises[g], NEW x
  PROVE  Reserved(e, x) = Reserved(d, x) - PromiseFor(d, h, x) + PromiseFor(e, h, x)
<1> DEFINE f == [g \in Holders |-> d.promises[g].qty]
           k == [g \in Holders |-> e.promises[g].qty]
           A == Active(d, x)
           B == Active(e, x)
<1>1. A \ {h} = B \ {h} BY DEF Active
<1>2. (\A g \in A : f[g] \in Int) /\ (\A g \in B : k[g] \in Int)
  BY ActiveFinite DEF DbType, PromiseType, AvailabilityAssumption
<1>3. \A g \in A \ {h} : f[g] = k[g] BY ActiveFinite
<1>4. SumFunctionOnSet(k, B) = SumFunctionOnSet(f, A) - (IF h \in A THEN f[h] ELSE 0)
                                                      + (IF h \in B THEN k[h] ELSE 0)
  <2> HIDE DEF f, k
  <2> QED BY <1>1, <1>2, <1>3, ActiveFinite, SumChanges
<1>5. f[h] = d.promises[h].qty /\ k[h] = e.promises[h].qty OBVIOUS
<1> QED BY <1>4, <1>5 DEF Reserved, PromiseFor

\* The lines of x promise the same.
LEMMA ReservedSame ==
  ASSUME AvailabilityAssumption, NEW d, NEW e, NEW x,
         \A h \in Holders : For[h] = x => e.promises[h] = d.promises[h]
  PROVE  Reserved(e, x) = Reserved(d, x)
<1> DEFINE f == [g \in Holders |-> d.promises[g].qty]
           k == [g \in Holders |-> e.promises[g].qty]
<1>1. Active(e, x) = Active(d, x) BY DEF Active
<1>2. \A g \in Active(d, x) : k[g] = f[g] BY DEF Active
<1>3. SumFunctionOnSet(k, Active(d, x)) = SumFunctionOnSet(f, Active(d, x))
  <2> HIDE DEF f, k
  <2> QED BY <1>2, ActiveFinite, SumSame
<1> QED BY <1>1, <1>3 DEF Reserved

\* Nothing is promised of what nobody promises.
LEMMA ReservedNone ==
  ASSUME NEW d, NEW x, Active(d, x) = {}
  PROVE  Reserved(d, x) = 0
BY SumEmpty DEF Reserved

-----------------------------------------------------------------------------
(* What is left to promise.                                                 *)

LEMMA PlaceIsOne ==
  ASSUME AvailabilityAssumption
  PROVE  /\ \A h \in Holders : PlaceOf(h) \in Places /\ (For[h] \in Items => PlaceOf(h) = For[h])
                               /\ (For[h] \in Specs => PlaceOf(h) = h) /\ For[h] \in Items \cup Specs
         /\ \A x \in Places : (x \in Items /\ x \notin Holders /\ x \notin Specs)
                              \/ (x \in Holders /\ x \notin Items /\ For[x] \in Specs /\ PlaceOf(x) = x)
         /\ Items \subseteq Places
BY DEF AvailabilityAssumption, PlaceOf, Places

LEMMA AvailableOf ==
  ASSUME AvailabilityAssumption, NEW d \in DbType, NEW i \in Items
  PROVE  ItemAvailable(d, i) \in Int /\ ItemAvailable(d, i) = d.kg[i] - Reserved(d, i) /\ d.kg[i] \in Nat
<1>1. d.kg[i] \in Nat BY DEF DbType, AvailabilityAssumption
<1>2. Reserved(d, i) \in Nat BY ReservedNat
<1> QED BY <1>1, <1>2 DEF ItemAvailable

Left(d, s) == [c \in Counted(d, s) |-> ItemAvailable(d, c)]

LEMMA CountedCoils ==
  ASSUME AvailabilityAssumption, NEW d \in DbType, NEW s \in Specs
  PROVE  /\ IsFiniteSet(Counted(d, s)) /\ Counted(d, s) \subseteq Coils
         /\ \A c \in Counted(d, s) : Left(d, s)[c] = ItemAvailable(d, c) /\ Left(d, s)[c] \in Int
         /\ SumFunctionOnSet(Left(d, s), Counted(d, s)) \in Int
<1>1. Counted(d, s) \subseteq Coils BY DEF Counted, Candidates, AvailabilityAssumption
<1>2. IsFiniteSet(Counted(d, s)) BY <1>1, FS_Subset DEF AvailabilityAssumption
<1>3. \A c \in Counted(d, s) : Left(d, s)[c] = ItemAvailable(d, c) /\ Left(d, s)[c] \in Int
  BY <1>1, AvailableOf DEF Left, Items
<1> QED BY <1>1, <1>2, <1>3, SumInt

LEMMA AvailableIs ==
  ASSUME AvailabilityAssumption, NEW d \in DbType, NEW s \in Specs
  PROVE  /\ Available(d, s) = SumFunctionOnSet(Left(d, s), Counted(d, s)) - Reserved(d, s)
         /\ Available(d, s) \in Int
<1>1. Available(d, s) = SumFunctionOnSet(Left(d, s), Counted(d, s)) - Reserved(d, s)
  BY DEF Available, Left, Counted
<1>2. Reserved(d, s) \in Nat BY ReservedNat
<1> QED BY <1>1, <1>2, CountedCoils

LEMMA AvailableNat ==
  ASSUME AvailabilityAssumption, NEW d \in DbType, NEW s \in Specs, Reserved(d, s) = 0,
         \A c \in Coils : ItemAvailable(d, c) >= 0
  PROVE  Available(d, s) >= 0
<1>1. \A c \in Counted(d, s) : Left(d, s)[c] \in Nat BY CountedCoils
<1>2. SumFunctionOnSet(Left(d, s), Counted(d, s)) \in Nat BY <1>1, CountedCoils, SumNat
<1> QED BY <1>2, AvailableIs

LEMMA AvailableMoves ==
  ASSUME AvailabilityAssumption, NEW d \in DbType, NEW e \in DbType, NEW x \in Places,
         Differ(d, e, x), NEW s \in Specs
  PROVE  /\ Available(e, s) = Available(d, s) - Share(d, s, x) + Share(e, s, x)
         /\ Share(d, s, x) \in Int /\ Share(e, s, x) \in Int
<1> DEFINE A == Counted(d, s)
           B == Counted(e, s)
           f == Left(d, s)
           g == Left(e, s)
<1>1. \A c \in Coils \ {x} : ItemAvailable(e, c) = ItemAvailable(d, c)
                             /\ e.status[c] = d.status[c] /\ e.kg[c] = d.kg[c]
  <2> TAKE c \in Coils \ {x}
  <2>1. Alike(d, e, c) BY DEF Differ, Places, Items
  <2>2. \A h \in Holders : For[h] = c => e.promises[h] = d.promises[h]
    BY <2>1, PlaceIsOne DEF Alike, Items
  <2>3. Reserved(e, c) = Reserved(d, c) BY <2>2, ReservedSame
  <2> QED BY <2>1, <2>3 DEF Alike, Items, ItemAvailable
<1>2. A \ {x} = B \ {x} BY <1>1 DEF Counted, Candidates, AvailabilityAssumption
<1>3. \A c \in A \ {x} : f[c] = g[c]
  <2> TAKE c \in A \ {x}
  <2>1. c \in B /\ c \in Coils BY <1>2, CountedCoils
  <2> QED BY <1>1, <2>1, CountedCoils
<1>4. SumFunctionOnSet(g, B) = SumFunctionOnSet(f, A) - (IF x \in A THEN f[x] ELSE 0)
                                                      + (IF x \in B THEN g[x] ELSE 0)
  <2> HIDE DEF A, B, f, g
  <2>1. IsFiniteSet(A) /\ IsFiniteSet(B) /\ (\A y \in A : f[y] \in Int) /\ (\A y \in B : g[y] \in Int)
    BY CountedCoils DEF A, B, f, g
  <2> QED BY <1>2, <1>3, <2>1, SumChanges
<1>5. CASE x \in Items
  <2>1. \A h \in Holders : For[h] = s => e.promises[h] = d.promises[h]
    BY <1>5, PlaceIsOne DEF Differ, Alike
  <2>2. Reserved(e, s) = Reserved(d, s) BY <2>1, ReservedSame
  <2>3. CASE x \in Coils
    <3>1. /\ Share(d, s, x) = IF x \in A THEN f[x] ELSE 0
          /\ Share(e, s, x) = IF x \in B THEN g[x] ELSE 0
      BY <1>5, <2>3, PlaceIsOne, ActiveFinite, CountedCoils DEF Share
    <3>2. (x \in A => f[x] \in Int) /\ (x \in B => g[x] \in Int) BY CountedCoils
    <3>3. Reserved(d, s) \in Nat /\ SumFunctionOnSet(f, A) \in Int /\ SumFunctionOnSet(g, B) \in Int
      BY CountedCoils, ReservedNat
    <3>4. /\ Available(d, s) = SumFunctionOnSet(f, A) - Reserved(d, s)
          /\ Available(e, s) = SumFunctionOnSet(g, B) - Reserved(e, s) BY AvailableIs
    <3> HIDE DEF A, B, f, g
    <3> QED BY <1>4, <2>2, <3>1, <3>2, <3>3, <3>4
  <2>4. CASE x \notin Coils
    <3>1. x \in Products /\ x \notin Holders BY <1>5, <2>4, PlaceIsOne DEF Items
    <3>2. x \notin A /\ x \notin B BY <2>4, CountedCoils
    <3>3. Share(d, s, x) = 0 /\ Share(e, s, x) = 0 BY <3>1, <3>2, ActiveFinite DEF Share
    <3>4. Reserved(d, s) \in Nat /\ SumFunctionOnSet(f, A) \in Int BY CountedCoils, ReservedNat
    <3>5. /\ Available(d, s) = SumFunctionOnSet(f, A) - Reserved(d, s)
          /\ Available(e, s) = SumFunctionOnSet(g, B) - Reserved(e, s) BY AvailableIs
    <3> HIDE DEF A, B, f, g
    <3> QED BY <1>4, <2>2, <3>3, <3>2, <3>4, <3>5
  <2> QED BY <2>3, <2>4
<1>6. CASE x \notin Items
  <2>1. x \in Holders /\ x \notin Coils /\ x \notin Products BY <1>6, PlaceIsOne DEF Items
  <2>2. \A h \in Holders \ {x} : e.promises[h] = d.promises[h]
    BY <2>1, <1>6, PlaceIsOne DEF Differ, Alike
  <2>3. Reserved(e, s) = Reserved(d, s) - PromiseFor(d, x, s) + PromiseFor(e, x, s)
    BY <2>1, <2>2, ReservedMoves
  <2>4. x \notin A /\ x \notin B BY <2>1, CountedCoils
  <2>5. /\ PromiseFor(d, x, s) \in Int /\ PromiseFor(e, x, s) \in Int
        /\ Share(d, s, x) = 0 - PromiseFor(d, x, s) /\ Share(e, s, x) = 0 - PromiseFor(e, x, s)
    <3>1. d.promises[x].qty \in Int /\ e.promises[x].qty \in Int
      BY <2>1 DEF DbType, PromiseType, AvailabilityAssumption
    <3> QED BY <2>4, <3>1 DEF Share, PromiseFor
  <2>6. Reserved(d, s) \in Nat /\ SumFunctionOnSet(f, A) \in Int BY CountedCoils, ReservedNat
  <2>7. /\ Available(d, s) = SumFunctionOnSet(f, A) - Reserved(d, s)
        /\ Available(e, s) = SumFunctionOnSet(g, B) - Reserved(e, s) BY AvailableIs
  <2> HIDE DEF A, B, f, g
  <2> QED BY <1>4, <2>3, <2>5, <2>4, <2>6, <2>7
<1> QED BY <1>5, <1>6
-----------------------------------------------------------------------------
(* Places that are alike, and two operations at two places.                 *)

LEMMA AlikeReserved ==
  ASSUME AvailabilityAssumption, NEW d, NEW e, NEW i \in Items, Alike(d, e, i)
  PROVE  Reserved(e, i) = Reserved(d, i) /\ ItemAvailable(e, i) = ItemAvailable(d, i)
<1>1. \A h \in Holders : For[h] = i => e.promises[h] = d.promises[h] BY PlaceIsOne DEF Alike
<1>2. Reserved(e, i) = Reserved(d, i) BY <1>1, ReservedSame
<1> QED BY <1>2 DEF Alike, ItemAvailable

LEMMA AlikeIsFine ==
  ASSUME AvailabilityAssumption, NEW d, NEW e, NEW x \in Places, Alike(d, e, x), Fine(d, x)
  PROVE  Fine(e, x)
<1>1. x \in Items => ItemAvailable(e, x) >= 0 BY AlikeReserved DEF Fine
<1>2. x \in Coils => FineCoil(e, x)
  BY PlaceIsOne DEF Fine, FineCoil, Alike, Items
<1>3. \A h \in Holders : PlaceOf(h) = x => FinePromise(h, e.promises[h]) BY DEF Fine, Alike
<1> QED BY <1>1, <1>2, <1>3 DEF Fine

LEMMA AlikeShares ==
  ASSUME AvailabilityAssumption, NEW d, NEW e, NEW x \in Places, Alike(d, e, x), NEW s \in Specs
  PROVE  Share(e, s, x) = Share(d, s, x)
<1>1. CASE x \in Items
  <2>1. ItemAvailable(e, x) = ItemAvailable(d, x) BY <1>1, AlikeReserved
  <2>2. x \in Counted(e, s) <=> x \in Counted(d, s)
    BY <1>1 DEF Counted, Candidates, Alike, AvailabilityAssumption
  <2>3. x \notin Holders BY <1>1, PlaceIsOne
  <2> QED BY <2>1, <2>2, <2>3 DEF Share, Active
<1>2. CASE x \notin Items
  <2>1. e.promises[x] = d.promises[x] BY <1>2, PlaceIsOne DEF Alike
  <2>2. x \notin Counted(e, s) /\ x \notin Counted(d, s)
    BY <1>2 DEF Counted, Candidates, AvailabilityAssumption, Items
  <2> QED BY <2>1, <2>2 DEF Share, Active
<1> QED BY <1>1, <1>2

\* An item takes nothing from an aggregate.
LEMMA ItemShares ==
  ASSUME AvailabilityAssumption, NEW d \in DbType, NEW i \in Items, Fine(d, i), NEW s \in Specs
  PROVE  Share(d, s, i) >= 0 /\ (i \notin Counted(d, s) => Share(d, s, i) = 0)
<1>1. ItemAvailable(d, i) \in Int BY AvailableOf
<1>2. i \notin Holders /\ i \in Places BY PlaceIsOne
<1>3. i \notin Active(d, s) BY <1>2 DEF Active
<1> QED BY <1>1, <1>3 DEF Fine, Share

\* An operation at x and one at y, none of which leaves an aggregate short, do not
\* together, if one of them at most takes from each.
LEMMA Together ==
  ASSUME AvailabilityAssumption, NEW d, NEW a, NEW b, NEW ab, ab \in DbType,
         NEW x \in Places, NEW y \in Places, x # y,
         Differ(d, a, x), Differ(d, b, y), Differ(a, ab, y), Differ(b, ab, x),
         Good(d), Good(a), Good(b),
         \A s \in Specs : \/ Share(a, s, x) >= Share(d, s, x)
                          \/ Share(b, s, y) >= Share(d, s, y)
                          \/ Reserved(ab, s) = 0
  PROVE  Good(ab)
<1>1. d \in DbType /\ a \in DbType /\ b \in DbType BY DEF Good
<1>2. \A z \in Places : Fine(ab, z)
  <2> TAKE z \in Places
  <2>1. CASE z = y
    <3>1. Alike(b, ab, z) /\ Fine(b, z) BY <2>1 DEF Differ, Good
    <3> QED BY <3>1, AlikeIsFine
  <2>2. CASE z # y
    <3>1. Alike(a, ab, z) /\ Fine(a, z) BY <2>2 DEF Differ, Good
    <3> QED BY <3>1, AlikeIsFine
  <2> QED BY <2>1, <2>2
<1>3. ASSUME NEW s \in Specs PROVE Available(ab, s) >= 0
  <2>1. Available(ab, s) = Available(a, s) - Share(a, s, y) + Share(ab, s, y)
        /\ Share(a, s, y) \in Int /\ Share(ab, s, y) \in Int BY <1>1, AvailableMoves
  <2>2. Available(ab, s) = Available(b, s) - Share(b, s, x) + Share(ab, s, x)
        /\ Share(b, s, x) \in Int /\ Share(ab, s, x) \in Int BY <1>1, AvailableMoves
  <2>3. Share(a, s, y) = Share(d, s, y) /\ Share(ab, s, x) = Share(a, s, x)
    BY AlikeShares DEF Differ
  <2>4. Share(b, s, x) = Share(d, s, x) /\ Share(ab, s, y) = Share(b, s, y)
    BY AlikeShares DEF Differ
  <2>5. Available(a, s) >= 0 /\ Available(b, s) >= 0 BY DEF Good
  <2>6. Available(a, s) \in Int /\ Available(b, s) \in Int BY <1>1, AvailableIs
  <2>7. CASE Share(a, s, x) >= Share(d, s, x) BY <2>2, <2>3, <2>4, <2>5, <2>6, <2>7
  <2>8. CASE Share(b, s, y) >= Share(d, s, y) BY <2>1, <2>3, <2>4, <2>5, <2>6, <2>8
  <2>9. CASE Reserved(ab, s) = 0
    <3>1. \A c \in Coils : ItemAvailable(ab, c) >= 0 BY <1>2 DEF Fine, Places, Items
    <3> QED BY <2>9, <3>1, AvailableNat
  <2> QED BY <2>7, <2>8, <2>9
<1> QED BY <1>2, <1>3 DEF Good

\* An operation that takes from no aggregate.
LEMMA OneRaises ==
  ASSUME AvailabilityAssumption, NEW d, NEW e, e \in DbType, NEW x \in Places,
         Differ(d, e, x), Good(d), Fine(e, x), \A s \in Specs : Share(e, s, x) >= Share(d, s, x)
  PROVE  Good(e)
<1>1. d \in DbType BY DEF Good
<1>2. \A z \in Places : Fine(e, z)
  <2> TAKE z \in Places
  <2>1. CASE z # x BY <2>1, AlikeIsFine DEF Differ, Good
  <2> QED BY <2>1
<1>3. ASSUME NEW s \in Specs PROVE Available(e, s) >= 0
  <2>1. Available(e, s) = Available(d, s) - Share(d, s, x) + Share(e, s, x)
        /\ Share(d, s, x) \in Int /\ Share(e, s, x) \in Int BY <1>1, AvailableMoves
  <2>2. Available(d, s) >= 0 /\ Available(d, s) \in Int BY <1>1, AvailableIs DEF Good
  <2> QED BY <2>1, <2>2
<1> QED BY <1>2, <1>3 DEF Good

\* An operation on an item whose aggregates were asked for (OutHolds).
LEMMA OneIsChecked ==
  ASSUME AvailabilityAssumption, NEW d, NEW e, e \in DbType, NEW i \in Items,
         Differ(d, e, i), Good(d), Fine(e, i), i \in Coils => AggregatesHold(e, {i})
  PROVE  Good(e)
<1>1. d \in DbType /\ i \in Places BY PlaceIsOne DEF Good
<1>2. \A z \in Places : Fine(e, z)
  <2> TAKE z \in Places
  <2>1. CASE z # i BY <2>1, AlikeIsFine DEF Differ, Good
  <2> QED BY <2>1
<1>3. ASSUME NEW s \in Specs PROVE Available(e, s) >= 0
  <2>1. CASE i \in Coils /\ i \in Matches[s] /\ Reserved(e, s) > 0
    BY <2>1 DEF AggregatesHold, Affected
  <2>2. CASE ~(i \in Coils /\ i \in Matches[s])
    <3>1. i \notin Counted(d, s) /\ i \notin Counted(e, s)
      BY <2>2 DEF Counted, Candidates, AvailabilityAssumption
    <3>2. Share(d, s, i) = 0 /\ Share(e, s, i) = 0
      BY <1>1, <3>1, ItemShares DEF Good
    <3>3. Available(e, s) = Available(d, s) - Share(d, s, i) + Share(e, s, i)
      BY <1>1, AvailableMoves
    <3>4. Available(d, s) >= 0 /\ Available(d, s) \in Int BY <1>1, AvailableIs DEF Good
    <3> QED BY <3>2, <3>3, <3>4
  <2>3. CASE ~(Reserved(e, s) > 0)
    <3>1. Reserved(e, s) \in Nat BY ReservedNat
    <3>2. \A c \in Coils : ItemAvailable(e, c) >= 0 BY <1>2 DEF Fine, Places, Items
    <3> QED BY <2>3, <3>1, <3>2, AvailableNat
  <2> QED BY <2>1, <2>2, <2>3
<1> QED BY <1>2, <1>3 DEF Good
-----------------------------------------------------------------------------
(* What a transaction writes.                                               *)

WritesAt(write, x) ==
  /\ \A y \in DOMAIN write.kg \cup DOMAIN write.status \cup DOMAIN write.liquidated : y = x
  /\ \A h \in DOMAIN write.promises : PlaceOf(h) = x

LEMMA NoneOver ==
  ASSUME NEW S, NEW T, NEW f \in [S -> T]
  PROVE  Over(<<>>, f) = f
<1>1. DOMAIN <<>> = {} OBVIOUS
<1> QED BY <1>1 DEF Over

LEMMA NoRows == DOMAIN <<>> = {}
OBVIOUS

LEMMA RowIs ==
  ASSUME NEW R, NEW x, NEW v, R = Row(x, v)
  PROVE  DOMAIN R = {x} /\ R[x] = v
BY DEF Row

LEMMA RowIsSome ==
  ASSUME NEW x, NEW v
  PROVE  Row(x, v) # <<>>
<1>1. DOMAIN Row(x, v) = {x} BY RowIs
<1> QED BY <1>1, NoRows

LEMMA RowIsOne ==
  ASSUME NEW R, NEW x, NEW v, R = Row(x, v), NEW y, NEW w, R = Row(y, w)
  PROVE  y = x /\ w = v
<1>1. DOMAIN R = {x} /\ DOMAIN R = {y} /\ R[x] = v /\ R[y] = w BY RowIs
<1>2. x = y BY <1>1
<1> QED BY <1>1, <1>2

\* A row of a column, once some are written.
LEMMA OverIs ==
  ASSUME NEW S, NEW f, DOMAIN f = S, NEW rows
  PROVE  /\ Over(rows, f) = [x \in S |-> Over(rows, f)[x]]
         /\ \A x \in S : Over(rows, f)[x] = IF x \in DOMAIN rows THEN rows[x] ELSE f[x]
BY DEF Over

LEMMA AfterIs ==
  ASSUME NEW d, NEW write, NEW e, e = After(d, write)
  PROVE  /\ e.status = Over(write.status, d.status) /\ e.kg = Over(write.kg, d.kg)
         /\ e.liquidated = Over(write.liquidated, d.liquidated)
         /\ e.promises = Over(write.promises, d.promises)
         /\ e = [status |-> e.status, kg |-> e.kg, liquidated |-> e.liquidated, promises |-> e.promises]
BY DEF After

LEMMA DbIs ==
  ASSUME NEW d \in DbType
  PROVE  /\ DOMAIN d.status = Coils /\ DOMAIN d.kg = Items
         /\ DOMAIN d.liquidated = Coils /\ DOMAIN d.promises = Holders
         /\ d.status \in [Coils -> StatusType] /\ d.kg \in [Items -> 0..MaxKg]
         /\ d.liquidated \in [Coils -> (-MaxKg)..MaxKg] /\ d.promises \in [Holders -> PromiseType]
BY DEF DbType

LEMMA AfterTyped ==
  ASSUME NEW d \in DbType, NEW e \in DbType, NEW write, After(d, write) \in DbType
  PROVE  After(e, write) \in DbType
<1>1. PICK a : a = After(d, write) OBVIOUS
<1>2. PICK b : b = After(e, write) OBVIOUS
<1>3. b = [status |-> b.status, kg |-> b.kg, liquidated |-> b.liquidated, promises |-> b.promises]
  BY <1>2, AfterIs
<1>4. a \in DbType BY <1>1
<1>5. b.status \in [Coils -> StatusType]
  <2>1. d.status \in [Coils -> StatusType] /\ e.status \in [Coils -> StatusType] BY DbIs
  <2>2. a.status \in [Coils -> StatusType] /\ a.status = Over(write.status, d.status) BY <1>1, <1>4, DbIs, AfterIs
  <2>3. b.status = Over(write.status, e.status) BY <1>2, AfterIs
  <2> QED BY <2>1, <2>2, <2>3 DEF Over
<1>6. b.kg \in [Items -> 0..MaxKg]
  <2>1. d.kg \in [Items -> 0..MaxKg] /\ e.kg \in [Items -> 0..MaxKg] BY DbIs
  <2>2. a.kg \in [Items -> 0..MaxKg] /\ a.kg = Over(write.kg, d.kg) BY <1>1, <1>4, DbIs, AfterIs
  <2>3. b.kg = Over(write.kg, e.kg) BY <1>2, AfterIs
  <2> QED BY <2>1, <2>2, <2>3 DEF Over
<1>7. b.liquidated \in [Coils -> (-MaxKg)..MaxKg]
  <2>1. d.liquidated \in [Coils -> (-MaxKg)..MaxKg] /\ e.liquidated \in [Coils -> (-MaxKg)..MaxKg] BY DbIs
  <2>2. a.liquidated \in [Coils -> (-MaxKg)..MaxKg] /\ a.liquidated = Over(write.liquidated, d.liquidated) BY <1>1, <1>4, DbIs, AfterIs
  <2>3. b.liquidated = Over(write.liquidated, e.liquidated) BY <1>2, AfterIs
  <2> QED BY <2>1, <2>2, <2>3 DEF Over
<1>8. b.promises \in [Holders -> PromiseType]
  <2>1. d.promises \in [Holders -> PromiseType] /\ e.promises \in [Holders -> PromiseType] BY DbIs
  <2>2. a.promises \in [Holders -> PromiseType] /\ a.promises = Over(write.promises, d.promises) BY <1>1, <1>4, DbIs, AfterIs
  <2>3. b.promises = Over(write.promises, e.promises) BY <1>2, AfterIs
  <2> QED BY <2>1, <2>2, <2>3 DEF Over
<1>9. b \in DbType BY <1>3, <1>5, <1>6, <1>7, <1>8 DEF DbType
<1> QED BY <1>2, <1>9

LEMMA AfterDiffers ==
  ASSUME NEW d \in DbType, NEW write, NEW x, WritesAt(write, x)
  PROVE  Differ(d, After(d, write), x)
<1>1. PICK e : e = After(d, write) OBVIOUS
<1>2. ASSUME NEW y \in Places \ {x} PROVE Alike(d, e, y)
  <2>1. y \in Items => e.kg[y] = d.kg[y] BY <1>1, AfterIs, OverIs, DbIs DEF WritesAt
  <2>2. y \in Coils => e.status[y] = d.status[y] /\ e.liquidated[y] = d.liquidated[y]
    BY <1>1, AfterIs, OverIs, DbIs DEF WritesAt
  <2>3. \A h \in Holders : PlaceOf(h) = y => e.promises[h] = d.promises[h]
    BY <1>1, AfterIs, OverIs, DbIs DEF WritesAt
  <2> QED BY <2>1, <2>2, <2>3 DEF Alike
<1> QED BY <1>1, <1>2 DEF Differ

LEMMA AfterAlike ==
  ASSUME NEW d \in DbType, NEW e \in DbType, NEW write, NEW z, Alike(d, e, z)
  PROVE  Alike(After(d, write), After(e, write), z)
<1>1. PICK a : a = After(d, write) OBVIOUS
<1>2. PICK b : b = After(e, write) OBVIOUS
<1>3. z \in Items => b.kg[z] = a.kg[z] BY <1>1, <1>2, AfterIs, OverIs, DbIs DEF Alike
<1>4. z \in Coils => b.status[z] = a.status[z] /\ b.liquidated[z] = a.liquidated[z]
  BY <1>1, <1>2, AfterIs, OverIs, DbIs DEF Alike
<1>5. \A h \in Holders : PlaceOf(h) = z => b.promises[h] = a.promises[h]
  BY <1>1, <1>2, AfterIs, OverIs, DbIs DEF Alike
<1> QED BY <1>1, <1>2, <1>3, <1>4, <1>5 DEF Alike

-----------------------------------------------------------------------------
(* The writes of each operation.                                            *)

\* The row of an item, its status when it changes, and a promise if one does.
Moved(i, k, l, S, P) ==
  [status |-> S, kg |-> Row(i, k), liquidated |-> IF i \in Coils THEN Row(i, l) ELSE <<>>,
   promises |-> P]
NewStatus == {"OPEN", "CLOSED", "SOLD"}
MovedStatus(i, S) == S = <<>> \/ \E st \in NewStatus : i \in Coils /\ S = Row(i, st)
MovedPromise(i, P) == P = <<>> \/ \E h \in Holders, p \in PromiseType : For[h] = i /\ P = Row(h, p)

Promised(h, p) == [status |-> <<>>, kg |-> <<>>, liquidated |-> <<>>, promises |-> Row(h, p)]

\* A row over a column.
LEMMA RowOver ==
  ASSUME NEW f, NEW S, DOMAIN f = S, NEW x \in S, NEW v
  PROVE  Over(Row(x, v), f) = [y \in S |-> IF y = x THEN v ELSE f[y]]
BY DEF Over, Row

LEMMA MovedIs ==
  ASSUME AvailabilityAssumption, NEW d \in DbType, NEW i \in Items, NEW k \in 0..MaxKg,
         NEW l \in (-MaxKg)..MaxKg, NEW S, MovedStatus(i, S), NEW P, MovedPromise(i, P),
         NEW write, write = Moved(i, k, l, S, P), NEW e, e = After(d, write)
  PROVE  /\ WritesAt(write, i) /\ e \in DbType
         /\ e.kg[i] = k
         /\ i \in Coils => e.liquidated[i] = l
         /\ S = <<>> => e.status = d.status
         /\ \A st : S = Row(i, st) => i \in Coils /\ e.status[i] = st
         /\ P = <<>> => e.promises = d.promises
         /\ \A h, p : P = Row(h, p) /\ h \in Holders => e.promises[h] = p
<1>1. /\ e.status = Over(write.status, d.status) /\ e.kg = Over(write.kg, d.kg)
      /\ e.liquidated = Over(write.liquidated, d.liquidated)
      /\ e.promises = Over(write.promises, d.promises)
      /\ e = [status |-> e.status, kg |-> e.kg, liquidated |-> e.liquidated, promises |-> e.promises]
  BY AfterIs
<1>2. /\ d.status \in [Coils -> StatusType] /\ d.kg \in [Items -> 0..MaxKg]
      /\ d.liquidated \in [Coils -> (-MaxKg)..MaxKg] /\ d.promises \in [Holders -> PromiseType]
  BY DbIs
<1>3. /\ write.kg = Row(i, k) /\ write.promises = P /\ write.status = S
      /\ write.liquidated = IF i \in Coils THEN Row(i, l) ELSE <<>>
  BY DEF Moved
<1>4. e.kg = [y \in Items |-> IF y = i THEN k ELSE d.kg[y]]
  <2>1. DOMAIN d.kg = Items BY <1>2
  <2>2. e.kg = Over(Row(i, k), d.kg) BY <1>1, <1>3
  <2> QED BY <2>1, <2>2, RowOver
<1>5. /\ e.status \in [Coils -> StatusType]
      /\ S = <<>> => e.status = d.status
      /\ \A st : S = Row(i, st) => i \in Coils /\ e.status[i] = st
  <2>1. CASE S = <<>>
    <3>1. e.status = d.status BY <1>1, <1>2, <1>3, <2>1, NoneOver
    <3>2. \A st : S # Row(i, st) BY <2>1, RowIsSome
    <3> QED BY <1>2, <3>1, <3>2
  <2>2. ASSUME NEW st \in NewStatus, i \in Coils, S = Row(i, st)
        PROVE  /\ e.status \in [Coils -> StatusType] /\ S # <<>>
               /\ \A t : S = Row(i, t) => e.status[i] = t
    <3>1. DOMAIN d.status = Coils BY <1>2
    <3>2. e.status = [y \in Coils |-> IF y = i THEN st ELSE d.status[y]]
      <4>1. e.status = Over(Row(i, st), d.status) BY <1>1, <1>3, <2>2
      <4> QED BY <2>2, <3>1, <4>1, RowOver
    <3>3. ASSUME NEW t, S = Row(i, t) PROVE t = st
      <4>1. S[i] = st BY <2>2 DEF Row
      <4>2. S[i] = t BY <3>3 DEF Row
      <4> QED BY <4>1, <4>2
    <3>4. S # <<>> BY <2>2, RowIsSome
    <3>5. st \in StatusType BY DEF StatusType, NewStatus
    <3>6. e.status \in [Coils -> StatusType] BY <1>2, <3>2, <3>5
    <3> QED BY <2>2, <3>2, <3>3, <3>4, <3>6
  <2> QED BY <2>1, <2>2 DEF MovedStatus
<1>6. /\ e.liquidated \in [Coils -> (-MaxKg)..MaxKg]
      /\ i \in Coils => e.liquidated[i] = l
  <2>1. CASE i \notin Coils BY <1>1, <1>2, <1>3, <2>1, NoneOver
  <2>2. CASE i \in Coils
    <3>1. DOMAIN d.liquidated = Coils /\ write.liquidated = Row(i, l) BY <1>2, <1>3, <2>2
    <3>2. e.liquidated = [y \in Coils |-> IF y = i THEN l ELSE d.liquidated[y]]
      BY <1>1, <2>2, <3>1, RowOver
    <3> QED BY <1>2, <2>2, <3>2
  <2> QED BY <2>1, <2>2
<1>7. /\ e.promises \in [Holders -> PromiseType]
      /\ P = <<>> => e.promises = d.promises
      /\ \A h, p : P = Row(h, p) /\ h \in Holders => e.promises[h] = p
  <2>1. CASE P = <<>>
    <3>1. e.promises = d.promises BY <1>1, <1>2, <1>3, <2>1, NoneOver
    <3>2. \A h, p : P # Row(h, p) BY <2>1, RowIsSome
    <3> QED BY <1>2, <3>1, <3>2
  <2>2. ASSUME NEW h \in Holders, NEW p \in PromiseType, P = Row(h, p)
        PROVE  /\ e.promises \in [Holders -> PromiseType] /\ P # <<>>
               /\ \A g, q : P = Row(g, q) => e.promises[g] = q
    <3>1. DOMAIN d.promises = Holders BY <1>2
    <3>2. e.promises = [y \in Holders |-> IF y = h THEN p ELSE d.promises[y]]
      BY <1>1, <1>3, <2>2, <3>1, RowOver
    <3>3. ASSUME NEW g, NEW q, P = Row(g, q) PROVE g = h /\ q = p
      <4>1. DOMAIN P = {h} /\ P[h] = p BY <2>2 DEF Row
      <4>2. DOMAIN P = {g} /\ P[g] = q BY <3>3 DEF Row
      <4>3. g = h BY <4>1, <4>2
      <4> QED BY <4>1, <4>2, <4>3
    <3>4. P # <<>> BY <2>2, RowIsSome
    <3>5. e.promises \in [Holders -> PromiseType] BY <1>2, <3>2
    <3> QED BY <3>2, <3>3, <3>4, <3>5
  <2> QED BY <2>1, <2>2 DEF MovedPromise
<1>8. e \in DbType
  <2>1. e.kg \in [Items -> 0..MaxKg] BY <1>2, <1>4
  <2> QED BY <1>1, <1>5, <1>6, <1>7, <2>1 DEF DbType
<1>9. WritesAt(write, i)
  <2>1. DOMAIN write.kg = {i} BY <1>3, RowIs
  <2>2. DOMAIN write.status \subseteq {i}
    <3>1. ASSUME NEW st, S = Row(i, st) PROVE DOMAIN S = {i} BY <3>1, RowIs
    <3> QED BY <1>3, <3>1, NoRows DEF MovedStatus
  <2>3. DOMAIN write.liquidated \subseteq {i} BY <1>3, NoRows, RowIs
  <2>4. \A h \in DOMAIN write.promises : PlaceOf(h) = i
    <3>1. CASE P = <<>> BY <1>3, <3>1, NoRows
    <3>2. ASSUME NEW h \in Holders, NEW p \in PromiseType, For[h] = i, P = Row(h, p)
          PROVE  \A g \in DOMAIN write.promises : PlaceOf(g) = i
      <4>1. write.promises = Row(h, p) /\ PlaceOf(h) = i BY <1>3, <3>2, PlaceIsOne
      <4>2. DOMAIN P = {h} BY <3>2, RowIs
      <4> QED BY <1>3, <4>1, <4>2
    <3> QED BY <3>1, <3>2 DEF MovedPromise
  <2> QED BY <2>1, <2>2, <2>3, <2>4 DEF WritesAt
<1>10. e.kg[i] = k BY <1>4
<1> QED BY <1>5, <1>6, <1>7, <1>8, <1>9, <1>10

LEMMA PromisedIs ==
  ASSUME AvailabilityAssumption, NEW d \in DbType, NEW h \in Holders, NEW p \in PromiseType,
         NEW e, e = After(d, Promised(h, p))
  PROVE  /\ WritesAt(Promised(h, p), PlaceOf(h)) /\ e \in DbType
         /\ e.kg = d.kg /\ e.liquidated = d.liquidated /\ e.status = d.status
         /\ e.promises = [d.promises EXCEPT ![h] = p]
<1>1. /\ e.status = Over(<<>>, d.status) /\ e.kg = Over(<<>>, d.kg)
      /\ e.liquidated = Over(<<>>, d.liquidated) /\ e.promises = Over(Row(h, p), d.promises)
      /\ e = [status |-> e.status, kg |-> e.kg, liquidated |-> e.liquidated, promises |-> e.promises]
  BY DEF After, Promised
<1>2. /\ d.status \in [Coils -> StatusType] /\ d.kg \in [Items -> 0..MaxKg]
      /\ d.liquidated \in [Coils -> (-MaxKg)..MaxKg] /\ d.promises \in [Holders -> PromiseType]
  BY DEF DbType
<1>3. e.kg = d.kg /\ e.liquidated = d.liquidated /\ e.status = d.status BY <1>1, <1>2, NoneOver
<1>4. e.promises = [d.promises EXCEPT ![h] = p] BY <1>1, <1>2 DEF Over, Row
<1>5. e.promises \in [Holders -> PromiseType] BY <1>2, <1>4
<1>6. e \in DbType BY <1>1, <1>2, <1>3, <1>5 DEF DbType
<1>7. WritesAt(Promised(h, p), PlaceOf(h)) BY NoRows DEF WritesAt, Promised, Row
<1> QED BY <1>3, <1>4, <1>6, <1>7
-----------------------------------------------------------------------------
(* The invariant.                                                           *)

\* The rows a transaction holds; where it writes.
HeldBy(j) == IF j.phase = "asking" THEN j.rows \cap Holders ELSE j.rows
PlacesOf(j) == j.item \cup {PlaceOf(h) : h \in j.holder}

\* What was asked for, with its document locked, is still so.  Who promises an aggregate
\* has asked for all the coils that count for it: none enters meanwhile.
AskedPromise(j, d) ==
  /\ j.op = "promise" /\ j.item = {} /\ j.qty > 0
  /\ \E h \in Holders :
       /\ j.holder = {h} /\ d.promises[h].state # "ACTIVE"
       /\ For[h] \in Specs => Candidates(d, For[h]) \subseteq j.rows
       /\ For[h] \in Items => For[h] \in j.rows
AskedDispatch(j, d) ==
  /\ j.op = "dispatch" /\ j.qty > 0
  /\ \E h \in Holders \ Temporary :
       /\ For[h] \in Items /\ j.holder = {h} /\ j.item = {For[h]}
       /\ d.promises[h].state # "NONE" /\ d.promises[h].sent + j.qty <= MaxKg
AskedUndo(j, d) ==
  /\ j.op = "undo"
  /\ \E h \in Holders \ Temporary :
       /\ For[h] \in Items /\ j.holder = {h} /\ j.item = {For[h]}
       /\ d.promises[h].sent > 0
AskedItem(j) ==
  /\ j.holder = {}
  /\ \/ j.op = "scrap" /\ j.qty > 0 /\ \E i \in Items : j.item = {i}
     \/ j.op = "close" /\ \E c \in Coils : j.item = {c} /\ j.qty <= Weight(c)
     \/ j.op = "reopen" /\ \E c \in Coils : j.item = {c}

Asked(j, d) ==
  /\ AskedPromise(j, d) \/ AskedDispatch(j, d) \/ AskedUndo(j, d) \/ AskedItem(j)
  /\ j.phase \in {"asking", "holding", "written"} /\ j.qty \in 0..MaxKg
  /\ j.item \cup j.holder \subseteq j.rows /\ j.rows \subseteq Holders \cup Items
  /\ \A c \in j.item \cap Coils : d.status[c] # "ABSENT"

StatusTo(i, st) == {<<>>} \cup {Row(c, st) : c \in Coils \cap {i}}

\* What it has written is what it would write now.
PromiseEffect(j, d) ==
  /\ j.op = "promise"
  /\ \E h \in j.holder, q \in 0..MaxKg :
       j.write = Promised(h, [state |-> "ACTIVE", qty |-> q, sent |-> d.promises[h].sent])
ScrapEffect(j, d) ==
  /\ j.op = "scrap"
  /\ \E i \in j.item : \E S \in StatusTo(i, "CLOSED") :
       /\ j.qty <= d.kg[i]
       /\ j.write = Moved(i, d.kg[i] - j.qty, 0, S, <<>>)
DispatchEffect(j, d) ==
  /\ j.op = "dispatch"
  /\ \E h \in j.holder : \E S \in StatusTo(For[h], "SOLD") :
       /\ j.qty <= d.kg[For[h]]
       /\ j.write = Moved(For[h], d.kg[For[h]] - j.qty, 0, S,
                          Row(h, Consumed(d.promises[h], j.qty)))
UndoEffect(j, d) ==
  /\ j.op = "undo"
  /\ \E h \in j.holder : \E S \in StatusTo(For[h], "OPEN") :
       /\ d.kg[For[h]] + d.promises[h].sent <= MaxKg
       /\ j.write = Moved(For[h], d.kg[For[h]] + d.promises[h].sent, 0, S,
                          Row(h, Restored(d.promises[h])))
CloseEffect(j, d) ==
  /\ j.op = "close"
  /\ \E c \in j.item :
       /\ d.status[c] = "OPEN"
       /\ j.write = Moved(c, j.qty, d.kg[c] - j.qty, Row(c, "CLOSED"), <<>>)
ReopenEffect(j, d) ==
  /\ j.op = "reopen"
  /\ \E c \in j.item :
       /\ d.status[c] \in {"CLOSED", "SOLD"}
       /\ j.write = Moved(c, d.kg[c] + d.liquidated[c], 0, Row(c, "OPEN"), <<>>)

Effect(j, d) ==
  \/ PromiseEffect(j, d) \/ ScrapEffect(j, d) \/ DispatchEffect(j, d)
  \/ UndoEffect(j, d) \/ CloseEffect(j, d) \/ ReopenEffect(j, d)

\* And it leaves every promise covered; a coil it closes is not promised whole.
HasWritten(j, d) ==
  /\ Effect(j, d) /\ Good(After(d, j.write))
  /\ \A c \in PlacesOf(j) \cap Coils : d.status[c] # "ABSENT"
  /\ \A c \in DOMAIN j.write.status :
       j.write.status[c] = "OPEN" \/ Reserved(After(d, j.write), c) = 0

Right(j, d) == j = NoJob \/ (Asked(j, d) /\ (j.phase = "written" => HasWritten(j, d)))

\* Two transactions that take from one aggregate: two coils of it, where it is promised,
\* or two promises.
TakeTogether(j, k, d) ==
  \/ /\ j.op # "undo" /\ k.op # "undo"
     /\ \E s \in Specs : /\ Reserved(d, s) > 0
                         /\ PlacesOf(j) \cap Candidates(d, s) # {}
                         /\ PlacesOf(k) \cap Candidates(d, s) # {}
  \/ /\ j.op = "promise" /\ k.op = "promise"
     /\ \E h \in j.holder, g \in k.holder :
          /\ For[h] = For[g] /\ For[h] \in Specs
          /\ j.write.promises[h].qty > 0 /\ k.write.promises[g].qty > 0

AreApart(j, k, d) ==
  /\ HeldBy(j) \cap HeldBy(k) = {}
  /\ j.phase = "written" /\ k.phase = "written" => ~TakeTogether(j, k, d)

IsJob(j) ==
  j = [op |-> j.op, holder |-> j.holder, item |-> j.item, qty |-> j.qty, partial |-> j.partial,
       rows |-> j.rows, phase |-> j.phase, write |-> j.write]

IInv ==
  /\ Good(db) /\ job = [w \in Workers |-> job[w]]
  /\ \A w \in Workers : IsJob(job[w]) /\ Right(job[w], db)
  /\ \A w, u \in Workers : w # u => AreApart(job[w], job[u], db)

\* What a step must show of the state it leaves.
LEMMA MakesInv ==
  ASSUME \A w \in Workers : IsJob(job'[w]) /\ Right(job'[w], db'),
         \A w, u \in Workers : w # u => AreApart(job'[w], job'[u], db'),
         job' = [w \in Workers |-> job'[w]], Good(db')
  PROVE  IInv'
BY DEF IInv
-----------------------------------------------------------------------------

LEMMA TypesAre ==
  ASSUME AvailabilityAssumption
  PROVE  /\ MaxKg \in Nat /\ 0 \in 0..MaxKg /\ 0 \in (-MaxKg)..MaxKg
         /\ {"OPEN", "CLOSED", "SOLD"} \subseteq StatusType
BY DEF AvailabilityAssumption, StatusType

\* A promise is part of what is promised.
LEMMA ActiveIsReserved ==
  ASSUME AvailabilityAssumption, NEW d \in DbType, NEW x, NEW h \in Active(d, x)
  PROVE  d.promises[h].qty <= Reserved(d, x)
<1> DEFINE f == [g \in Holders |-> d.promises[g].qty]
           A == Active(d, x)
<1>1. \A g \in A : f[g] \in Nat /\ f[g] \in Int
  BY ActiveFinite DEF DbType, PromiseType, AvailabilityAssumption
<1>2. IsFiniteSet(A) /\ IsFiniteSet(A \ {h}) BY ActiveFinite, FS_Subset
<1>3. SumFunctionOnSet(f, A) = f[h] + SumFunctionOnSet(f, A \ {h})
  <2> HIDE DEF f, A
  <2> QED BY <1>1, <1>2, SumTakes DEF A
<1>4. SumFunctionOnSet(f, A \ {h}) \in Nat
  <2> HIDE DEF f, A
  <2> QED BY <1>1, <1>2, SumNat
<1>5. f[h] = d.promises[h].qty /\ f[h] \in Nat BY <1>1, ActiveFinite
<1>6. Reserved(d, x) = SumFunctionOnSet(f, A) BY DEF Reserved
<1> HIDE DEF f, A
<1> QED BY <1>3, <1>4, <1>5, <1>6

\* What a delivery and its reversal leave of a promise.
LEMMA ConsumedIs ==
  ASSUME AvailabilityAssumption, NEW p \in PromiseType, NEW q \in 0..MaxKg,
         p.sent + q <= MaxKg, NEW r, r = Consumed(p, q)
  PROVE  /\ r \in PromiseType
         /\ p.state = "ACTIVE" =>
              /\ r.qty = IF p.qty > q THEN p.qty - q ELSE 0
              /\ r.state = IF p.qty > q THEN "ACTIVE" ELSE "CONSUMED"
         /\ p.state # "ACTIVE" => r.qty = p.qty /\ r.state = p.state
<1>1. p.qty \in 0..MaxKg /\ p.sent \in 0..MaxKg BY DEF PromiseType
<1>2. p.sent + q \in 0..MaxKg /\ MaxKg \in Nat BY <1>1, TypesAre
<1>3. CASE p.state # "ACTIVE"
  <2>1. PICK n : n = p.sent + q OBVIOUS
  <2>2. r = [p EXCEPT !.sent = n] BY <1>3, <2>1 DEF Consumed
  <2>3. n \in 0..MaxKg BY <1>2, <2>1
  <2> QED BY <1>3, <2>2, <2>3 DEF PromiseType
<1>4. CASE p.state = "ACTIVE"
  <2>1. PICK left : left = IF p.qty > q THEN p.qty - q ELSE 0 OBVIOUS
  <2>2. PICK st : st = IF p.qty > q THEN "ACTIVE" ELSE "CONSUMED" OBVIOUS
  <2>3. left \in 0..MaxKg BY <1>1, <1>2, <2>1
  <2>4. r = [state |-> st, qty |-> left, sent |-> p.sent + q] BY <1>4, <2>1, <2>2 DEF Consumed
  <2> QED BY <1>2, <1>4, <2>1, <2>2, <2>3, <2>4 DEF PromiseType
<1> QED BY <1>3, <1>4

LEMMA RestoredIs ==
  ASSUME AvailabilityAssumption, NEW d, Good(d), NEW h \in Holders, For[h] \in Items,
         d.promises[h].sent > 0, d.kg[For[h]] + d.promises[h].sent <= MaxKg,
         NEW p, p = d.promises[h], NEW r, r = Restored(p)
  PROVE  /\ r \in PromiseType /\ p \in PromiseType /\ p.state \in {"ACTIVE", "CONSUMED", "RELEASED"}
         /\ p.state = "CONSUMED" => p.qty = 0
         /\ p.state = "RELEASED" => r.state = "RELEASED" /\ r.qty = p.qty
         /\ p.state # "RELEASED" => r.state = "ACTIVE" /\ r.qty = p.qty + p.sent
         /\ r.sent = 0 /\ h \notin Temporary
<1>1. d \in DbType /\ p \in PromiseType BY DbIs DEF Good
<1>2. FinePromise(h, p) BY PlaceIsOne DEF Good, Fine
<1>3. p.sent \in 0..MaxKg /\ p.qty \in 0..MaxKg /\ p.sent > 0 BY <1>1 DEF PromiseType
<1>4. ASSUME p.state = "ACTIVE" PROVE p.qty + p.sent <= MaxKg
  <2>1. h \in Active(d, For[h]) BY <1>4 DEF Active
  <2>2. p.qty <= Reserved(d, For[h]) BY <1>1, <2>1, ActiveIsReserved
  <2>3. ItemAvailable(d, For[h]) >= 0 BY PlaceIsOne DEF Good, Fine
  <2>4. Reserved(d, For[h]) \in Nat BY <1>1, ReservedNat
  <2>5. MaxKg \in Nat BY TypesAre
  <2> QED BY <1>1, <1>3, <2>2, <2>3, <2>4, <2>5, AvailableOf
<1>5. p.state \in {"ACTIVE", "CONSUMED", "RELEASED"} /\ h \notin Temporary
      /\ (p.state = "CONSUMED" => p.qty = 0)
  BY <1>2, <1>3 DEF FinePromise
<1>6. p.state # "RELEASED" => p.qty + p.sent \in 0..MaxKg
  BY <1>3, <1>4, <1>5, TypesAre
<1>7. CASE p.state = "RELEASED"
  <2>1. r = [p EXCEPT !.sent = 0] BY <1>7 DEF Restored
  <2> QED BY <1>1, <1>5, <1>7, <2>1, TypesAre DEF PromiseType
<1>8. CASE p.state # "RELEASED"
  <2>1. r = [state |-> "ACTIVE", qty |-> p.qty + p.sent, sent |-> 0] BY <1>8 DEF Restored
  <2> QED BY <1>1, <1>5, <1>6, <1>8, <2>1, TypesAre DEF PromiseType
<1> QED BY <1>7, <1>8
-----------------------------------------------------------------------------
(* Where a transaction writes.                                              *)

LEMMA AskedPlace ==
  ASSUME AvailabilityAssumption, NEW j, NEW d, Asked(j, d)
  PROVE  \E x \in Places :
           /\ PlacesOf(j) = {x} /\ x \in j.rows
           /\ j.op = "promise" => \E h \in Holders : j.holder = {h} /\ x = PlaceOf(h)
           /\ j.op # "promise" => x \in Items /\ j.item = {x}
           /\ \A h \in j.holder : h \in Holders /\ h \in j.rows /\ PlaceOf(h) = x
           /\ j # NoJob /\ j.phase # "idle"
<1>1. j # NoJob /\ j.phase # "idle" BY DEF Asked, NoJob
<1>2. CASE AskedPromise(j, d)
  <2>1. PICK h \in Holders : j.holder = {h} /\ (For[h] \in Items => For[h] \in j.rows)
    BY <1>2 DEF AskedPromise
  <2>2. PlacesOf(j) = {PlaceOf(h)} BY <1>2, <2>1 DEF AskedPromise, PlacesOf
  <2>3. PlaceOf(h) \in j.rows BY <2>1, PlaceIsOne DEF Asked
  <2> QED BY <1>1, <1>2, <2>1, <2>2, <2>3, PlaceIsOne DEF AskedPromise, Asked
<1>3. CASE AskedDispatch(j, d) \/ AskedUndo(j, d)
  <2>1. PICK h \in Holders : For[h] \in Items /\ j.holder = {h} /\ j.item = {For[h]}
    BY <1>3 DEF AskedDispatch, AskedUndo
  <2>2. PlaceOf(h) = For[h] /\ For[h] \in Places BY <2>1, PlaceIsOne
  <2>3. PlacesOf(j) = {For[h]} BY <2>1, <2>2 DEF PlacesOf
  <2>4. j.op # "promise" BY <1>3 DEF AskedDispatch, AskedUndo
  <2> QED BY <1>1, <2>1, <2>2, <2>3, <2>4 DEF Asked
<1>4. CASE AskedItem(j)
  <2>1. PICK i \in Items : j.item = {i} /\ j.holder = {} BY <1>4 DEF AskedItem, Items
  <2>2. PlacesOf(j) = {i} /\ i \in Places BY <2>1, PlaceIsOne DEF PlacesOf
  <2>3. j.op # "promise" BY <1>4 DEF AskedItem
  <2> QED BY <1>1, <2>1, <2>2, <2>3 DEF Asked
<1> QED BY <1>2, <1>3, <1>4 DEF Asked

\* An operation is of the kind it was asked for.
LEMMA AskedKinds ==
  ASSUME NEW j, NEW d, Asked(j, d)
  PROVE  /\ j.op = "promise" => AskedPromise(j, d)
         /\ j.op = "dispatch" => AskedDispatch(j, d)
         /\ j.op = "undo" => AskedUndo(j, d)
         /\ j.op \in {"scrap", "close", "reopen"} => AskedItem(j)
BY DEF Asked, AskedPromise, AskedDispatch, AskedUndo, AskedItem

LEMMA DispatchPlace ==
  ASSUME AvailabilityAssumption, NEW j, NEW d, Asked(j, d), j.op = "dispatch",
         NEW h \in j.holder, NEW x, PlacesOf(j) = {x}
  PROVE  /\ h \in Holders \ Temporary /\ For[h] \in Items /\ For[h] = x /\ j.holder = {h}
         /\ d.promises[h].state # "NONE" /\ d.promises[h].sent + j.qty <= MaxKg /\ j.qty > 0
<1>1. AskedDispatch(j, d) BY AskedKinds
<1>2. PICK g \in Holders \ Temporary :
        /\ For[g] \in Items /\ j.holder = {g} /\ j.item = {For[g]}
        /\ d.promises[g].state # "NONE" /\ d.promises[g].sent + j.qty <= MaxKg
  BY <1>1 DEF AskedDispatch
<1>3. h = g BY <1>2
<1>4. For[g] = x BY <1>2 DEF PlacesOf
<1> QED BY <1>1, <1>2, <1>3, <1>4 DEF AskedDispatch

LEMMA UndoPlace ==
  ASSUME AvailabilityAssumption, NEW j, NEW d, Asked(j, d), j.op = "undo",
         NEW h \in j.holder, NEW x, PlacesOf(j) = {x}
  PROVE  /\ h \in Holders \ Temporary /\ For[h] \in Items /\ For[h] = x /\ j.holder = {h}
         /\ d.promises[h].sent > 0
<1>1. AskedUndo(j, d) BY AskedKinds
<1>2. PICK g \in Holders \ Temporary :
        For[g] \in Items /\ j.holder = {g} /\ j.item = {For[g]} /\ d.promises[g].sent > 0
  BY <1>1 DEF AskedUndo
<1>3. h = g BY <1>2
<1>4. For[g] = x BY <1>2 DEF PlacesOf
<1> QED BY <1>2, <1>3, <1>4

LEMMA LessIs ==
  ASSUME NEW n \in Nat, NEW a \in 0..n, NEW b \in 0..n, b <= a PROVE a - b \in 0..n
OBVIOUS
LEMMA MoreIs ==
  ASSUME NEW n \in Nat, NEW a \in 0..n, NEW b \in 0..n, a + b <= n PROVE a + b \in 0..n
OBVIOUS
LEMMA ChangeIs ==
  ASSUME NEW n \in Nat, NEW a \in 0..n, NEW b \in 0..n PROVE a - b \in (-n)..n
OBVIOUS

LEMMA NoPromise ==
  ASSUME NEW i
  PROVE  MovedPromise(i, <<>>) /\ \A h, p : <<>> # Row(h, p)
<1>1. ASSUME NEW h, NEW p PROVE <<>> # Row(h, p) BY RowIsSome
<1> QED BY <1>1 DEF MovedPromise

LEMMA WeightIs ==
  ASSUME PromisesAssumption, NEW c \in Coils
  PROVE  Weight(c) \in 0..MaxKg
BY DEF Weight, PromisesAssumption, AvailabilityAssumption, Items

LEMMA AskedItems ==
  ASSUME AvailabilityAssumption, NEW j, NEW d, Asked(j, d), j.op # "promise",
         NEW x, PlacesOf(j) = {x}
  PROVE  /\ j.item = {x} /\ x \in Items
         /\ j.op \in {"close", "reopen"} => x \in Coils
<1>1. j.item = {x} /\ x \in Items
  <2>1. PICK y \in Places : PlacesOf(j) = {y} /\ y \in Items /\ j.item = {y} BY AskedPlace
  <2>2. x = y BY <2>1
  <2> QED BY <2>1, <2>2
<1>2. ASSUME j.op \in {"close", "reopen"} PROVE x \in Coils
  <2>1. AskedItem(j) BY <1>2, AskedKinds
  <2>2. PICK c \in Coils : j.item = {c} BY <1>2, <2>1 DEF AskedItem
  <2> QED BY <1>1, <2>2
<1> QED BY <1>1, <1>2

WritesIn(H, write, e, x) ==
  /\ WritesAt(write, x) /\ e \in DbType /\ DOMAIN write.promises \subseteq H
  /\ \A c \in DOMAIN write.status :
       c = x /\ c \in Coils /\ write.status[c] \in NewStatus

LEMMA StatusToIs ==
  ASSUME NEW i, NEW st \in NewStatus, NEW S \in StatusTo(i, st)
  PROVE  MovedStatus(i, S)
BY DEF StatusTo, MovedStatus

LEMMA StatusRows ==
  ASSUME NEW i, NEW S, MovedStatus(i, S)
  PROVE  \A c \in DOMAIN S : c = i /\ c \in Coils /\ S[c] \in NewStatus
<1>1. CASE S = <<>> BY <1>1, NoRows
<1>2. ASSUME NEW st, st \in NewStatus, i \in Coils, S = Row(i, st)
      PROVE  \A c \in DOMAIN S : c = i /\ c \in Coils /\ S[c] \in NewStatus
  <2>1. DOMAIN S = {i} /\ S[i] = st BY <1>2, RowIs
  <2> QED BY <1>2, <2>1
<1> QED BY <1>1, <1>2 DEF MovedStatus

LEMMA MovedFields ==
  ASSUME NEW i, NEW k, NEW l, NEW S, NEW P, NEW write, write = Moved(i, k, l, S, P)
  PROVE  write.promises = P /\ write.status = S
BY DEF Moved

LEMMA MovedWrites ==
  ASSUME AvailabilityAssumption, NEW d \in DbType, NEW i \in Items, NEW k \in 0..MaxKg,
         NEW l \in (-MaxKg)..MaxKg, NEW S, MovedStatus(i, S), NEW P, MovedPromise(i, P),
         NEW H, \A h \in Holders, p \in PromiseType : P = Row(h, p) => h \in H,
         NEW write, write = Moved(i, k, l, S, P), NEW e, e = After(d, write)
  PROVE  WritesIn(H, write, e, i)
<1>1. WritesAt(write, i) /\ e \in DbType BY MovedIs
<1>2. DOMAIN write.promises \subseteq H
  <2>1. write.promises = P BY MovedFields
  <2>2. CASE P = <<>> BY <2>1, <2>2, NoRows
  <2>3. ASSUME NEW h \in Holders, NEW p \in PromiseType, P = Row(h, p) PROVE DOMAIN P \subseteq H
    <3>1. DOMAIN P = {h} BY <2>3, RowIs
    <3> QED BY <2>3, <3>1
  <2> QED BY <2>1, <2>2, <2>3 DEF MovedPromise
<1>3. \A c \in DOMAIN write.status : c = i /\ c \in Coils /\ write.status[c] \in NewStatus
  <2>1. write.status = S BY MovedFields
  <2> QED BY <2>1, StatusRows
<1> QED BY <1>1, <1>2, <1>3 DEF WritesIn

LEMMA PromiseWrites ==
  ASSUME AvailabilityAssumption, NEW d \in DbType, NEW h \in Holders, NEW p \in PromiseType,
         NEW write, write = Promised(h, p), NEW H, h \in H, NEW e, e = After(d, write)
  PROVE  WritesIn(H, write, e, PlaceOf(h))
<1>1. WritesAt(write, PlaceOf(h)) /\ e \in DbType BY PromisedIs
<1>2. DOMAIN write.promises \subseteq H BY DEF Promised, Row
<1>3. DOMAIN write.status = {} BY NoRows DEF Promised
<1> QED BY <1>1, <1>2, <1>3 DEF WritesIn

LEMMA EffectWrites ==
  ASSUME PromisesAssumption, NEW d, Good(d), NEW j, Asked(j, d), Effect(j, d),
         NEW write, write = j.write, NEW H, H = j.holder, NEW e, e = After(d, write), NEW x,
         PlacesOf(j) = {x}
  PROVE  WritesIn(H, write, e, x)
<1>1. AvailabilityAssumption /\ d \in DbType BY DEF PromisesAssumption, Good
<1>2. j.qty \in 0..MaxKg /\ MaxKg \in Nat BY <1>1, TypesAre DEF Asked
<1>3. CASE PromiseEffect(j, d)
  <2>1. PICK h \in j.holder, q \in 0..MaxKg :
          j.write = Promised(h, [state |-> "ACTIVE", qty |-> q, sent |-> d.promises[h].sent])
    BY <1>3 DEF PromiseEffect
  <2>2. h \in Holders /\ PlaceOf(h) = x BY <1>1, AskedPlace
  <2>3. PICK p : p = [state |-> "ACTIVE", qty |-> q, sent |-> d.promises[h].sent] OBVIOUS
  <2>4. p \in PromiseType BY <1>1, <2>2, <2>3 DEF DbType, PromiseType
  <2>5. write = Promised(h, p) BY <2>1, <2>3
  <2> QED BY <1>1, <2>2, <2>4, <2>5, PromiseWrites
<1>4. CASE ScrapEffect(j, d)
  <2>1. PICK i \in j.item : \E S \in StatusTo(i, "CLOSED") :
          j.qty <= d.kg[i] /\ j.write = Moved(i, d.kg[i] - j.qty, 0, S, <<>>)
    BY <1>4 DEF ScrapEffect
  <2>2. PICK S \in StatusTo(i, "CLOSED") :
          j.qty <= d.kg[i] /\ write = Moved(i, d.kg[i] - j.qty, 0, S, <<>>)
    BY <2>1
  <2>3. i = x /\ i \in Items BY <1>1, <1>4, AskedItems DEF ScrapEffect
  <2>4. d.kg[i] - j.qty \in 0..MaxKg BY <1>1, <1>2, <2>2, <2>3, LessIs, DbIs
  <2>5. MovedStatus(i, S) BY StatusToIs DEF NewStatus
  <2> QED BY <1>1, <2>2, <2>3, <2>4, <2>5, NoPromise, MovedWrites, TypesAre
<1>5. CASE DispatchEffect(j, d)
  <2>1. PICK h \in j.holder : \E S \in StatusTo(For[h], "SOLD") :
          /\ j.qty <= d.kg[For[h]]
          /\ j.write = Moved(For[h], d.kg[For[h]] - j.qty, 0, S,
                             Row(h, Consumed(d.promises[h], j.qty)))
    BY <1>5 DEF DispatchEffect
  <2>2. PICK p : p = Consumed(d.promises[h], j.qty) OBVIOUS
  <2>3. PICK S \in StatusTo(For[h], "SOLD") :
          /\ j.qty <= d.kg[For[h]]
          /\ write = Moved(For[h], d.kg[For[h]] - j.qty, 0, S, Row(h, p))
    BY <2>1, <2>2
  <2>4. /\ h \in Holders /\ For[h] \in Items /\ For[h] = x
        /\ d.promises[h].sent + j.qty <= MaxKg
    BY <1>1, <1>5, DispatchPlace DEF DispatchEffect
  <2>5. d.kg[For[h]] - j.qty \in 0..MaxKg BY <1>1, <1>2, <2>3, <2>4, LessIs, DbIs
  <2>6. p \in PromiseType
    <3>1. d.promises[h] \in PromiseType BY <1>1, <2>4, DbIs
    <3> QED BY <1>1, <1>2, <2>2, <2>4, <3>1, ConsumedIs
  <2>7. MovedStatus(For[h], S) BY StatusToIs DEF NewStatus
  <2>8. MovedPromise(For[h], Row(h, p)) BY <2>4, <2>6 DEF MovedPromise
  <2>9. \A g \in Holders, q \in PromiseType : Row(h, p) = Row(g, q) => g \in H BY RowIsOne
  <2> QED BY <1>1, <2>3, <2>4, <2>5, <2>7, <2>8, <2>9, MovedWrites, TypesAre
<1>6. CASE UndoEffect(j, d)
  <2>1. PICK h \in j.holder : \E S \in StatusTo(For[h], "OPEN") :
          /\ d.kg[For[h]] + d.promises[h].sent <= MaxKg
          /\ j.write = Moved(For[h], d.kg[For[h]] + d.promises[h].sent, 0, S,
                             Row(h, Restored(d.promises[h])))
    BY <1>6 DEF UndoEffect
  <2>2. PICK p : p = Restored(d.promises[h]) OBVIOUS
  <2>3. PICK S \in StatusTo(For[h], "OPEN") :
          /\ d.kg[For[h]] + d.promises[h].sent <= MaxKg
          /\ write = Moved(For[h], d.kg[For[h]] + d.promises[h].sent, 0, S, Row(h, p))
    BY <2>1, <2>2
  <2>4. h \in Holders /\ For[h] \in Items /\ For[h] = x /\ d.promises[h].sent > 0
    BY <1>1, <1>6, UndoPlace DEF UndoEffect
  <2>5. d.kg[For[h]] + d.promises[h].sent \in 0..MaxKg
    <3>1. d.promises[h].sent \in 0..MaxKg
      <4>1. d.promises[h] \in PromiseType BY <1>1, <2>4, DbIs
      <4> QED BY <4>1 DEF PromiseType
    <3> QED BY <1>1, <1>2, <2>3, <2>4, <3>1, MoreIs, DbIs
  <2>6. p \in PromiseType BY <1>1, <2>2, <2>3, <2>4, RestoredIs
  <2>7. MovedStatus(For[h], S) BY StatusToIs DEF NewStatus
  <2>8. MovedPromise(For[h], Row(h, p)) BY <2>4, <2>6 DEF MovedPromise
  <2>9. \A g \in Holders, q \in PromiseType : Row(h, p) = Row(g, q) => g \in H BY RowIsOne
  <2> QED BY <1>1, <2>3, <2>4, <2>5, <2>7, <2>8, <2>9, MovedWrites, TypesAre
<1>7. CASE CloseEffect(j, d)
  <2>1. PICK c \in j.item :
          write = Moved(c, j.qty, d.kg[c] - j.qty, Row(c, "CLOSED"), <<>>)
    BY <1>7 DEF CloseEffect
  <2>2. c = x /\ c \in Coils /\ c \in Items BY <1>1, <1>7, AskedItems DEF CloseEffect, Items
  <2>3. d.kg[c] - j.qty \in (-MaxKg)..MaxKg BY <1>1, <1>2, <2>2, ChangeIs, DbIs
  <2>4. MovedStatus(c, Row(c, "CLOSED")) BY <2>2 DEF MovedStatus, NewStatus
  <2> QED BY <1>1, <1>2, <2>1, <2>2, <2>3, <2>4, NoPromise, MovedWrites
<1>8. CASE ReopenEffect(j, d)
  <2>1. PICK c \in j.item :
          write = Moved(c, d.kg[c] + d.liquidated[c], 0, Row(c, "OPEN"), <<>>)
    BY <1>8 DEF ReopenEffect
  <2>2. c = x /\ c \in Coils /\ c \in Items
    <3>1. j.op = "reopen" BY <1>8 DEF ReopenEffect
    <3>2. j.item = {x} /\ x \in Coils BY <1>1, <3>1, AskedItems
    <3> QED BY <2>1, <3>2 DEF Items
  <2>3. d.kg[c] + d.liquidated[c] \in 0..MaxKg
    <3>1. Fine(d, c) BY <1>1, <2>2, PlaceIsOne DEF Good
    <3> QED BY <2>2, <3>1 DEF Fine, FineCoil
  <2>4. MovedStatus(c, Row(c, "OPEN")) BY <2>2 DEF MovedStatus, NewStatus
  <2> QED BY <1>1, <2>1, <2>2, <2>3, <2>4, NoPromise, MovedWrites, TypesAre
<1> QED BY <1>3, <1>4, <1>5, <1>6, <1>7, <1>8 DEF Effect
-----------------------------------------------------------------------------
(* Two transactions that have written.                                      *)

\* Who reverses a delivery gives back what he takes: kilos and promise together.
LEMMA UndoRaises ==
  ASSUME PromisesAssumption, NEW d, Good(d), NEW j, Asked(j, d), UndoEffect(j, d),
         NEW write, write = j.write, NEW e, e = After(d, write), NEW x, PlacesOf(j) = {x}
  PROVE  /\ ItemAvailable(e, x) >= ItemAvailable(d, x) /\ e \in DbType
         /\ x \in Items /\ e.kg[x] > d.kg[x] /\ (x \in Coils => e.liquidated[x] = 0)
         /\ x \in Coils => e.status[x] \in {d.status[x], "OPEN"}
         /\ \A h \in Holders : PlaceOf(h) = x => FinePromise(h, e.promises[h])
<1>1. AvailabilityAssumption /\ d \in DbType BY DEF PromisesAssumption, Good
<1>2. PICK h \in j.holder : \E S \in StatusTo(For[h], "OPEN") :
        /\ d.kg[For[h]] + d.promises[h].sent <= MaxKg
        /\ j.write = Moved(For[h], d.kg[For[h]] + d.promises[h].sent, 0, S,
                           Row(h, Restored(d.promises[h])))
  BY DEF UndoEffect
<1>3. PICK p : p = d.promises[h] OBVIOUS
<1>4. PICK r : r = Restored(p) OBVIOUS
<1>5. h \in Holders \ Temporary /\ For[h] \in Items /\ For[h] = x /\ p.sent > 0
  BY <1>1, <1>3, UndoPlace DEF UndoEffect
<1>6. PICK S \in StatusTo(x, "OPEN") :
        d.kg[x] + p.sent <= MaxKg /\ write = Moved(x, d.kg[x] + p.sent, 0, S, Row(h, r))
  BY <1>2, <1>3, <1>4, <1>5
<1>7. /\ r \in PromiseType /\ p \in PromiseType /\ p.state \in {"ACTIVE", "CONSUMED", "RELEASED"}
      /\ p.state = "CONSUMED" => p.qty = 0
      /\ p.state = "RELEASED" => r.state = "RELEASED" /\ r.qty = p.qty
      /\ p.state # "RELEASED" => r.state = "ACTIVE" /\ r.qty = p.qty + p.sent
      /\ r.sent = 0 /\ h \notin Temporary
  BY <1>1, <1>3, <1>4, <1>5, <1>6, RestoredIs
<1>8. d.kg[x] \in 0..MaxKg /\ p.sent \in 0..MaxKg /\ p.qty \in Nat /\ MaxKg \in Nat
  BY <1>1, <1>5, <1>7, DbIs, TypesAre DEF PromiseType
<1>9. d.kg[x] + p.sent \in 0..MaxKg BY <1>6, <1>8, MoreIs
<1>10. MovedStatus(x, S) /\ MovedPromise(x, Row(h, r))
  BY <1>5, <1>7, StatusToIs DEF NewStatus, MovedPromise
<1>11. /\ WritesAt(write, x) /\ e \in DbType /\ e.kg[x] = d.kg[x] + p.sent
       /\ x \in Coils => e.liquidated[x] = 0
       /\ S = <<>> => e.status = d.status
       /\ \A st : S = Row(x, st) => x \in Coils /\ e.status[x] = st
       /\ \A g, q : Row(h, r) = Row(g, q) /\ g \in Holders => e.promises[g] = q
  BY <1>1, <1>5, <1>6, <1>9, <1>10, MovedIs, TypesAre
<1>12. e.promises[h] = r BY <1>5, <1>11
<1>13. \A g \in Holders \ {h} : e.promises[g] = d.promises[g]
  <2>1. write.promises = Row(h, r) BY <1>6, MovedFields
  <2>2. DOMAIN write.promises = {h} BY <2>1, RowIs
  <2> QED BY <1>1, <2>2, AfterIs, OverIs, DbIs
<1>14. Reserved(e, x) = Reserved(d, x) - PromiseFor(d, h, x) + PromiseFor(e, h, x)
  BY <1>1, <1>5, <1>11, <1>13, ReservedMoves
<1>15. PromiseFor(d, h, x) \in Nat /\ PromiseFor(e, h, x) \in Int
       /\ PromiseFor(e, h, x) - PromiseFor(d, h, x) <= p.sent
  <2>1. PromiseFor(d, h, x) = IF p.state = "ACTIVE" THEN p.qty ELSE 0
    BY <1>3, <1>5 DEF PromiseFor, Active
  <2>2. PromiseFor(e, h, x) = IF r.state = "ACTIVE" THEN r.qty ELSE 0
    BY <1>5, <1>12 DEF PromiseFor, Active
  <2>3. r.qty \in Nat BY <1>7, <1>8
  <2> QED BY <1>7, <1>8, <2>1, <2>2, <2>3
<1>16. ItemAvailable(e, x) >= ItemAvailable(d, x)
  <2>1. ItemAvailable(e, x) = e.kg[x] - Reserved(e, x) /\ ItemAvailable(d, x) = d.kg[x] - Reserved(d, x)
    BY <1>1, <1>5, <1>11, AvailableOf
  <2>2. Reserved(e, x) \in Nat /\ Reserved(d, x) \in Nat BY <1>1, <1>11, ReservedNat
  <2> QED BY <1>8, <1>11, <1>14, <1>15, <2>1, <2>2
<1>17. x \in Coils => e.status[x] \in {d.status[x], "OPEN"}
  <2>1. S = <<>> \/ S = Row(x, "OPEN") BY DEF StatusTo
  <2> QED BY <1>11, <2>1
<1>18. \A g \in Holders : PlaceOf(g) = x => FinePromise(g, e.promises[g])
  <2>1. FinePromise(h, r) BY <1>5, <1>7, <1>8 DEF FinePromise
  <2>2. \A g \in Holders : PlaceOf(g) = x => FinePromise(g, d.promises[g])
    BY <1>1, <1>5, PlaceIsOne DEF Good, Fine
  <2> QED BY <1>12, <1>13, <2>1, <2>2
<1> QED BY <1>5, <1>8, <1>11, <1>16, <1>17, <1>18

\* What it takes to leave less to an aggregate: a coil that counts for it, or a promise of it.
LEMMA Takes ==
  ASSUME PromisesAssumption, NEW d, Good(d), NEW j, Asked(j, d), Effect(j, d),
         NEW write, write = j.write, NEW e, e = After(d, write), Good(e),
         NEW x, PlacesOf(j) = {x}, NEW s \in Specs, ~(Share(e, s, x) >= Share(d, s, x))
  PROVE  \/ x \in Items /\ x \in Candidates(d, s) /\ j.op # "undo"
         \/ /\ x \in Holders /\ For[x] = s /\ j.op = "promise" /\ j.holder = {x}
            /\ x \notin Items /\ write.promises[x].qty > 0
<1>1. AvailabilityAssumption /\ d \in DbType /\ e \in DbType BY DEF PromisesAssumption, Good
<1>2. x \in Places BY <1>1, AskedPlace
<1>3. CASE x \in Items
  <2>1. Fine(d, x) /\ Fine(e, x) BY <1>2 DEF Good
  <2>2. Share(e, s, x) >= 0 /\ (x \notin Counted(d, s) => Share(d, s, x) = 0)
        /\ (x \notin Counted(e, s) => Share(e, s, x) = 0)
    BY <1>1, <1>3, <2>1, ItemShares
  <2>3. x \in Counted(d, s) BY <2>2
  <2>4. ASSUME j.op = "undo" PROVE FALSE
    <3>1. UndoEffect(j, d) BY <2>4 DEF Effect, PromiseEffect, ScrapEffect, DispatchEffect, CloseEffect, ReopenEffect
    <3>2. /\ ItemAvailable(e, x) >= ItemAvailable(d, x) /\ e.kg[x] > d.kg[x]
          /\ x \in Coils => e.status[x] \in {d.status[x], "OPEN"}
      BY <3>1, UndoRaises
    <3>3. d.kg[x] \in Int /\ e.kg[x] \in Int BY <1>1, <1>3, AvailableOf
    <3>4. x \in Coils BY <1>1, <2>3, CountedCoils
    <3>5. x \in Counted(e, s) BY <2>3, <3>2, <3>3, <3>4 DEF Counted, Candidates
    <3> QED BY <2>3, <3>2, <3>5 DEF Share
  <2> QED BY <1>3, <2>3, <2>4 DEF Counted
<1>4. CASE x \notin Items
  <2>1. j.op = "promise" /\ x \in Holders BY <1>1, <1>2, <1>4, AskedPlace, PlaceIsOne
  <2>2. PICK g \in Holders : j.holder = {g} /\ d.promises[g].state # "ACTIVE"
    BY <2>1, AskedKinds DEF AskedPromise
  <2>3. g = x
    <3>1. PlaceOf(g) = x BY <1>1, <2>2, AskedPlace
    <3> QED BY <1>1, <1>4, <3>1, PlaceIsOne DEF PlaceOf
  <2>4. PromiseEffect(j, d)
    BY <2>1 DEF Effect, UndoEffect, PromiseEffect, ScrapEffect, DispatchEffect, CloseEffect, ReopenEffect
  <2>5. PICK p : /\ p \in PromiseType /\ write = Promised(x, p) /\ p.qty \in Nat
    <3>1. PICK h \in j.holder, q \in 0..MaxKg :
            j.write = Promised(h, [state |-> "ACTIVE", qty |-> q, sent |-> d.promises[h].sent])
      BY <2>4 DEF PromiseEffect
    <3>2. PICK p : p = [state |-> "ACTIVE", qty |-> q, sent |-> d.promises[h].sent] OBVIOUS
    <3>3. h = x BY <2>2, <2>3, <3>1
    <3>4. d.promises[h] \in PromiseType BY <1>1, <2>1, <3>3, DbIs
    <3>5. p \in PromiseType BY <3>2, <3>4 DEF PromiseType
    <3>6. p.qty \in Nat BY <1>1, <3>2, TypesAre
    <3>7. write = Promised(x, p) BY <3>1, <3>2, <3>3
    <3> QED BY <3>5, <3>6, <3>7
  <2>6. e.promises = [d.promises EXCEPT ![x] = p] BY <1>1, <2>1, <2>5, PromisedIs
  <2>7. e.promises[x] = p BY <1>1, <2>1, <2>6, DbIs
  <2>8. x \notin Counted(d, s) /\ x \notin Counted(e, s) BY <1>1, <1>4, CountedCoils DEF Items
  <2>9. x \notin Active(d, s) BY <2>2, <2>3 DEF Active
  <2>10. Share(d, s, x) = 0 BY <2>8, <2>9 DEF Share
  <2>11. x \in Active(e, s) /\ Share(e, s, x) = 0 - p.qty BY <2>7, <2>8, <2>10 DEF Share
  <2>12. p.qty > 0 BY <2>5, <2>10, <2>11
  <2>13. write.promises[x] = p
    <3>1. write.promises = Row(x, p) BY <2>5 DEF Promised
    <3> QED BY <3>1, RowIs
  <2> QED BY <1>4, <2>1, <2>2, <2>3, <2>11, <2>12, <2>13 DEF Active
<1> QED BY <1>3, <1>4
-----------------------------------------------------------------------------
(* What one transaction commits, and another has yet to.                    *)

\* The rows this transaction read are as it read them.
SameFor(j, d, e) ==
  /\ \A y \in PlacesOf(j) \cap Items : e.kg[y] = d.kg[y]
  /\ \A y \in PlacesOf(j) \cap Coils : e.status[y] = d.status[y] /\ e.liquidated[y] = d.liquidated[y]
  /\ \A h \in j.holder : e.promises[h] = d.promises[h]

\* No coil enters the aggregate it promises, and none that was received is to come again.
NoneEnters(j, d, e) ==
  /\ j.op = "promise" =>
       \A h \in j.holder : For[h] \in Specs => Candidates(e, For[h]) \subseteq Candidates(d, For[h])
  /\ \A c \in Coils : d.status[c] # "ABSENT" => e.status[c] # "ABSENT"

LEMMA EffectSame ==
  ASSUME AvailabilityAssumption, NEW j, NEW d, NEW e, Asked(j, d), Effect(j, d), SameFor(j, d, e)
  PROVE  Effect(j, e)
<1>1. PICK x : PlacesOf(j) = {x} BY AskedPlace
<1>2. CASE PromiseEffect(j, d)
  <2>1. PromiseEffect(j, e) BY <1>2 DEF PromiseEffect, SameFor
  <2> QED BY <2>1 DEF Effect
<1>3. CASE ScrapEffect(j, d)
  <2>1. \A i \in j.item : e.kg[i] = d.kg[i]
    <3>1. j.item = {x} /\ x \in Items BY <1>1, <1>3, AskedItems DEF ScrapEffect
    <3> QED BY <1>1, <3>1 DEF SameFor
  <2>2. ScrapEffect(j, e) BY <1>3, <2>1 DEF ScrapEffect
  <2> QED BY <2>2 DEF Effect
<1>4. CASE DispatchEffect(j, d)
  <2>1. \A h \in j.holder : e.kg[For[h]] = d.kg[For[h]] /\ e.promises[h] = d.promises[h]
    <3> TAKE h \in j.holder
    <3>1. For[h] = x /\ x \in Items BY <1>1, <1>4, DispatchPlace DEF DispatchEffect
    <3> QED BY <1>1, <3>1 DEF SameFor
  <2>2. DispatchEffect(j, e) BY <1>4, <2>1 DEF DispatchEffect
  <2> QED BY <2>2 DEF Effect
<1>5. CASE UndoEffect(j, d)
  <2>1. \A h \in j.holder : e.kg[For[h]] = d.kg[For[h]] /\ e.promises[h] = d.promises[h]
    <3> TAKE h \in j.holder
    <3>1. For[h] = x /\ x \in Items BY <1>1, <1>5, UndoPlace DEF UndoEffect
    <3> QED BY <1>1, <3>1 DEF SameFor
  <2>2. UndoEffect(j, e) BY <1>5, <2>1 DEF UndoEffect
  <2> QED BY <2>2 DEF Effect
<1>6. CASE CloseEffect(j, d)
  <2>1. \A c \in j.item : e.kg[c] = d.kg[c] /\ e.status[c] = d.status[c]
    <3>1. j.item = {x} /\ x \in Coils /\ x \in Items BY <1>1, <1>6, AskedItems DEF CloseEffect
    <3> QED BY <1>1, <3>1 DEF SameFor
  <2>2. CloseEffect(j, e) BY <1>6, <2>1 DEF CloseEffect
  <2> QED BY <2>2 DEF Effect
<1>7. CASE ReopenEffect(j, d)
  <2>1. \A c \in j.item : /\ e.kg[c] = d.kg[c] /\ e.status[c] = d.status[c]
                          /\ e.liquidated[c] = d.liquidated[c]
    <3>1. j.item = {x} /\ x \in Coils /\ x \in Items BY <1>1, <1>7, AskedItems DEF ReopenEffect
    <3> QED BY <1>1, <3>1 DEF SameFor
  <2>2. ReopenEffect(j, e) BY <1>7, <2>1 DEF ReopenEffect
  <2> QED BY <2>2 DEF Effect
<1> QED BY <1>2, <1>3, <1>4, <1>5, <1>6, <1>7 DEF Effect

LEMMA AskedSame ==
  ASSUME AvailabilityAssumption, NEW j, NEW d, NEW e, Asked(j, d), NoneEnters(j, d, e),
         \A h \in j.holder : e.promises[h] = d.promises[h]
  PROVE  Asked(j, e)
<1>1. AskedPromise(j, d) => AskedPromise(j, e) BY DEF AskedPromise, NoneEnters
<1>2. AskedDispatch(j, d) => AskedDispatch(j, e) BY DEF AskedDispatch
<1>3. AskedUndo(j, d) => AskedUndo(j, e) BY DEF AskedUndo
<1>4. \A c \in j.item \cap Coils : e.status[c] # "ABSENT" BY DEF Asked, NoneEnters
<1> QED BY <1>1, <1>2, <1>3, <1>4 DEF Asked

\* Two that are apart do not leave less to one aggregate.
LEMMA NotTogether ==
  ASSUME PromisesAssumption, NEW d, Good(d), NEW j, NEW k, AreApart(j, k, d),
         Asked(j, d), Effect(j, d), j.phase = "written",
         Asked(k, d), Effect(k, d), k.phase = "written",
         NEW a, a = After(d, j.write), Good(a), NEW b, b = After(d, k.write), Good(b),
         NEW x, PlacesOf(j) = {x}, NEW y, PlacesOf(k) = {y}, NEW s \in Specs,
         x \in Items /\ y \in Items => Reserved(d, s) > 0
  PROVE  Share(a, s, x) >= Share(d, s, x) \/ Share(b, s, y) >= Share(d, s, y)
<1> SUFFICES ASSUME ~(Share(a, s, x) >= Share(d, s, x)), ~(Share(b, s, y) >= Share(d, s, y))
             PROVE  FALSE
  OBVIOUS
<1>1. AvailabilityAssumption BY DEF PromisesAssumption
<1>2. \/ x \in Items /\ x \in Candidates(d, s) /\ j.op # "undo"
      \/ /\ x \in Holders /\ For[x] = s /\ j.op = "promise" /\ j.holder = {x}
         /\ x \notin Items /\ j.write.promises[x].qty > 0
  BY Takes
<1>3. \/ y \in Items /\ y \in Candidates(d, s) /\ k.op # "undo"
      \/ /\ y \in Holders /\ For[y] = s /\ k.op = "promise" /\ k.holder = {y}
         /\ y \notin Items /\ k.write.promises[y].qty > 0
  BY Takes
<1>4. ~TakeTogether(j, k, d) /\ j.rows \cap k.rows = {} BY DEF AreApart, HeldBy
<1>5. x \in j.rows /\ y \in k.rows BY <1>1, AskedPlace
<1>6. ASSUME x \in Holders, For[x] = s, j.op = "promise", j.holder = {x}
      PROVE  Candidates(d, s) \subseteq j.rows
  BY <1>6, AskedKinds DEF AskedPromise
<1>7. ASSUME y \in Holders, For[y] = s, k.op = "promise", k.holder = {y}
      PROVE  Candidates(d, s) \subseteq k.rows
  BY <1>7, AskedKinds DEF AskedPromise
<1>8. CASE x \in Items /\ y \in Items
  <2>1. x \in PlacesOf(j) \cap Candidates(d, s) /\ y \in PlacesOf(k) \cap Candidates(d, s)
    BY <1>2, <1>3, <1>8
  <2>2. j.op # "undo" /\ k.op # "undo" /\ Reserved(d, s) > 0 BY <1>2, <1>3, <1>8
  <2>3. TakeTogether(j, k, d) BY <2>1, <2>2 DEF TakeTogether
  <2> QED BY <1>4, <2>3
<1>9. CASE x \notin Items /\ y \notin Items
  <2>1. TakeTogether(j, k, d) BY <1>2, <1>3, <1>9 DEF TakeTogether
  <2> QED BY <1>4, <2>1
<1>10. CASE x \in Items /\ y \notin Items
  <2>1. x \in Candidates(d, s) BY <1>2, <1>10
  <2>2. Candidates(d, s) \subseteq k.rows BY <1>3, <1>7, <1>10
  <2> QED BY <1>4, <1>5, <2>1, <2>2
<1>11. CASE x \notin Items /\ y \in Items
  <2>1. y \in Candidates(d, s) BY <1>3, <1>11
  <2>2. Candidates(d, s) \subseteq j.rows BY <1>2, <1>6, <1>11
  <2> QED BY <1>4, <1>5, <2>1, <2>2
<1> QED BY <1>8, <1>9, <1>10, <1>11

\* A commit at one place, and what another has written elsewhere.
LEMMA BesideGood ==
  ASSUME AvailabilityAssumption, NEW d, Good(d), NEW e, Good(e), NEW x \in Places, Differ(d, e, x),
         NEW write, NEW y \in Places, WritesAt(write, y), y # x,
         NEW b, b = After(d, write), Good(b), NEW ab, ab = After(e, write),
         \A s \in Specs : \/ Share(e, s, x) >= Share(d, s, x)
                          \/ Share(b, s, y) >= Share(d, s, y)
                          \/ Reserved(ab, s) = 0
  PROVE  Good(ab) /\ Differ(b, ab, x) /\ Differ(e, ab, y)
<1>1. d \in DbType /\ e \in DbType /\ b \in DbType BY DEF Good
<1>2. ab \in DbType BY <1>1, AfterTyped
<1>3. Differ(d, b, y) /\ Differ(e, ab, y) BY <1>1, AfterDiffers
<1>4. Differ(b, ab, x) BY <1>1, AfterAlike DEF Differ
<1> QED BY <1>1, <1>2, <1>3, <1>4, Together

LEMMA WrittenIs ==
  ASSUME PromisesAssumption, NEW d, Good(d), NEW j, Right(j, d), j.phase = "written",
         NEW write, write = j.write, NEW e, e = After(d, write)
  PROVE  /\ Asked(j, d) /\ Effect(j, d) /\ HasWritten(j, d) /\ Good(e)
         /\ \E x \in Places : PlacesOf(j) = {x} /\ WritesIn(j.holder, write, e, x) /\ Differ(d, e, x)
<1>1. AvailabilityAssumption /\ d \in DbType BY DEF PromisesAssumption, Good
<1>2. Asked(j, d) /\ HasWritten(j, d) BY DEF Right, NoJob
<1>3. Effect(j, d) /\ Good(e) BY <1>2 DEF HasWritten
<1>4. PICK x \in Places : PlacesOf(j) = {x} BY <1>1, <1>2, AskedPlace
<1>5. WritesIn(j.holder, write, e, x) BY <1>2, <1>3, <1>4, EffectWrites
<1>6. Differ(d, e, x) BY <1>1, <1>5, AfterDiffers DEF WritesIn
<1> QED BY <1>2, <1>3, <1>4, <1>5, <1>6

LEMMA PairGood ==
  ASSUME PromisesAssumption, NEW d, Good(d), NEW j, NEW k, AreApart(j, k, d),
         Right(j, d), j.phase = "written", Right(k, d), k.phase = "written",
         NEW a, a = After(d, j.write)
  PROVE  Good(After(a, k.write)) /\ PlacesOf(j) \cap PlacesOf(k) = {}
<1>1. AvailabilityAssumption /\ d \in DbType BY DEF PromisesAssumption, Good
<1>2. PICK b : b = After(d, k.write) OBVIOUS
<1>3. PICK ab : ab = After(a, k.write) OBVIOUS
<1>4. Asked(j, d) /\ Effect(j, d) /\ Good(a) BY WrittenIs
<1>5. Asked(k, d) /\ Effect(k, d) /\ Good(b) BY <1>2, WrittenIs
<1>6. PICK x \in Places : PlacesOf(j) = {x} /\ Differ(d, a, x) BY WrittenIs
<1>7. PICK y \in Places : PlacesOf(k) = {y} /\ WritesIn(k.holder, k.write, b, y) /\ Differ(d, b, y)
  BY <1>2, WrittenIs
<1>8. y # x /\ WritesAt(k.write, y)
  <2>1. x \in j.rows /\ y \in k.rows BY <1>1, <1>4, <1>5, <1>6, <1>7, AskedPlace
  <2>2. j.rows \cap k.rows = {} BY DEF AreApart, HeldBy
  <2> QED BY <1>7, <2>1, <2>2 DEF WritesIn
<1>9. ASSUME NEW s \in Specs
      PROVE  \/ Share(a, s, x) >= Share(d, s, x) \/ Share(b, s, y) >= Share(d, s, y)
             \/ Reserved(ab, s) = 0
  <2>1. CASE x \in Items /\ y \in Items
    <3>1. a \in DbType /\ ab \in DbType /\ Differ(a, ab, y)
      <4>1. a \in DbType /\ b \in DbType BY <1>4, <1>5 DEF Good
      <4>2. ab \in DbType BY <1>1, <1>2, <1>3, <4>1, AfterTyped
      <4> QED BY <1>3, <1>8, <4>1, <4>2, AfterDiffers
    <3>2. \A h \in Holders : For[h] = s => ab.promises[h] = d.promises[h]
      <4> TAKE h \in Holders
      <4> HAVE For[h] = s
      <4>1. PlaceOf(h) = h /\ h \in Places /\ h # x /\ h # y BY <1>1, <2>1, PlaceIsOne
      <4>2. Alike(d, a, h) /\ Alike(a, ab, h) BY <1>6, <3>1, <4>1 DEF Differ
      <4> QED BY <4>1, <4>2 DEF Alike
    <3>3. Reserved(ab, s) = Reserved(d, s) BY <1>1, <3>2, ReservedSame
    <3>4. Reserved(d, s) \in Nat BY <1>1, ReservedNat
    <3>5. CASE Reserved(d, s) > 0 BY <1>2, <1>4, <1>5, <1>6, <1>7, <3>5, NotTogether
    <3> QED BY <3>3, <3>4, <3>5
  <2>2. CASE ~(x \in Items /\ y \in Items)
    BY <1>2, <1>4, <1>5, <1>6, <1>7, <2>2, NotTogether
  <2> QED BY <2>1, <2>2
<1>10. Good(ab) BY <1>1, <1>2, <1>3, <1>4, <1>5, <1>6, <1>7, <1>8, <1>9, BesideGood
<1> QED BY <1>3, <1>6, <1>7, <1>8, <1>10

\* Whoever is in progress elsewhere goes on.
LEMMA OthersKeep ==
  ASSUME PromisesAssumption, NEW d, Good(d), NEW e, Good(e), NEW x \in Places, Differ(d, e, x),
         NEW k, Right(k, d), NoneEnters(k, d, e), \A h \in k.holder : e.promises[h] = d.promises[h],
         k.phase = "written" => x \notin PlacesOf(k) /\ Good(After(e, k.write))
  PROVE  Right(k, e)
<1>1. AvailabilityAssumption /\ d \in DbType /\ e \in DbType BY DEF PromisesAssumption, Good
<1>2. CASE k = NoJob BY <1>2 DEF Right
<1>3. CASE k # NoJob
  <2>1. Asked(k, d) BY <1>3 DEF Right
  <2>2. Asked(k, e) BY <1>1, <2>1, AskedSame
  <2>3. ASSUME k.phase = "written" PROVE HasWritten(k, e)
    <3>1. PICK b : b = After(d, k.write) OBVIOUS
    <3>2. PICK ab : ab = After(e, k.write) OBVIOUS
    <3>3. Effect(k, d) /\ HasWritten(k, d) /\ Good(b) BY <2>3, <3>1, WrittenIs
    <3>4. PICK y \in Places : PlacesOf(k) = {y} /\ WritesIn(k.holder, k.write, b, y)
      BY <2>3, <3>1, WrittenIs
    <3>5. y # x /\ Alike(d, e, y) BY <2>3, <3>4 DEF Differ
    <3>6. SameFor(k, d, e) BY <3>4, <3>5 DEF SameFor, Alike
    <3>7. Effect(k, e) BY <1>1, <2>1, <3>3, <3>6, EffectSame
    <3>8. \A c \in PlacesOf(k) \cap Coils : e.status[c] # "ABSENT"
      BY <3>3 DEF HasWritten, NoneEnters
    <3>9. ASSUME NEW c \in DOMAIN k.write.status
          PROVE  k.write.status[c] = "OPEN" \/ Reserved(ab, c) = 0
      <4>1. k.write.status[c] = "OPEN" \/ Reserved(b, c) = 0 BY <3>1, <3>3 DEF HasWritten
      <4>2. c = y /\ c \in Coils BY <3>4 DEF WritesIn
      <4>3. Alike(b, ab, c) BY <1>1, <3>1, <3>2, <3>5, <4>2, AfterAlike
      <4>4. Reserved(ab, c) = Reserved(b, c) BY <1>1, <4>2, <4>3, AlikeReserved DEF Items
      <4> QED BY <4>1, <4>4
    <3> QED BY <2>3, <3>2, <3>7, <3>8, <3>9 DEF HasWritten
  <2> QED BY <2>2, <2>3 DEF Right
<1> QED BY <1>2, <1>3

\* Two that were apart stay so.
LEMMA ApartStay ==
  ASSUME PromisesAssumption, NEW d, Good(d), NEW e, Good(e), NEW x \in Places, Differ(d, e, x),
         NEW k, Right(k, d), NEW m, Right(m, d), AreApart(k, m, d),
         k.phase = "written" => x \notin PlacesOf(k), m.phase = "written" => x \notin PlacesOf(m),
         \A s \in Specs : /\ k.phase = "written" /\ PlacesOf(k) \cap Candidates(d, s) # {}
                          /\ Reserved(e, s) > 0
                          => Reserved(d, s) > 0
  PROVE  AreApart(k, m, e)
<1>1. AvailabilityAssumption /\ d \in DbType /\ e \in DbType BY DEF PromisesAssumption, Good
<1>2. ASSUME k.phase = "written", m.phase = "written", TakeTogether(k, m, e)
      PROVE  TakeTogether(k, m, d)
  <2>1. PICK y \in Places : PlacesOf(k) = {y} BY <1>2, WrittenIs
  <2>2. PICK z \in Places : PlacesOf(m) = {z} BY <1>2, WrittenIs
  <2>3. Alike(d, e, y) /\ Alike(d, e, z) BY <1>2, <2>1, <2>2 DEF Differ
  <2>4. \A s \in Specs, v \in {y, z} : v \in Candidates(e, s) => v \in Candidates(d, s)
    BY <1>1, <2>3 DEF Candidates, Alike, AvailabilityAssumption
  <2>5. CASE /\ k.op # "undo" /\ m.op # "undo"
             /\ \E s \in Specs : /\ Reserved(e, s) > 0 /\ PlacesOf(k) \cap Candidates(e, s) # {}
                                 /\ PlacesOf(m) \cap Candidates(e, s) # {}
    <3>1. PICK s \in Specs : /\ Reserved(e, s) > 0 /\ PlacesOf(k) \cap Candidates(e, s) # {}
                             /\ PlacesOf(m) \cap Candidates(e, s) # {}
      BY <2>5
    <3>2. y \in Candidates(d, s) /\ z \in Candidates(d, s) BY <2>1, <2>2, <2>4, <3>1
    <3>3. PlacesOf(k) \cap Candidates(d, s) # {} /\ PlacesOf(m) \cap Candidates(d, s) # {}
      BY <2>1, <2>2, <3>2
    <3>4. Reserved(d, s) > 0 BY <1>2, <3>1, <3>3
    <3> QED BY <2>5, <3>3, <3>4 DEF TakeTogether
  <2>6. CASE ~(/\ k.op # "undo" /\ m.op # "undo"
               /\ \E s \in Specs : /\ Reserved(e, s) > 0 /\ PlacesOf(k) \cap Candidates(e, s) # {}
                                   /\ PlacesOf(m) \cap Candidates(e, s) # {})
    BY <1>2, <2>6 DEF TakeTogether
  <2> QED BY <2>5, <2>6
<1> QED BY <1>2 DEF AreApart

-----------------------------------------------------------------------------
(* A commit.                                                                *)

\* Who promises an aggregate does not see a coil enter it (Quiet, NobodyPromises).
NoneOpens(j, k) ==
  k.op = "promise" =>
    \A c \in DOMAIN j.write.status : j.write.status[c] = "OPEN" =>
      \A h \in k.holder : For[h] \in Specs => c \notin Matches[For[h]]

LEMMA StatusAfter ==
  ASSUME NEW d \in DbType, NEW write, NEW e, e = After(d, write), NEW c \in Coils
  PROVE  e.status[c] = IF c \in DOMAIN write.status THEN write.status[c] ELSE d.status[c]
BY AfterIs, OverIs, DbIs

LEMMA PromisesAfter ==
  ASSUME NEW d \in DbType, NEW write, NEW e, e = After(d, write), NEW h \in Holders
  PROVE  e.promises[h] = IF h \in DOMAIN write.promises THEN write.promises[h] ELSE d.promises[h]
BY AfterIs, OverIs, DbIs

LEMMA JobHolders ==
  ASSUME AvailabilityAssumption, NEW d, NEW k, Right(k, d)
  PROVE  \A h \in k.holder : h \in Holders /\ h \in HeldBy(k)
<1>1. CASE k = NoJob BY <1>1 DEF NoJob
<1>2. CASE k # NoJob
  <2>1. Asked(k, d) BY <1>2 DEF Right
  <2> QED BY <2>1, AskedPlace DEF HeldBy
<1> QED BY <1>1, <1>2

LEMMA CommitKeeps ==
  ASSUME PromisesAssumption, NEW d, Good(d), NEW j, Right(j, d), j.phase = "written",
         NEW e, e = After(d, j.write), NEW k, Right(k, d), AreApart(j, k, d), NoneOpens(j, k)
  PROVE  Right(k, e)
<1>1. AvailabilityAssumption /\ d \in DbType BY DEF PromisesAssumption, Good
<1>2. Asked(j, d) /\ Good(e) BY WrittenIs
<1>3. PICK x \in Places : PlacesOf(j) = {x} /\ WritesIn(j.holder, j.write, e, x) /\ Differ(d, e, x)
  BY WrittenIs
<1>4. ASSUME NEW h \in k.holder PROVE e.promises[h] = d.promises[h]
  <2>1. h \in Holders /\ h \in HeldBy(k) BY <1>1, JobHolders
  <2>2. h \notin j.holder BY <1>1, <2>1, JobHolders DEF AreApart
  <2> QED BY <1>1, <1>3, <2>1, <2>2, PromisesAfter DEF WritesIn
<1>5. NoneEnters(k, d, e)
  <2>1. ASSUME k.op = "promise", NEW h \in k.holder, For[h] \in Specs, NEW c \in Candidates(e, For[h])
        PROVE  c \in Candidates(d, For[h])
    <3>1. c \in Coils /\ c \in Matches[For[h]] /\ e.status[c] = "OPEN"
      BY <1>1, <2>1 DEF Candidates, AvailabilityAssumption
    <3>2. c \notin DOMAIN j.write.status
      <4>1. SUFFICES ASSUME c \in DOMAIN j.write.status PROVE FALSE OBVIOUS
      <4>2. j.write.status[c] = "OPEN" BY <1>1, <3>1, <4>1, StatusAfter
      <4> QED BY <2>1, <3>1, <4>1, <4>2 DEF NoneOpens
    <3>3. d.status[c] = "OPEN" BY <1>1, <3>1, <3>2, StatusAfter
    <3> QED BY <3>1, <3>3 DEF Candidates
  <2>2. ASSUME NEW c \in Coils, d.status[c] # "ABSENT" PROVE e.status[c] # "ABSENT"
    <3>1. CASE c \in DOMAIN j.write.status
      <4>1. e.status[c] \in NewStatus BY <1>1, <1>3, <3>1, StatusAfter DEF WritesIn
      <4> QED BY <4>1 DEF NewStatus
    <3>2. CASE c \notin DOMAIN j.write.status BY <1>1, <2>2, <3>2, StatusAfter
    <3> QED BY <3>1, <3>2
  <2> QED BY <2>1, <2>2 DEF NoneEnters
<1>6. k.phase = "written" => x \notin PlacesOf(k) /\ Good(After(e, k.write))
  BY <1>3, PairGood
<1> QED BY <1>2, <1>3, <1>4, <1>5, <1>6, OthersKeep

LEMMA CommitApart ==
  ASSUME PromisesAssumption, NEW d, Good(d), NEW j, Right(j, d), j.phase = "written",
         NEW e, e = After(d, j.write), NEW k, Right(k, d), NEW m, Right(m, d),
         AreApart(j, k, d), AreApart(j, m, d), AreApart(k, m, d)
  PROVE  AreApart(k, m, e)
<1>1. AvailabilityAssumption /\ d \in DbType BY DEF PromisesAssumption, Good
<1>2. Asked(j, d) /\ Good(e) BY WrittenIs
<1>3. PICK x \in Places : PlacesOf(j) = {x} /\ WritesIn(j.holder, j.write, e, x) /\ Differ(d, e, x)
  BY WrittenIs
<1>4. (k.phase = "written" => x \notin PlacesOf(k)) /\ (m.phase = "written" => x \notin PlacesOf(m))
  BY <1>3, PairGood
<1>5. ASSUME NEW s \in Specs, k.phase = "written", PlacesOf(k) \cap Candidates(d, s) # {},
             Reserved(e, s) > 0
      PROVE  Reserved(d, s) > 0
  <2>1. CASE \A h \in Holders : For[h] = s => e.promises[h] = d.promises[h]
    BY <1>1, <1>5, <2>1, ReservedSame
  <2>2. ASSUME NEW h \in Holders, For[h] = s, e.promises[h] # d.promises[h] PROVE FALSE
    <3>1. PlaceOf(h) = h /\ h \in Places /\ h \notin Items BY <1>1, <2>2, PlaceIsOne
    <3>2. h = x BY <1>3, <2>2, <3>1 DEF Differ, Alike
    <3>3. j.op = "promise" BY <1>1, <1>2, <1>3, <3>1, <3>2, AskedItems
    <3>4. PICK g \in Holders : j.holder = {g} /\ (For[g] \in Specs => Candidates(d, For[g]) \subseteq j.rows)
      BY <1>2, <3>3, AskedKinds DEF AskedPromise
    <3>5. g = h
      <4>1. PlaceOf(g) = h BY <1>3, <3>2, <3>4 DEF PlacesOf
      <4>2. For[g] \in Specs BY <1>1, <3>1, <4>1, PlaceIsOne
      <4> QED BY <1>1, <4>1, <4>2, PlaceIsOne
    <3>6. Candidates(d, s) \subseteq j.rows BY <2>2, <3>4, <3>5
    <3>7. PICK y \in Places : PlacesOf(k) = {y} BY <1>5, WrittenIs
    <3>8. y \in k.rows /\ y \in Candidates(d, s)
      <4>1. Asked(k, d) BY <1>5, WrittenIs
      <4> QED BY <1>1, <1>5, <3>7, <4>1, AskedPlace
    <3>9. j.rows \cap k.rows = {} BY <1>5 DEF AreApart, HeldBy
    <3> QED BY <3>6, <3>8, <3>9
  <2> QED BY <2>1, <2>2
<1> QED BY <1>2, <1>3, <1>4, <1>5, ApartStay

-----------------------------------------------------------------------------
(* A promise that is released or expires: a row of it, and nothing else.    *)

Forgets(d, e, h) ==
  /\ e \in DbType /\ e.kg = d.kg /\ e.status = d.status /\ e.liquidated = d.liquidated
  /\ \A g \in Holders \ {h} : e.promises[g] = d.promises[g]
  /\ e.promises[h].qty = d.promises[h].qty /\ e.promises[h].sent = d.promises[h].sent
  /\ d.promises[h].state = "ACTIVE"
  /\ e.promises[h].state = "RELEASED" \/ (e.promises[h].state = "EXPIRED" /\ h \in Temporary)

LEMMA ForgetsReserved ==
  ASSUME AvailabilityAssumption, NEW d \in DbType, NEW e, NEW h \in Holders, Forgets(d, e, h), NEW x
  PROVE  /\ Reserved(e, x) <= Reserved(d, x) /\ Reserved(e, x) \in Nat /\ Reserved(d, x) \in Nat
         /\ x # For[h] => Reserved(e, x) = Reserved(d, x)
<1>1. e \in DbType /\ \A g \in Holders \ {h} : e.promises[g] = d.promises[g] BY DEF Forgets
<1>2. Reserved(e, x) = Reserved(d, x) - PromiseFor(d, h, x) + PromiseFor(e, h, x)
  BY <1>1, ReservedMoves
<1>3. PromiseFor(e, h, x) = 0 BY DEF PromiseFor, Active, Forgets
<1>4. PromiseFor(d, h, x) \in Nat /\ (x # For[h] => PromiseFor(d, h, x) = 0)
  <2>1. d.promises[h].qty \in Nat
    <3>1. d.promises[h] \in PromiseType BY DbIs
    <3> QED BY <3>1, TypesAre DEF PromiseType
  <2> QED BY <2>1 DEF PromiseFor, Active
<1>5. Reserved(e, x) \in Nat /\ Reserved(d, x) \in Nat BY <1>1, ReservedNat
<1> QED BY <1>2, <1>3, <1>4, <1>5

LEMMA ForgetsGood ==
  ASSUME AvailabilityAssumption, NEW d, Good(d), NEW e, NEW h \in Holders, Forgets(d, e, h)
  PROVE  Good(e)
<1>1. d \in DbType /\ e \in DbType BY DEF Good, Forgets
<1>2. PICK x \in Places : x = PlaceOf(h) BY PlaceIsOne
<1>3. Differ(d, e, x)
  <2> SUFFICES ASSUME NEW y \in Places \ {x} PROVE Alike(d, e, y) BY DEF Differ
  <2> QED BY <1>2 DEF Alike, Forgets
<1>4. ASSUME NEW i \in Items PROVE ItemAvailable(e, i) >= ItemAvailable(d, i)
  <2>1. Reserved(e, i) <= Reserved(d, i) /\ Reserved(e, i) \in Nat /\ Reserved(d, i) \in Nat
    BY <1>1, ForgetsReserved
  <2>2. e.kg[i] = d.kg[i] BY DEF Forgets
  <2> QED BY <1>1, <2>1, <2>2, AvailableOf
<1>5. Fine(e, x)
  <2>1. Fine(d, x) BY DEF Good
  <2>2. x \in Items => ItemAvailable(e, x) >= 0 BY <1>1, <1>4, <2>1, AvailableOf DEF Fine
  <2>3. x \in Coils => FineCoil(e, x)
    <3> SUFFICES ASSUME x \in Coils PROVE FineCoil(e, x) OBVIOUS
    <3>1. FineCoil(d, x) BY <2>1 DEF Fine
    <3>2. \A g \in Holders : For[g] = x /\ d.status[x] = "ABSENT" =>
            e.promises[g].state = "NONE" /\ e.promises[g].sent = 0
      BY <3>1 DEF FineCoil, Forgets
    <3> QED BY <3>1, <3>2 DEF FineCoil, Forgets
  <2>4. FinePromise(h, d.promises[h]) BY <1>2, <2>1 DEF Fine
  <2>5. FinePromise(h, e.promises[h]) BY <2>4 DEF FinePromise, Forgets
  <2>6. \A g \in Holders : PlaceOf(g) = x => FinePromise(g, e.promises[g])
    BY <2>1, <2>5 DEF Fine, Forgets
  <2> QED BY <2>2, <2>3, <2>6 DEF Fine
<1>6. ASSUME NEW s \in Specs PROVE Share(e, s, x) >= Share(d, s, x)
  <2>1. CASE x \in Items
    <3>1. x \in Counted(e, s) <=> x \in Counted(d, s) BY DEF Counted, Candidates, Forgets
    <3>2. x \notin Holders BY <2>1, PlaceIsOne
    <3>3. ItemAvailable(d, x) \in Int /\ ItemAvailable(e, x) \in Int BY <1>1, <2>1, AvailableOf
    <3> QED BY <1>4, <2>1, <3>1, <3>2, <3>3 DEF Share, Active
  <2>2. CASE x \notin Items
    <3>1. x = h BY <1>2, <2>2, PlaceIsOne
    <3>2. x \notin Counted(e, s) /\ x \notin Counted(d, s) BY <1>1, <2>2, CountedCoils DEF Items
    <3>3. x \notin Active(e, s) BY <3>1 DEF Active, Forgets
    <3>4. d.promises[h].state = "ACTIVE" => d.promises[h].qty \in Nat
      <4>1. d.promises[h] \in PromiseType BY <1>1, DbIs
      <4> QED BY <4>1, TypesAre DEF PromiseType
    <3>5. Share(e, s, x) = 0 BY <3>2, <3>3 DEF Share
    <3>6. CASE x \in Active(d, s)
      <4>1. Share(d, s, x) = 0 - d.promises[h].qty BY <3>1, <3>2, <3>6 DEF Share
      <4> QED BY <3>1, <3>4, <3>5, <3>6, <4>1 DEF Active
    <3>7. CASE x \notin Active(d, s) BY <3>2, <3>5, <3>7 DEF Share
    <3> QED BY <3>6, <3>7
  <2> QED BY <2>1, <2>2
<1> QED BY <1>1, <1>3, <1>5, <1>6, OneRaises

LEMMA ForgetsAfter ==
  ASSUME AvailabilityAssumption, NEW d \in DbType, NEW e, NEW h \in Holders, Forgets(d, e, h),
         NEW write, NEW a, a = After(d, write), a \in DbType, NEW b, b = After(e, write),
         h \notin DOMAIN write.promises
  PROVE  Forgets(a, b, h)
<1>1. e \in DbType BY DEF Forgets
<1>2. b \in DbType BY <1>1, AfterTyped
<1>3. a.kg = b.kg /\ a.status = b.status /\ a.liquidated = b.liquidated BY AfterIs DEF Forgets
<1>4. \A g \in Holders \ {h} : b.promises[g] = a.promises[g]
  BY <1>1, PromisesAfter DEF Forgets
<1>5. b.promises[h] = e.promises[h] /\ a.promises[h] = d.promises[h] BY <1>1, PromisesAfter
<1> QED BY <1>2, <1>3, <1>4, <1>5 DEF Forgets

LEMMA ForgetKeeps ==
  ASSUME PromisesAssumption, NEW d, Good(d), NEW e, NEW h \in Holders, Forgets(d, e, h),
         NEW k, Right(k, d), h \notin k.holder
  PROVE  Right(k, e)
<1>1. AvailabilityAssumption /\ d \in DbType /\ e \in DbType BY DEF PromisesAssumption, Good, Forgets
<1>2. \A g \in k.holder : e.promises[g] = d.promises[g] BY <1>1, JobHolders DEF Forgets
<1>3. NoneEnters(k, d, e) BY DEF NoneEnters, Candidates, Forgets
<1>4. CASE k = NoJob BY <1>4 DEF Right
<1>5. CASE k # NoJob
  <2>1. Asked(k, d) BY <1>5 DEF Right
  <2>2. Asked(k, e) BY <1>1, <1>2, <1>3, <2>1, AskedSame
  <2>3. ASSUME k.phase = "written" PROVE HasWritten(k, e)
    <3>1. PICK b : b = After(d, k.write) OBVIOUS
    <3>2. PICK ab : ab = After(e, k.write) OBVIOUS
    <3>3. Effect(k, d) /\ HasWritten(k, d) /\ Good(b) BY <2>3, <3>1, WrittenIs
    <3>4. PICK y \in Places : PlacesOf(k) = {y} /\ WritesIn(k.holder, k.write, b, y)
      BY <2>3, <3>1, WrittenIs
    <3>5. b \in DbType /\ h \notin DOMAIN k.write.promises BY <3>4 DEF WritesIn
    <3>6. Forgets(b, ab, h) BY <1>1, <3>1, <3>2, <3>5, ForgetsAfter
    <3>7. Good(ab) BY <1>1, <3>3, <3>6, ForgetsGood
    <3>8. SameFor(k, d, e) BY <1>2 DEF SameFor, Forgets
    <3>9. Effect(k, e) BY <1>1, <2>1, <3>3, <3>8, EffectSame
    <3>10. \A c \in PlacesOf(k) \cap Coils : e.status[c] # "ABSENT"
      BY <3>3 DEF HasWritten, Forgets
    <3>11. ASSUME NEW c \in DOMAIN k.write.status
           PROVE  k.write.status[c] = "OPEN" \/ Reserved(ab, c) = 0
      <4>1. k.write.status[c] = "OPEN" \/ Reserved(b, c) = 0 BY <3>1, <3>3 DEF HasWritten
      <4>2. Reserved(ab, c) <= Reserved(b, c) /\ Reserved(ab, c) \in Nat
        BY <1>1, <3>5, <3>6, ForgetsReserved
      <4> QED BY <4>1, <4>2
    <3> QED BY <3>2, <3>7, <3>9, <3>10, <3>11 DEF HasWritten
  <2> QED BY <2>2, <2>3 DEF Right
<1> QED BY <1>4, <1>5

LEMMA ForgetApart ==
  ASSUME AvailabilityAssumption, NEW d \in DbType, NEW e, NEW h \in Holders, Forgets(d, e, h),
         NEW k, NEW m, AreApart(k, m, d)
  PROVE  AreApart(k, m, e)
<1>1. \A s : Candidates(e, s) = Candidates(d, s) BY DEF Candidates, Forgets
<1>2. \A s : Reserved(e, s) > 0 => Reserved(d, s) > 0 BY ForgetsReserved
<1>3. TakeTogether(k, m, e) => TakeTogether(k, m, d) BY <1>1, <1>2 DEF TakeTogether
<1> QED BY <1>3 DEF AreApart

-----------------------------------------------------------------------------
(* A purchase is received.                                                  *)

Receives(d, e, c) ==
  /\ e \in DbType /\ d.status[c] = "ABSENT" /\ e.status[c] = "OPEN"
  /\ e.liquidated = d.liquidated /\ e.promises = d.promises
  /\ \A b \in Coils \ {c} : e.status[b] = d.status[b]
  /\ \A i \in Items \ {c} : e.kg[i] = d.kg[i]

LEMMA ReceivesGood ==
  ASSUME AvailabilityAssumption, NEW d, Good(d), NEW e, NEW c \in Coils, Receives(d, e, c)
  PROVE  /\ Good(e) /\ c \in Places /\ Differ(d, e, c)
         /\ \A s \in Specs : Share(e, s, c) >= Share(d, s, c)
<1>1. d \in DbType /\ e \in DbType /\ c \in Places /\ c \in Items
  BY PlaceIsOne DEF Good, Receives, Items
<1>2. Differ(d, e, c)
  <2> SUFFICES ASSUME NEW y \in Places \ {c} PROVE Alike(d, e, y) BY DEF Differ
  <2> QED BY DEF Alike, Receives
<1>3. /\ d.kg[c] = 0 /\ d.liquidated[c] = 0
      /\ \A h \in Holders : For[h] = c => d.promises[h].state = "NONE" /\ d.promises[h].sent = 0
  BY <1>1 DEF Good, Fine, FineCoil, Receives
<1>4. Reserved(e, c) = 0
  <2>1. Active(e, c) = {} BY <1>3 DEF Active, Receives
  <2> QED BY <2>1, ReservedNone
<1>5. e.kg[c] \in 0..MaxKg BY <1>1, DbIs
<1>6. Fine(e, c)
  <2>1. ItemAvailable(e, c) >= 0 BY <1>1, <1>4, AvailableOf
  <2>2. FineCoil(e, c) BY <1>3, <1>5, TypesAre DEF FineCoil, Receives
  <2>3. \A h \in Holders : PlaceOf(h) = c => FinePromise(h, e.promises[h])
    BY <1>1 DEF Good, Fine, Receives
  <2> QED BY <2>1, <2>2, <2>3 DEF Fine
<1>7. ASSUME NEW s \in Specs PROVE Share(e, s, c) >= Share(d, s, c)
  <2>1. c \notin Counted(d, s) BY DEF Counted, Candidates, Receives
  <2>2. Share(d, s, c) = 0 /\ Share(e, s, c) >= 0
    BY <1>1, <1>6, <2>1, ItemShares DEF Good
  <2> QED BY <2>2
<1>8. Good(e) BY <1>1, <1>2, <1>6, <1>7, OneRaises
<1> QED BY <1>1, <1>2, <1>7, <1>8

LEMMA ReceiveKeeps ==
  ASSUME PromisesAssumption, NEW d, Good(d), NEW e, NEW c \in Coils, Receives(d, e, c),
         NEW k, Right(k, d),
         k.op = "promise" => \A h \in k.holder : For[h] \in Specs => c \notin Matches[For[h]]
  PROVE  Right(k, e) /\ (k.phase = "written" => c \notin PlacesOf(k))
<1>1. AvailabilityAssumption /\ d \in DbType /\ e \in DbType BY DEF PromisesAssumption, Good, Receives
<1>2. Good(e) /\ c \in Places /\ Differ(d, e, c) /\ \A s \in Specs : Share(e, s, c) >= Share(d, s, c)
  BY <1>1, ReceivesGood
<1>3. \A h \in k.holder : e.promises[h] = d.promises[h] BY DEF Receives
<1>4. NoneEnters(k, d, e)
  <2>1. \A s \in Specs : Candidates(e, s) \ {c} \subseteq Candidates(d, s)
    BY <1>1 DEF Candidates, Receives, AvailabilityAssumption
  <2>2. \A s \in Specs : c \notin Matches[s] => c \notin Candidates(e, s) BY DEF Candidates
  <2>3. \A b \in Coils : d.status[b] # "ABSENT" => e.status[b] # "ABSENT" BY DEF Receives
  <2> QED BY <2>1, <2>2, <2>3 DEF NoneEnters
<1>5. ASSUME k.phase = "written" PROVE c \notin PlacesOf(k) /\ Good(After(e, k.write))
  <2>1. PICK b : b = After(d, k.write) OBVIOUS
  <2>2. PICK ab : ab = After(e, k.write) OBVIOUS
  <2>3. HasWritten(k, d) /\ Good(b) BY <1>5, <2>1, WrittenIs
  <2>4. PICK y \in Places : PlacesOf(k) = {y} /\ WritesIn(k.holder, k.write, b, y)
    BY <1>5, <2>1, WrittenIs
  <2>5. c \notin PlacesOf(k) BY <2>3 DEF HasWritten, Receives
  <2>6. Good(ab) BY <1>1, <1>2, <2>1, <2>2, <2>3, <2>4, <2>5, BesideGood DEF WritesIn
  <2> QED BY <2>2, <2>5, <2>6
<1> QED BY <1>2, <1>3, <1>4, <1>5, OthersKeep

LEMMA ReceiveApart ==
  ASSUME PromisesAssumption, NEW d, Good(d), NEW e, NEW c \in Coils, Receives(d, e, c),
         NEW k, Right(k, d), NEW m, Right(m, d), AreApart(k, m, d),
         k.phase = "written" => c \notin PlacesOf(k), m.phase = "written" => c \notin PlacesOf(m)
  PROVE  AreApart(k, m, e)
<1>1. AvailabilityAssumption BY DEF PromisesAssumption
<1>2. Good(e) /\ c \in Places /\ Differ(d, e, c) BY <1>1, ReceivesGood
<1>3. \A s : Reserved(e, s) = Reserved(d, s) BY <1>1, ReservedSame DEF Receives
<1> QED BY <1>2, <1>3, ApartStay

-----------------------------------------------------------------------------
(* What a transaction writes is right, and apart from what others have.     *)

\* The transaction, before and after it writes.
WroteFrom(j, k, write, extra) ==
  /\ k.op = j.op /\ k.holder = j.holder /\ k.item = j.item /\ k.qty = j.qty
  /\ k.phase = "written" /\ k.write = write /\ k.rows = j.rows \cup extra
  /\ extra \subseteq Items

\* It holds the coils of every aggregate it takes from; a promise of nothing takes nothing.
Covers(k, d) ==
  /\ \A s \in Specs :
       k.op # "undo" /\ Reserved(d, s) > 0 /\ PlacesOf(k) \cap Candidates(d, s) # {}
         => Candidates(d, s) \ PlacesOf(k) \subseteq k.rows
  /\ k.op = "promise" =>
       \A h \in k.holder : For[h] \in Specs /\ k.write.promises[h].qty > 0 => Candidates(d, For[h]) # {}

LEMMA WroteAsked ==
  ASSUME NEW j, NEW d, Asked(j, d), NEW k, NEW write, NEW extra, WroteFrom(j, k, write, extra)
  PROVE  Asked(k, d) /\ PlacesOf(k) = PlacesOf(j)
<1>1. AskedPromise(j, d) => AskedPromise(k, d) BY DEF AskedPromise, WroteFrom
<1>2. AskedDispatch(j, d) => AskedDispatch(k, d) BY DEF AskedDispatch, WroteFrom
<1>3. AskedUndo(j, d) => AskedUndo(k, d) BY DEF AskedUndo, WroteFrom
<1>4. AskedItem(j) => AskedItem(k) BY DEF AskedItem, WroteFrom
<1>5. k.phase = "written" /\ k.qty = j.qty /\ k.item = j.item /\ k.holder = j.holder
  BY DEF WroteFrom
<1>6. /\ k.item \cup k.holder \subseteq k.rows /\ k.rows \subseteq Holders \cup Items
      /\ \A c \in k.item \cap Coils : d.status[c] # "ABSENT"
  BY DEF Asked, WroteFrom
<1> QED BY <1>1, <1>2, <1>3, <1>4, <1>5, <1>6 DEF Asked, PlacesOf

LEMMA WroteApart ==
  ASSUME AvailabilityAssumption, NEW d, NEW k, Asked(k, d), k.phase = "written", Covers(k, d),
         NEW m, Right(m, d), HeldBy(k) \cap HeldBy(m) = {}
  PROVE  AreApart(k, m, d) /\ AreApart(m, k, d)
<1>1. ASSUME m.phase = "written", TakeTogether(k, m, d) \/ TakeTogether(m, k, d) PROVE FALSE
  <2>1. Asked(m, d) BY <1>1 DEF Right, NoJob
  <2>2. PICK x : PlacesOf(k) = {x} /\ x \in k.rows BY AskedPlace
  <2>3. PICK y : PlacesOf(m) = {y} /\ y \in m.rows BY <2>1, AskedPlace
  <2>4. k.rows \cap m.rows = {} BY <1>1 DEF HeldBy
  <2>5. ASSUME k.op # "undo", NEW s \in Specs, Reserved(d, s) > 0, x \in Candidates(d, s),
               y \in Candidates(d, s)
        PROVE  FALSE
    <3>1. Candidates(d, s) \ {x} \subseteq k.rows BY <2>2, <2>5 DEF Covers
    <3> QED BY <2>2, <2>3, <2>4, <2>5, <3>1
  <2>6. ASSUME k.op = "promise", m.op = "promise", NEW h \in k.holder, NEW g \in m.holder,
               For[h] = For[g], For[h] \in Specs, k.write.promises[h].qty > 0
        PROVE  FALSE
    <3>1. Candidates(d, For[h]) # {} BY <2>6 DEF Covers
    <3>2. Candidates(d, For[h]) \subseteq k.rows
      <4>1. AskedPromise(k, d) BY <2>6, AskedKinds
      <4> QED BY <2>6, <4>1 DEF AskedPromise
    <3>3. Candidates(d, For[g]) \subseteq m.rows
      <4>1. AskedPromise(m, d) BY <2>1, <2>6, AskedKinds
      <4> QED BY <2>6, <4>1 DEF AskedPromise
    <3> QED BY <2>4, <2>6, <3>1, <3>2, <3>3
  <2> QED BY <1>1, <2>2, <2>3, <2>5, <2>6 DEF TakeTogether
<1>2. HeldBy(m) \cap HeldBy(k) = {} OBVIOUS
<1> QED BY <1>1, <1>2 DEF AreApart

\* The rows of the coils of its aggregates, as they are once it has written.
LEMMA LocksCover ==
  ASSUME AvailabilityAssumption, NEW d \in DbType, NEW e, NEW x \in Items, Differ(d, e, x),
         NEW s \in Specs, Reserved(d, s) > 0, x \in Candidates(d, s)
  PROVE  Candidates(d, s) \ {x} \subseteq LockSet(e, {x}) /\ x \in Coils
<1>1. x \in Coils /\ x \in Matches[s] /\ Matches[s] \subseteq Coils
  BY DEF Candidates, AvailabilityAssumption
<1>2. \A h \in Holders : For[h] = s => e.promises[h] = d.promises[h]
  <2> TAKE h \in Holders
  <2> HAVE For[h] = s
  <2>1. PlaceOf(h) = h /\ h \in Places /\ h # x BY PlaceIsOne
  <2>2. Alike(d, e, h) BY <2>1 DEF Differ
  <2> QED BY <2>1, <2>2 DEF Alike
<1>3. Reserved(e, s) = Reserved(d, s) BY <1>2, ReservedSame
<1>4. s \in Affected(e, {x}) BY <1>1, <1>3 DEF Affected
<1>5. Candidates(d, s) \ {x} \subseteq Candidates(e, s)
  <2> SUFFICES ASSUME NEW c \in Candidates(d, s) \ {x} PROVE c \in Candidates(e, s) OBVIOUS
  <2>1. c \in Coils /\ c \in Places BY <1>1, PlaceIsOne DEF Candidates, Items
  <2>2. Alike(d, e, c) BY <2>1 DEF Differ
  <2> QED BY <2>1, <2>2 DEF Alike, Candidates
<1> QED BY <1>1, <1>4, <1>5 DEF LockSet

LEMMA LockSetCoils ==
  ASSUME AvailabilityAssumption, NEW d, NEW c \in Coils
  PROVE  LockSet(d, {c}) \subseteq Coils /\ c \in LockSet(d, {c})
BY DEF LockSet, Affected, Candidates, AvailabilityAssumption

\* Who takes an item covers its aggregates with the rows of OutRows.
LEMMA ItemCovers ==
  ASSUME AvailabilityAssumption, NEW d \in DbType, NEW e, NEW k, NEW x \in Items,
         PlacesOf(k) = {x}, Differ(d, e, x), x \in Coils => LockSet(e, {x}) \subseteq k.rows,
         k.op = "promise" => \A h \in k.holder : For[h] \notin Specs
  PROVE  Covers(k, d)
<1>1. ASSUME NEW s \in Specs, Reserved(d, s) > 0, PlacesOf(k) \cap Candidates(d, s) # {}
      PROVE  Candidates(d, s) \ PlacesOf(k) \subseteq k.rows
  <2>1. x \in Candidates(d, s) BY <1>1
  <2> QED BY <1>1, <2>1, LocksCover
<1> QED BY <1>1 DEF Covers

-----------------------------------------------------------------------------
(* The promises.                                                            *)

LEMMA MaxOfTwo ==
  ASSUME NEW a \in Int
  PROVE  Max({a, 0}) = IF a >= 0 THEN a ELSE 0
<1>1. PICK m \in {a, 0} : \A y \in {a, 0} : m >= y
  <2>1. CASE a >= 0 BY <2>1
  <2>2. CASE ~(a >= 0) BY <2>2
  <2> QED BY <2>1, <2>2
<1>2. Max({a, 0}) \in {a, 0} /\ \A y \in {a, 0} : Max({a, 0}) >= y BY <1>1 DEF Max
<1> QED BY <1>2

LEMMA PromiseIs ==
  ASSUME AvailabilityAssumption, NEW d, Good(d), NEW h \in Holders,
         d.promises[h].state # "ACTIVE", NEW q \in 0..MaxKg,
         NEW p, p = [state |-> "ACTIVE", qty |-> q, sent |-> d.promises[h].sent],
         NEW e, e = After(d, Promised(h, p))
  PROVE  /\ p \in PromiseType /\ e \in DbType /\ Differ(d, e, PlaceOf(h)) /\ FinePromise(h, p)
         /\ e.kg = d.kg /\ e.status = d.status /\ e.liquidated = d.liquidated
         /\ e.promises[h] = p /\ \A g \in Holders \ {h} : e.promises[g] = d.promises[g]
         /\ Reserved(e, For[h]) = Reserved(d, For[h]) + q
<1>1. d \in DbType BY DEF Good
<1>2. d.promises[h] \in PromiseType BY <1>1, DbIs
<1>3. p \in PromiseType BY <1>2 DEF PromiseType
<1>4. /\ WritesAt(Promised(h, p), PlaceOf(h)) /\ e \in DbType
      /\ e.kg = d.kg /\ e.liquidated = d.liquidated /\ e.status = d.status
      /\ e.promises = [d.promises EXCEPT ![h] = p]
  BY <1>1, <1>3, PromisedIs
<1>5. Differ(d, e, PlaceOf(h)) BY <1>1, <1>4, AfterDiffers
<1>6. e.promises[h] = p /\ \A g \in Holders \ {h} : e.promises[g] = d.promises[g]
  BY <1>1, <1>4, DbIs
<1>7. Reserved(e, For[h]) = Reserved(d, For[h]) - PromiseFor(d, h, For[h]) + PromiseFor(e, h, For[h])
  BY <1>1, <1>4, <1>6, ReservedMoves
<1>8. PromiseFor(d, h, For[h]) = 0 /\ PromiseFor(e, h, For[h]) = q
  BY <1>6 DEF PromiseFor, Active
<1>9. Reserved(d, For[h]) \in Nat BY <1>1, ReservedNat
<1>10. FinePromise(h, p)
  <2>1. FinePromise(h, d.promises[h]) BY PlaceIsOne DEF Good, Fine
  <2> QED BY <2>1 DEF FinePromise
<1> QED BY <1>3, <1>4, <1>5, <1>6, <1>7, <1>8, <1>9, <1>10, TypesAre

LEMMA AggregateWrites ==
  ASSUME PromisesAssumption, NEW d, Good(d), NEW j, Asked(j, d), j.op = "promise",
         NEW h \in j.holder, For[h] \in Specs, NEW q \in 0..MaxKg, q > 0 => q <= Available(d, For[h]),
         NEW p, p = [state |-> "ACTIVE", qty |-> q, sent |-> d.promises[h].sent],
         NEW k, WroteFrom(j, k, Promised(h, p), {})
  PROVE  Right(k, d) /\ Covers(k, d)
<1>1. AvailabilityAssumption /\ d \in DbType BY DEF PromisesAssumption, Good
<1>2. PICK e : e = After(d, Promised(h, p)) OBVIOUS
<1>3. h \in Holders /\ PlaceOf(h) = h /\ h \in Places /\ h \notin Items /\ PlacesOf(j) = {h}
  BY <1>1, AskedPlace, PlaceIsOne
<1>4. j.holder = {h} /\ d.promises[h].state # "ACTIVE"
  BY AskedKinds DEF AskedPromise
<1>5. /\ p \in PromiseType /\ e \in DbType /\ Differ(d, e, h) /\ FinePromise(h, p)
      /\ e.kg = d.kg /\ e.status = d.status /\ e.liquidated = d.liquidated
      /\ e.promises[h] = p /\ \A g \in Holders \ {h} : e.promises[g] = d.promises[g]
      /\ Reserved(e, For[h]) = Reserved(d, For[h]) + q
  BY <1>1, <1>2, <1>3, <1>4, PromiseIs
<1>6. \A z \in Places : Fine(e, z)
  <2> TAKE z \in Places
  <2>1. CASE z # h BY <1>1, <1>5, <2>1, AlikeIsFine DEF Differ, Good
  <2>2. CASE z = h
    <3>1. \A g \in Holders : PlaceOf(g) = h => FinePromise(g, e.promises[g])
      BY <1>3, <1>5 DEF Good, Fine
    <3> QED BY <1>3, <2>2, <3>1 DEF Fine, Items
  <2> QED BY <2>1, <2>2
<1>7. ASSUME NEW s \in Specs PROVE Available(e, s) >= 0
  <2>1. /\ Available(e, s) = Available(d, s) - Share(d, s, h) + Share(e, s, h)
        /\ Available(d, s) \in Int /\ Available(d, s) >= 0
    BY <1>1, <1>3, <1>5, AvailableMoves, AvailableIs DEF Good
  <2>2. h \notin Counted(d, s) /\ h \notin Counted(e, s) BY <1>1, <1>3, <1>5, CountedCoils DEF Items
  <2>3. Share(d, s, h) = 0 BY <1>4, <2>2 DEF Share, Active
  <2>4. Share(e, s, h) = IF s = For[h] THEN 0 - q ELSE 0 BY <1>3, <1>5, <2>2 DEF Share, Active
  <2>5. q \in Nat BY <1>1, TypesAre
  <2>6. CASE s = For[h] BY <2>1, <2>3, <2>4, <2>5, <2>6
  <2>7. CASE s # For[h] BY <2>1, <2>3, <2>4, <2>7
  <2> QED BY <2>6, <2>7
<1>8. Good(e) BY <1>5, <1>6, <1>7 DEF Good
<1>9. Asked(k, d) /\ PlacesOf(k) = {h} BY <1>3, WroteAsked
<1>10. k.write = Promised(h, p) /\ k.op = "promise" /\ k.phase = "written" /\ k.holder = {h}
  BY <1>4 DEF WroteFrom
<1>11. PromiseEffect(k, d) BY <1>10 DEF PromiseEffect
<1>12. DOMAIN k.write.status = {} /\ k.write.promises[h] = p
  <2>1. k.write.status = <<>> /\ k.write.promises = Row(h, p) BY <1>10 DEF Promised
  <2>2. Row(h, p)[h] = p BY DEF Row
  <2> QED BY <2>1, <2>2, NoRows
<1>13. HasWritten(k, d)
  <2>1. \A c \in PlacesOf(k) \cap Coils : d.status[c] # "ABSENT" BY <1>3, <1>9 DEF Items
  <2> QED BY <1>2, <1>8, <1>10, <1>11, <1>12, <2>1 DEF HasWritten, Effect
<1>14. Covers(k, d)
  <2>1. \A s \in Specs : PlacesOf(k) \cap Candidates(d, s) = {}
    BY <1>1, <1>3, <1>9 DEF Candidates, AvailabilityAssumption, Items
  <2>2. ASSUME q > 0 PROVE Candidates(d, For[h]) # {}
    <3> SUFFICES ASSUME Candidates(d, For[h]) = {} PROVE FALSE OBVIOUS
    <3>1. Counted(d, For[h]) = {} BY DEF Counted
    <3>2. SumFunctionOnSet(Left(d, For[h]), Counted(d, For[h])) = 0 BY <3>1, SumEmpty
    <3>3. Available(d, For[h]) = 0 - Reserved(d, For[h]) /\ Reserved(d, For[h]) \in Nat
      BY <1>1, <3>2, AvailableIs, ReservedNat
    <3>4. q \in Nat BY <1>1, TypesAre
    <3> QED BY <2>2, <3>3, <3>4
  <2> QED BY <1>5, <1>10, <1>12, <2>1, <2>2 DEF Covers
<1> QED BY <1>9, <1>10, <1>13, <1>14 DEF Right

LEMMA ItemPromiseWrites ==
  ASSUME PromisesAssumption, NEW d, Good(d), NEW j, Asked(j, d), j.op = "promise",
         NEW h \in j.holder, NEW i, i = For[h], i \in Items, j.qty <= ItemAvailable(d, i),
         NEW p, p = [state |-> "ACTIVE", qty |-> j.qty, sent |-> d.promises[h].sent],
         NEW write, write = Promised(h, p), NEW e, e = After(d, write),
         i \in Coils => d.status[i] # "ABSENT" /\ AggregatesHold(e, {i}),
         NEW extra, extra = IF i \in Coils THEN LockSet(e, {i}) ELSE {},
         NEW k, WroteFrom(j, k, write, extra)
  PROVE  Right(k, d) /\ Covers(k, d)
<1>1. AvailabilityAssumption /\ d \in DbType BY DEF PromisesAssumption, Good
<1>2. h \in Holders /\ PlaceOf(h) = i /\ i \in Places /\ i \notin Specs /\ PlacesOf(j) = {i}
  BY <1>1, AskedPlace, PlaceIsOne
<1>3. j.holder = {h} /\ d.promises[h].state # "ACTIVE" /\ j.qty \in 0..MaxKg
  <2>1. AskedPromise(j, d) BY AskedKinds
  <2>2. j.qty \in 0..MaxKg BY DEF Asked
  <2> QED BY <2>1, <2>2 DEF AskedPromise
<1>4. PICK q : q = j.qty OBVIOUS
<1>5. /\ p \in PromiseType /\ e \in DbType /\ Differ(d, e, i) /\ FinePromise(h, p)
      /\ e.kg = d.kg /\ e.status = d.status /\ e.liquidated = d.liquidated
      /\ e.promises[h] = p /\ \A g \in Holders \ {h} : e.promises[g] = d.promises[g]
      /\ Reserved(e, i) = Reserved(d, i) + q
  BY <1>1, <1>2, <1>3, <1>4, PromiseIs
<1>6. Fine(e, i)
  <2>1. Fine(d, i) BY <1>2 DEF Good
  <2>2. ItemAvailable(e, i) >= 0
    <3>1. q \in Nat /\ q <= ItemAvailable(d, i) BY <1>1, <1>3, <1>4, TypesAre
    <3>2. /\ ItemAvailable(d, i) = d.kg[i] - Reserved(d, i) /\ d.kg[i] \in Nat
          /\ ItemAvailable(e, i) = e.kg[i] - Reserved(e, i)
      BY <1>1, <1>5, AvailableOf
    <3>3. Reserved(d, i) \in Nat BY <1>1, ReservedNat
    <3> QED BY <1>5, <3>1, <3>2, <3>3
  <2>3. i \in Coils => FineCoil(e, i)
    <3> SUFFICES ASSUME i \in Coils PROVE FineCoil(e, i) OBVIOUS
    <3>1. FineCoil(d, i) BY <2>1 DEF Fine
    <3> QED BY <1>5, <3>1 DEF FineCoil
  <2>4. \A g \in Holders : PlaceOf(g) = i => FinePromise(g, e.promises[g])
    BY <1>5, <2>1 DEF Fine
  <2> QED BY <2>2, <2>3, <2>4 DEF Fine
<1>7. Good(e) BY <1>1, <1>5, <1>6, OneIsChecked
<1>8. Asked(k, d) /\ PlacesOf(k) = {i} BY <1>2, WroteAsked
<1>9. k.write = write /\ k.op = "promise" /\ k.phase = "written" /\ k.holder = {h}
  BY <1>3 DEF WroteFrom
<1>10. PromiseEffect(k, d) BY <1>3, <1>9 DEF PromiseEffect
<1>11. DOMAIN k.write.status = {}
  <2>1. k.write.status = <<>> BY <1>9 DEF Promised
  <2> QED BY <2>1, NoRows
<1>12. HasWritten(k, d)
  <2>1. \A c \in PlacesOf(k) \cap Coils : d.status[c] # "ABSENT" BY <1>8
  <2> QED BY <1>7, <1>9, <1>10, <1>11, <2>1 DEF HasWritten, Effect
<1>13. Covers(k, d)
  <2>1. i \in Coils => LockSet(e, {i}) \subseteq k.rows BY DEF WroteFrom
  <2> QED BY <1>1, <1>2, <1>5, <1>8, <1>9, <2>1, ItemCovers
<1> QED BY <1>8, <1>9, <1>12, <1>13 DEF Right

-----------------------------------------------------------------------------
(* The goods.                                                               *)

\* A balance that moves, with what is promised of it.
LEMMA MoveIsFine ==
  ASSUME AvailabilityAssumption, NEW d, Good(d), NEW i \in Items, NEW k \in 0..MaxKg,
         NEW l \in (-MaxKg)..MaxKg, i \in Coils => k + l \in 0..MaxKg /\ d.status[i] # "ABSENT",
         NEW S, MovedStatus(i, S), NEW P, MovedPromise(i, P),
         \A h \in Holders, p \in PromiseType : P = Row(h, p) => FinePromise(h, p),
         NEW write, write = Moved(i, k, l, S, P), NEW e, e = After(d, write),
         ItemAvailable(e, i) >= 0
  PROVE  Fine(e, i) /\ Differ(d, e, i) /\ e \in DbType
<1>1. d \in DbType BY DEF Good
<1>2. /\ WritesAt(write, i) /\ e \in DbType /\ e.kg[i] = k
      /\ i \in Coils => e.liquidated[i] = l
      /\ S = <<>> => e.status = d.status
      /\ \A st : S = Row(i, st) => i \in Coils /\ e.status[i] = st
      /\ P = <<>> => e.promises = d.promises
      /\ \A h, p : P = Row(h, p) /\ h \in Holders => e.promises[h] = p
  BY <1>1, MovedIs
<1>3. Differ(d, e, i) BY <1>1, <1>2, AfterDiffers
<1>4. ASSUME i \in Coils PROVE e.status[i] # "ABSENT"
  <2>1. CASE S = <<>> BY <1>2, <1>4, <2>1
  <2>2. ASSUME NEW st \in NewStatus, S = Row(i, st) PROVE e.status[i] # "ABSENT"
    <3>1. e.status[i] = st BY <1>2, <2>2
    <3> QED BY <3>1 DEF NewStatus
  <2> QED BY <2>1, <2>2 DEF MovedStatus
<1>5. i \in Coils => FineCoil(e, i) BY <1>2, <1>4 DEF FineCoil
<1>6. \A g \in Holders : PlaceOf(g) = i => FinePromise(g, d.promises[g])
  BY PlaceIsOne DEF Good, Fine
<1>7. \A g \in Holders : PlaceOf(g) = i => FinePromise(g, e.promises[g])
  <2>1. CASE P = <<>> BY <1>2, <1>6, <2>1
  <2>2. ASSUME NEW h \in Holders, NEW p \in PromiseType, P = Row(h, p)
        PROVE  \A g \in Holders : PlaceOf(g) = i => FinePromise(g, e.promises[g])
    <3>1. e.promises[h] = p /\ FinePromise(h, p) BY <1>2, <2>2
    <3>2. write.promises = P BY MovedFields
    <3>3. DOMAIN P = {h} BY <2>2 DEF Row
    <3>4. \A g \in Holders \ {h} : e.promises[g] = d.promises[g] BY <1>1, <3>2, <3>3, PromisesAfter
    <3> QED BY <1>6, <3>1, <3>4
  <2> QED BY <2>1, <2>2 DEF MovedPromise
<1>8. Fine(e, i) BY <1>5, <1>7 DEF Fine
<1> QED BY <1>2, <1>3, <1>8

\* autoTerminateEmptyCoils changes nothing of what is left to promise.
LEMMA EmptiedIs ==
  ASSUME AvailabilityAssumption, NEW d, Good(d), NEW i \in Items, NEW k \in 0..MaxKg,
         NEW l \in (-MaxKg)..MaxKg, i \in Coils => k + l \in 0..MaxKg /\ d.status[i] # "ABSENT",
         NEW P, MovedPromise(i, P),
         \A h \in Holders, p \in PromiseType : P = Row(h, p) => FinePromise(h, p),
         NEW write, write = Moved(i, k, l, <<>>, P), NEW seen, seen = After(d, write), Good(seen),
         NEW how \in NewStatus, NEW last, last = Emptied(d, write, i, how),
         NEW e, e = After(d, last)
  PROVE  /\ Good(e) /\ \E S \in StatusTo(i, how) : last = Moved(i, k, l, S, P)
         /\ \A c \in DOMAIN last.status : Reserved(e, c) = 0
<1>1. CASE last = write
  <2>1. last = Moved(i, k, l, <<>>, P) /\ <<>> \in StatusTo(i, how) BY <1>1 DEF StatusTo
  <2>2. DOMAIN last.status = {} BY <2>1, MovedFields, NoRows
  <2> QED BY <1>1, <2>1, <2>2
<1>2. CASE last # write
  <2>1. i \in Coils /\ seen.kg[i] = 0 /\ Reserved(seen, i) = 0 /\ last = [write EXCEPT !.status = Row(i, how)]
    BY <1>2 DEF Emptied
  <2>2. last = Moved(i, k, l, Row(i, how), P) BY <2>1 DEF Moved
  <2>3. PICK S : S = Row(i, how) OBVIOUS
  <2>4. S \in StatusTo(i, how) /\ last = Moved(i, k, l, S, P) BY <2>1, <2>2, <2>3 DEF StatusTo
  <2>5. MovedStatus(i, S) /\ MovedStatus(i, <<>>) BY <2>4, StatusToIs DEF MovedStatus
  <2>6. write.promises = P /\ last.promises = P BY <2>4, MovedFields
  <2>7. e.promises = seen.promises BY <2>6, AfterIs
  <2>8. d \in DbType /\ seen \in DbType BY DEF Good
  <2>9. e \in DbType /\ WritesAt(last, i) /\ e.kg[i] = k /\ e.liquidated[i] = l
    BY <2>1, <2>4, <2>5, <2>8, MovedIs
  <2>10. seen.kg[i] = k /\ WritesAt(write, i) BY <2>5, <2>8, MovedIs
  <2>11. Differ(seen, e, i)
    <3> SUFFICES ASSUME NEW y \in Places \ {i} PROVE Alike(seen, e, y) BY DEF Differ
    <3>1. Alike(d, seen, y) /\ Alike(d, e, y) BY <2>8, <2>9, <2>10, AfterDiffers DEF Differ
    <3> QED BY <2>7, <3>1 DEF Alike
  <2>12. \A x : Reserved(e, x) = Reserved(seen, x) BY <2>7, ReservedSame
  <2>13. ItemAvailable(e, i) >= 0 BY <2>1, <2>8, <2>9, <2>10, <2>12, AvailableOf
  <2>14. Fine(e, i) BY <2>4, <2>5, <2>13, MoveIsFine
  <2>15. ASSUME NEW s \in Specs PROVE Share(e, s, i) >= Share(seen, s, i)
    <3>1. i \notin Counted(seen, s) /\ i \notin Counted(e, s) BY <2>1, <2>9, <2>10 DEF Counted
    <3>2. Fine(seen, i) BY PlaceIsOne DEF Good
    <3> QED BY <2>8, <2>9, <2>14, <3>1, <3>2, ItemShares
  <2>16. i \in Places BY PlaceIsOne
  <2>17. Good(e) BY <2>9, <2>11, <2>14, <2>15, <2>16, OneRaises
  <2>18. DOMAIN last.status = {i}
    <3>1. last.status = S BY <2>4, MovedFields
    <3> QED BY <2>3, <3>1 DEF Row
  <2> QED BY <2>1, <2>4, <2>12, <2>17, <2>18
<1> QED BY <1>1, <1>2

LEMMA LessIsMoved ==
  ASSUME NEW d, NEW i, NEW q
  PROVE  Less(d, i, q) = Moved(i, d.kg[i] - q, 0, <<>>, <<>>)
<1>1. PICK K : K = Row(i, d.kg[i] - q) OBVIOUS
<1>2. PICK L : L = IF i \in Coils THEN Row(i, 0) ELSE <<>> OBVIOUS
<1>3. Less(d, i, q) = [NoWrite EXCEPT !.kg = K, !.liquidated = L] BY <1>1, <1>2 DEF Less
<1>4. Moved(i, d.kg[i] - q, 0, <<>>, <<>>)
        = [status |-> <<>>, kg |-> K, liquidated |-> L, promises |-> <<>>]
  BY <1>1, <1>2 DEF Moved
<1> QED BY <1>3, <1>4 DEF NoWrite

\* A write that also changes a promise, and a status.
AndPromises(X, P) == [X EXCEPT !.promises = P]
AndBoth(X, P, S)  == [X EXCEPT !.promises = P, !.status = S]
AndStatus(X, S)   == [X EXCEPT !.status = S]

LEMMA LessPromises ==
  ASSUME NEW d, NEW i, NEW q, NEW P, NEW n, n = d.kg[i] - q,
         NEW write, write = AndPromises(Less(d, i, q), P)
  PROVE  write = Moved(i, n, 0, <<>>, P)
<1>1. PICK K : K = Row(i, d.kg[i] - q) OBVIOUS
<1>2. PICK L : L = IF i \in Coils THEN Row(i, 0) ELSE <<>> OBVIOUS
<1>3. \A Q : Moved(i, d.kg[i] - q, 0, <<>>, Q)
        = [status |-> <<>>, kg |-> K, liquidated |-> L, promises |-> Q]
  BY <1>1, <1>2 DEF Moved
<1>4. PICK X : X = Less(d, i, q) OBVIOUS
<1>5. X = [status |-> <<>>, kg |-> K, liquidated |-> L, promises |-> <<>>]
  BY <1>3, <1>4, LessIsMoved
<1>6. [X EXCEPT !.promises = P] = [status |-> <<>>, kg |-> K, liquidated |-> L, promises |-> P]
  BY <1>5
<1> QED BY <1>3, <1>4, <1>6 DEF AndPromises

\* What comes back: less of a negative quantity.
LEMMA BackIsMoved ==
  ASSUME NEW d, NEW i, d.kg[i] \in Int, NEW q \in Int
  PROVE  Less(d, i, 0 - q) = Moved(i, d.kg[i] + q, 0, <<>>, <<>>)
<1>1. PICK m : m = 0 - q OBVIOUS
<1>2. PICK n : n = d.kg[i] + q OBVIOUS
<1>3. d.kg[i] - m = n BY <1>1, <1>2
<1>4. Less(d, i, m) = Moved(i, n, 0, <<>>, <<>>) BY <1>3, LessIsMoved
<1> QED BY <1>1, <1>2, <1>4

\* The promise and the status of a movement, written after its kilos.
LEMMA MovedAnd ==
  ASSUME NEW i, NEW n, NEW S, NEW P
  PROVE  /\ AndBoth(Moved(i, n, 0, <<>>, <<>>), P, S) = Moved(i, n, 0, S, P)
         /\ AndStatus(Moved(i, n, 0, <<>>, <<>>), S) = Moved(i, n, 0, S, <<>>)
<1>1. PICK K : K = Row(i, n) OBVIOUS
<1>2. PICK L : L = IF i \in Coils THEN Row(i, 0) ELSE <<>> OBVIOUS
<1>3. PICK N : N = <<>> OBVIOUS
<1>4. \A T, Q : Moved(i, n, 0, T, Q) = [status |-> T, kg |-> K, liquidated |-> L, promises |-> Q]
  BY <1>1, <1>2 DEF Moved
<1>5. PICK X : X = Moved(i, n, 0, N, N) OBVIOUS
<1>6. X = [status |-> N, kg |-> K, liquidated |-> L, promises |-> N] BY <1>4, <1>5
<1>7. [X EXCEPT !.promises = P, !.status = S]
        = [status |-> S, kg |-> K, liquidated |-> L, promises |-> P]
  <2>1. PICK Y : Y = [X EXCEPT !.promises = P] OBVIOUS
  <2>2. Y = [status |-> N, kg |-> K, liquidated |-> L, promises |-> P] BY <1>6, <2>1
  <2>3. [Y EXCEPT !.status = S] = [status |-> S, kg |-> K, liquidated |-> L, promises |-> P]
    BY <2>2
  <2> QED BY <2>1, <2>3
<1>8. [X EXCEPT !.status = S] = [status |-> S, kg |-> K, liquidated |-> L, promises |-> N]
  BY <1>6
<1> QED BY <1>3, <1>4, <1>5, <1>7, <1>8 DEF AndBoth, AndStatus

LEMMA MovedAndStatus ==
  ASSUME NEW i, NEW n, NEW S
  PROVE  AndStatus(Moved(i, n, 0, <<>>, <<>>), S) = Moved(i, n, 0, S, <<>>)
BY MovedAnd

LEMMA BackPromises ==
  ASSUME NEW d, NEW i, d.kg[i] \in Int, NEW q \in Int, NEW S, NEW P, NEW n, n = d.kg[i] + q,
         NEW back, back = Less(d, i, 0 - q), NEW write, write = AndBoth(back, P, S)
  PROVE  write = Moved(i, n, 0, S, P)
<1>1. back = Moved(i, n, 0, <<>>, <<>>) BY BackIsMoved
<1>2. AndBoth(Moved(i, n, 0, <<>>, <<>>), P, S) = Moved(i, n, 0, S, P) BY MovedAnd
<1> QED BY <1>1, <1>2

LEMMA BackStatus ==
  ASSUME NEW d, NEW i, d.kg[i] \in Int, NEW q \in Int, NEW S, NEW n, n = d.kg[i] + q,
         NEW back, back = Less(d, i, 0 - q), NEW last, last = AndStatus(back, S)
  PROVE  back = Moved(i, n, 0, <<>>, <<>>) /\ last = Moved(i, n, 0, S, <<>>)
<1>1. back = Moved(i, n, 0, <<>>, <<>>) BY BackIsMoved
<1>2. AndStatus(Moved(i, n, 0, <<>>, <<>>), S) = Moved(i, n, 0, S, <<>>) BY MovedAndStatus
<1> QED BY <1>1, <1>2

LEMMA OutRowsIs ==
  ASSUME AvailabilityAssumption, NEW d, NEW i \in Items
  PROVE  OutRows(d, i) \subseteq Items /\ (i \in Coils => LockSet(d, {i}) \subseteq OutRows(d, i))
BY LockSetCoils DEF OutRows, Items

\* The transaction j of the item i has written: k is that transaction, e what it leaves.
LeavesGood(j, d, i, k, last, extra, e) ==
  /\ j.op # "promise" /\ PlacesOf(j) = {i} /\ WroteFrom(j, k, last, extra)
  /\ Effect(k, d) /\ e = After(d, last) /\ Good(e)
  /\ \A c \in DOMAIN last.status : last.status[c] = "OPEN" \/ Reserved(e, c) = 0

\* An operation on an item that leaves a good stock and holds the rows of its aggregates.
LEMMA ItemWrites ==
  ASSUME PromisesAssumption, NEW d, Good(d), NEW j, Asked(j, d), NEW i, NEW last, NEW extra,
         NEW k, NEW e, LeavesGood(j, d, i, k, last, extra, e), NEW seen,
         j.op # "undo" => Differ(d, seen, i) /\ (i \in Coils => LockSet(seen, {i}) \subseteq extra)
  PROVE  Right(k, d) /\ Covers(k, d)
<1>1. AvailabilityAssumption /\ d \in DbType BY DEF PromisesAssumption, Good
<1>2. /\ j.op # "promise" /\ PlacesOf(j) = {i} /\ WroteFrom(j, k, last, extra)
      /\ Effect(k, d) /\ e = After(d, last) /\ Good(e)
      /\ \A c \in DOMAIN last.status : last.status[c] = "OPEN" \/ Reserved(e, c) = 0
  BY DEF LeavesGood
<1>3. i \in Items /\ j.item = {i} BY <1>1, <1>2, AskedItems
<1>4. Asked(k, d) /\ PlacesOf(k) = {i} BY <1>2, WroteAsked
<1>5. k.write = last /\ k.phase = "written" /\ k.op = j.op /\ k.rows = j.rows \cup extra
  BY <1>2 DEF WroteFrom
<1>6. \A c \in PlacesOf(k) \cap Coils : d.status[c] # "ABSENT" BY <1>3, <1>4 DEF Asked
<1>7. HasWritten(k, d) BY <1>2, <1>5, <1>6 DEF HasWritten
<1>8. Covers(k, d)
  <2>1. CASE j.op = "undo" BY <1>5, <2>1 DEF Covers
  <2>2. CASE j.op # "undo"
    <3>1. i \in Coils => LockSet(seen, {i}) \subseteq k.rows BY <1>5, <2>2
    <3> QED BY <1>1, <1>2, <1>3, <1>4, <1>5, <2>2, <3>1, ItemCovers
  <2> QED BY <2>1, <2>2
<1> QED BY <1>4, <1>5, <1>7, <1>8 DEF Right

\* The same of an operation that locked the rows of an OUT.
LEMMA OutWrites ==
  ASSUME PromisesAssumption, NEW d, Good(d), NEW j, Asked(j, d), NEW i, NEW last, NEW seen,
         NEW k, NEW e, LeavesGood(j, d, i, k, last, OutRows(seen, i), e), Differ(d, seen, i)
  PROVE  Right(k, d) /\ Covers(k, d)
<1>1. AvailabilityAssumption /\ d \in DbType BY DEF PromisesAssumption, Good
<1>2. i \in Items
  <2>1. j.op # "promise" /\ PlacesOf(j) = {i} BY DEF LeavesGood
  <2> QED BY <1>1, <2>1, AskedItems
<1>3. PICK extra : extra = OutRows(seen, i) OBVIOUS
<1>4. LeavesGood(j, d, i, k, last, extra, e) BY <1>3
<1>5. i \in Coils => LockSet(seen, {i}) \subseteq extra BY <1>1, <1>2, <1>3, OutRowsIs
<1>6. j.op # "undo" => Differ(d, seen, i) /\ (i \in Coils => LockSet(seen, {i}) \subseteq extra)
  BY <1>5
<1> QED BY <1>4, <1>6, ItemWrites

\* An OUT that its guards let through, and the coil it may have emptied.
LEMMA OutIs ==
  ASSUME AvailabilityAssumption, NEW d, Good(d), NEW i \in Items, NEW n \in 0..MaxKg,
         i \in Coils => d.status[i] # "ABSENT", NEW P, MovedPromise(i, P),
         \A h \in Holders, p \in PromiseType : P = Row(h, p) => FinePromise(h, p),
         NEW write, write = Moved(i, n, 0, <<>>, P), NEW seen, seen = After(d, write),
         OutHolds(seen, i), NEW how \in NewStatus, NEW last, last = Emptied(d, write, i, how),
         NEW e, e = After(d, last)
  PROVE  /\ Differ(d, seen, i) /\ Good(e) /\ \E S \in StatusTo(i, how) : last = Moved(i, n, 0, S, P)
         /\ \A c \in DOMAIN last.status : last.status[c] = "OPEN" \/ Reserved(e, c) = 0
<1>1. i \in Coils => n + 0 \in 0..MaxKg /\ d.status[i] # "ABSENT" BY TypesAre
<1>2. MovedStatus(i, <<>>) /\ 0 \in (-MaxKg)..MaxKg BY TypesAre DEF MovedStatus
<1>3. Fine(seen, i) /\ Differ(d, seen, i) /\ seen \in DbType
  <2>1. ItemAvailable(seen, i) >= 0 BY DEF OutHolds, ItemHolds
  <2> QED BY <1>1, <1>2, <2>1, MoveIsFine
<1>4. Good(seen) BY <1>3, OneIsChecked DEF OutHolds
<1>5. /\ Good(e) /\ \E S \in StatusTo(i, how) : last = Moved(i, n, 0, S, P)
      /\ \A c \in DOMAIN last.status : Reserved(e, c) = 0
  BY <1>1, <1>2, <1>4, EmptiedIs
<1> QED BY <1>3, <1>5

LEMMA ScrapWrites ==
  ASSUME PromisesAssumption, NEW d, Good(d), NEW j, Asked(j, d), j.op = "scrap",
         NEW i \in j.item, j.qty <= d.kg[i], NEW n, n = d.kg[i] - j.qty, NEW P, P = <<>>,
         NEW write, write = Moved(i, n, 0, <<>>, P), NEW seen, seen = After(d, write),
         OutHolds(seen, i), NEW how, how = "CLOSED", NEW last, last = Emptied(d, write, i, how),
         NEW k, WroteFrom(j, k, last, OutRows(seen, i))
  PROVE  Right(k, d) /\ Covers(k, d)
<1>1. AvailabilityAssumption /\ d \in DbType BY DEF PromisesAssumption, Good
<1>2. PlacesOf(j) = {i} /\ i \in Items /\ i \in Places
  <2>1. PICK x : PlacesOf(j) = {x} BY <1>1, AskedPlace
  <2>2. j.item = {x} /\ x \in Items BY <1>1, <2>1, AskedItems
  <2>3. i = x BY <2>2
  <2> QED BY <1>1, <2>1, <2>2, <2>3, PlaceIsOne
<1>3. n \in 0..MaxKg
  <2>1. j.qty \in 0..MaxKg BY DEF Asked
  <2> QED BY <1>1, <1>2, <2>1, LessIs, DbIs, TypesAre
<1>4. i \in Coils => d.status[i] # "ABSENT" BY DEF Asked
<1>5. MovedPromise(i, P) BY NoPromise
<1>6. \A h \in Holders, p \in PromiseType : P = Row(h, p) => FinePromise(h, p) BY NoPromise
<1>7. PICK e : e = After(d, last) OBVIOUS
<1>8. how \in NewStatus BY DEF NewStatus
<1>9. /\ Differ(d, seen, i) /\ Good(e) /\ \E S \in StatusTo(i, how) : last = Moved(i, n, 0, S, P)
      /\ \A c \in DOMAIN last.status : last.status[c] = "OPEN" \/ Reserved(e, c) = 0
  BY <1>1, <1>2, <1>3, <1>4, <1>5, <1>6, <1>7, <1>8, OutIs
<1>10. Effect(k, d)
  <2>1. k.op = "scrap" /\ k.item = j.item /\ k.qty = j.qty /\ k.write = last BY DEF WroteFrom
  <2>2. ScrapEffect(k, d) BY <1>9, <2>1 DEF ScrapEffect
  <2> QED BY <2>2 DEF Effect
<1>11. LeavesGood(j, d, i, k, last, OutRows(seen, i), e)
  BY <1>2, <1>7, <1>9, <1>10 DEF LeavesGood
<1> QED BY <1>9, <1>11, OutWrites

\* A dispatch is of the item its line promises.
LEMMA DispatchOn ==
  ASSUME AvailabilityAssumption, NEW d, NEW j, Asked(j, d), j.op = "dispatch",
         NEW h \in j.holder, NEW i, i = For[h]
  PROVE  PlacesOf(j) = {i} /\ i \in Items /\ i \in Places /\ j.item = {i} /\ j.holder = {h}
         /\ h \in Holders \ Temporary /\ d.promises[h].sent + j.qty <= MaxKg
         /\ d.promises[h].state # "NONE"
<1>1. PICK x : PlacesOf(j) = {x} BY AskedPlace
<1>2. /\ h \in Holders \ Temporary /\ For[h] \in Items /\ For[h] = x /\ j.holder = {h}
      /\ d.promises[h].sent + j.qty <= MaxKg /\ d.promises[h].state # "NONE"
  BY <1>1, DispatchPlace
<1>3. j.item = {x} BY <1>1, AskedItems
<1> QED BY <1>1, <1>2, <1>3, PlaceIsOne

\* The promise a dispatch of j leaves of its line, and the row it writes.
Dispatched(d, j, h, p, P) == p = Consumed(d.promises[h], j.qty) /\ P = Row(h, p)

LEMMA DispatchWrites ==
  ASSUME PromisesAssumption, NEW d, Good(d), NEW j, Asked(j, d), j.op = "dispatch",
         NEW h \in j.holder, NEW i, i = For[h], j.qty <= d.kg[i],
         NEW n, n = d.kg[i] - j.qty, NEW p, NEW P, Dispatched(d, j, h, p, P),
         NEW write, write = Moved(i, n, 0, <<>>, P), NEW seen, seen = After(d, write),
         OutHolds(seen, i), NEW how, how = "SOLD", NEW last, last = Emptied(d, write, i, how),
         NEW k, WroteFrom(j, k, last, OutRows(seen, i))
  PROVE  Right(k, d) /\ Covers(k, d)
<1>1. AvailabilityAssumption /\ d \in DbType BY DEF PromisesAssumption, Good
<1>2. PlacesOf(j) = {i} /\ i \in Items /\ i \in Places /\ j.item = {i} /\ j.holder = {h}
      /\ h \in Holders \ Temporary /\ d.promises[h].sent + j.qty <= MaxKg
      /\ d.promises[h].state # "NONE"
  BY <1>1, DispatchOn
<1>3. j.qty \in 0..MaxKg BY DEF Asked
<1>4. n \in 0..MaxKg BY <1>1, <1>2, <1>3, LessIs, DbIs, TypesAre
<1>5. i \in Coils => d.status[i] # "ABSENT" BY <1>2 DEF Asked
<1>6. p \in PromiseType /\ FinePromise(h, p)
  <2>1. d.promises[h] \in PromiseType BY <1>1, <1>2, DbIs
  <2>2. PICK r : r = d.promises[h] OBVIOUS
  <2>3. /\ p \in PromiseType
        /\ r.state = "ACTIVE" =>
             /\ p.qty = IF r.qty > j.qty THEN r.qty - j.qty ELSE 0
             /\ p.state = IF r.qty > j.qty THEN "ACTIVE" ELSE "CONSUMED"
        /\ r.state # "ACTIVE" => p.qty = r.qty /\ p.state = r.state
    BY <1>1, <1>2, <1>3, <2>1, <2>2, ConsumedIs DEF Dispatched
  <2>4. r.state \in {"ACTIVE", "CONSUMED", "RELEASED"} /\ (r.state = "CONSUMED" => r.qty = 0)
    <3>1. FinePromise(h, r) BY <1>1, <1>2, <2>2, PlaceIsOne DEF Good, Fine
    <3>2. r.state # "NONE" /\ h \notin Temporary BY <1>2, <2>2
    <3>3. r.state # "EXPIRED" /\ (r.state = "CONSUMED" => r.qty = 0)
      BY <3>1, <3>2 DEF FinePromise
    <3> QED BY <2>1, <2>2, <3>2, <3>3 DEF PromiseType
  <2>5. p.state \in {"ACTIVE", "CONSUMED", "RELEASED"} /\ (p.state = "CONSUMED" => p.qty = 0)
    BY <2>3, <2>4
  <2>6. For[h] \in Items /\ h \notin Temporary BY <1>2
  <2> QED BY <2>3, <2>5, <2>6 DEF FinePromise
<1>7. P = Row(h, p) BY DEF Dispatched
<1>8. MovedPromise(i, P) BY <1>2, <1>6, <1>7 DEF MovedPromise
<1>9. ASSUME NEW g \in Holders, NEW q \in PromiseType, P = Row(g, q) PROVE FinePromise(g, q)
  <2>1. DOMAIN Row(h, p) = {h} /\ DOMAIN Row(g, q) = {g} BY DEF Row
  <2>2. g = h BY <1>9, <1>7, <2>1
  <2>3. Row(h, p)[h] = p /\ Row(g, q)[g] = q BY DEF Row
  <2> QED BY <1>6, <1>9, <1>7, <2>2, <2>3
<1>10. PICK e : e = After(d, last) OBVIOUS
<1>11. how \in NewStatus BY DEF NewStatus
<1>12. /\ Differ(d, seen, i) /\ Good(e) /\ \E S \in StatusTo(i, how) : last = Moved(i, n, 0, S, P)
       /\ \A c \in DOMAIN last.status : last.status[c] = "OPEN" \/ Reserved(e, c) = 0
  BY <1>1, <1>2, <1>4, <1>5, <1>8, <1>9, <1>10, <1>11, OutIs
<1>13. Effect(k, d)
  <2>1. k.op = "dispatch" /\ k.holder = j.holder /\ k.qty = j.qty /\ k.write = last BY DEF WroteFrom
  <2>2. DispatchEffect(k, d) BY <1>12, <2>1 DEF DispatchEffect, Dispatched
  <2> QED BY <2>2 DEF Effect
<1>14. LeavesGood(j, d, i, k, last, OutRows(seen, i), e)
  BY <1>2, <1>10, <1>12, <1>13 DEF LeavesGood
<1> QED BY <1>12, <1>14, OutWrites

\* UndoRaises, of the write a transaction has.
LEMMA UndoLeaves ==
  ASSUME PromisesAssumption, NEW d, Good(d), NEW j, Asked(j, d), UndoEffect(j, d),
         NEW e, e = After(d, j.write), NEW x, PlacesOf(j) = {x}
  PROVE  /\ ItemAvailable(e, x) >= ItemAvailable(d, x) /\ e \in DbType /\ e.kg[x] > d.kg[x]
         /\ x \in Coils => e.liquidated[x] = 0
         /\ x \in Coils => e.status[x] \in {d.status[x], "OPEN"}
         /\ \A h \in Holders : PlaceOf(h) = x => FinePromise(h, e.promises[h])
<1>1. PICK write : write = j.write OBVIOUS
<1>2. e = After(d, write) BY <1>1
<1> QED BY <1>1, <1>2, UndoRaises

LEMMA UndoWrites ==
  ASSUME PromisesAssumption, NEW d, Good(d), NEW j, Asked(j, d), j.op = "undo",
         NEW h \in j.holder, NEW i, i = For[h], d.kg[i] + d.promises[h].sent <= MaxKg,
         NEW S \in StatusTo(i, "OPEN"),
         NEW last,
         last = Moved(i, d.kg[i] + d.promises[h].sent, 0, S, Row(h, Restored(d.promises[h]))),
         NEW k, WroteFrom(j, k, last, {})
  PROVE  Right(k, d) /\ Covers(k, d)
<1>1. AvailabilityAssumption /\ d \in DbType BY DEF PromisesAssumption, Good
<1>2. PlacesOf(j) = {i} /\ i \in Items /\ i \in Places /\ j.item = {i} /\ j.holder = {h}
      /\ h \in Holders \ Temporary
  <2>1. PICK x : PlacesOf(j) = {x} BY <1>1, AskedPlace
  <2> QED BY <1>1, <2>1, UndoPlace, AskedItems, PlaceIsOne
<1>3. k.op = "undo" /\ k.holder = j.holder /\ k.item = j.item /\ k.write = last /\ k.phase = "written"
  BY DEF WroteFrom
<1>4. UndoEffect(k, d) BY <1>2, <1>3 DEF UndoEffect
<1>5. Asked(k, d) /\ PlacesOf(k) = {i} BY <1>2, WroteAsked
<1>6. PICK e : e = After(d, last) OBVIOUS
<1>7. /\ ItemAvailable(e, i) >= ItemAvailable(d, i) /\ e \in DbType /\ e.kg[i] > d.kg[i]
      /\ i \in Coils => e.liquidated[i] = 0
      /\ i \in Coils => e.status[i] \in {d.status[i], "OPEN"}
      /\ \A g \in Holders : PlaceOf(g) = i => FinePromise(g, e.promises[g])
  <2>1. e = After(d, k.write) BY <1>3, <1>6
  <2> QED BY <1>4, <1>5, <2>1, UndoLeaves
<1>8. Effect(k, d) BY <1>4 DEF Effect
<1>9. WritesIn(k.holder, last, e, i) BY <1>3, <1>5, <1>6, <1>8, EffectWrites
<1>10. Differ(d, e, i) BY <1>1, <1>6, <1>9, AfterDiffers DEF WritesIn
<1>11. Fine(d, i) BY <1>2 DEF Good
<1>12. Fine(e, i)
  <2>1. ItemAvailable(e, i) >= 0 BY <1>1, <1>2, <1>7, <1>11, AvailableOf DEF Fine
  <2>2. ASSUME i \in Coils PROVE FineCoil(e, i)
    <3>1. e.kg[i] \in 0..MaxKg /\ e.kg[i] + 0 \in 0..MaxKg BY <1>2, <1>7, <1>1, DbIs, TypesAre
    <3>2. d.status[i] # "ABSENT" BY <1>2, <2>2 DEF Asked
    <3>3. e.status[i] # "ABSENT" BY <1>7, <2>2, <3>2
    <3> QED BY <1>7, <2>2, <3>1, <3>3 DEF FineCoil
  <2> QED BY <1>7, <2>1, <2>2 DEF Fine
<1>13. ASSUME NEW s \in Specs PROVE Share(e, s, i) >= Share(d, s, i)
  <2>1. Share(e, s, i) >= 0 /\ (i \notin Counted(d, s) => Share(d, s, i) = 0)
    BY <1>1, <1>2, <1>7, <1>11, <1>12, ItemShares
  <2>2. CASE i \notin Counted(d, s) BY <2>1, <2>2
  <2>3. CASE i \in Counted(d, s)
    <3>1. d.kg[i] \in Int /\ e.kg[i] \in Int BY <1>1, <1>2, <1>7, AvailableOf
    <3>2. i \in Coils BY <1>1, <2>3, CountedCoils
    <3>3. i \in Counted(e, s) BY <1>7, <2>3, <3>1, <3>2 DEF Counted, Candidates
    <3> QED BY <1>7, <2>3, <3>3 DEF Share
  <2> QED BY <2>2, <2>3
<1>14. Good(e) BY <1>1, <1>2, <1>7, <1>10, <1>12, <1>13, OneRaises
<1>15. \A c \in DOMAIN last.status : last.status[c] = "OPEN" \/ Reserved(e, c) = 0
  <2>1. last.status = S BY MovedFields
  <2>2. S = <<>> \/ S = Row(i, "OPEN") BY DEF StatusTo
  <2> QED BY <2>1, <2>2, NoRows DEF Row
<1>16. PICK extra : extra = {} OBVIOUS
<1>17. LeavesGood(j, d, i, k, last, extra, e)
  BY <1>2, <1>6, <1>8, <1>14, <1>15, <1>16 DEF LeavesGood
<1>18. j.op # "undo" => Differ(d, e, i) /\ (i \in Coils => LockSet(e, {i}) \subseteq extra) OBVIOUS
<1> QED BY <1>17, <1>18, ItemWrites

\* It is on one item.
LEMMA ItemIsOne ==
  ASSUME AvailabilityAssumption, NEW d, NEW j, Asked(j, d), j.op # "promise", NEW c \in j.item
  PROVE  /\ PlacesOf(j) = {c} /\ c \in Items /\ c \in Places /\ j.item = {c}
         /\ j.op \in {"close", "reopen"} => c \in Coils
<1>1. PICK x : PlacesOf(j) = {x} BY AskedPlace
<1>2. j.item = {x} /\ x \in Items /\ (j.op \in {"close", "reopen"} => x \in Coils)
  BY <1>1, AskedItems
<1>3. x = c BY <1>2
<1> QED BY <1>1, <1>2, <1>3, PlaceIsOne

\* A promise of the item is not touched.
LEMMA MoveKeeps ==
  ASSUME AvailabilityAssumption, NEW d \in DbType, NEW i \in Items, NEW k \in 0..MaxKg,
         NEW l \in (-MaxKg)..MaxKg, NEW S, MovedStatus(i, S), NEW P, P = <<>>,
         NEW write, write = Moved(i, k, l, S, P), NEW e, e = After(d, write)
  PROVE  /\ e \in DbType /\ Differ(d, e, i) /\ e.kg[i] = k
         /\ \A x : Reserved(e, x) = Reserved(d, x)
         /\ ItemAvailable(e, i) = k - Reserved(d, i) /\ Reserved(d, i) \in Nat
<1>1. MovedPromise(i, P) BY DEF MovedPromise
<1>2. e \in DbType /\ WritesAt(write, i) /\ e.kg[i] = k /\ e.promises = d.promises
  BY <1>1, MovedIs
<1>3. Differ(d, e, i) BY <1>2, AfterDiffers
<1>4. \A x : Reserved(e, x) = Reserved(d, x) BY <1>2, ReservedSame
<1>5. Reserved(d, i) \in Nat BY ReservedNat
<1>6. ItemAvailable(e, i) = e.kg[i] - Reserved(e, i) BY <1>2, AvailableOf
<1> QED BY <1>2, <1>3, <1>4, <1>5, <1>6

LEMMA CloseWrites ==
  ASSUME PromisesAssumption, NEW d, Good(d), NEW j, Asked(j, d), j.op = "close",
         NEW c \in j.item, d.status[c] = "OPEN", Reserved(d, c) = 0,
         NEW l, l = d.kg[c] - j.qty, NEW S, S = Row(c, "CLOSED"),
         NEW last, last = Moved(c, j.qty, l, S, <<>>),
         NEW e, e = After(d, last), OutHolds(e, c),
         NEW k, WroteFrom(j, k, last, OutRows(e, c))
  PROVE  Right(k, d) /\ Covers(k, d)
<1>1. AvailabilityAssumption /\ d \in DbType BY DEF PromisesAssumption, Good
<1>2. PlacesOf(j) = {c} /\ c \in Items /\ c \in Coils /\ c \in Places /\ j.item = {c}
  <2>1. j.op # "promise" /\ j.op \in {"close", "reopen"} OBVIOUS
  <2> QED BY <1>1, <2>1, ItemIsOne
<1>3. PICK q : q = j.qty OBVIOUS
<1>4. q \in 0..MaxKg /\ l \in (-MaxKg)..MaxKg /\ q + l \in 0..MaxKg
  <2>1. d.kg[c] \in 0..MaxKg /\ MaxKg \in Nat BY <1>1, <1>2, DbIs, TypesAre
  <2>2. q \in 0..MaxKg BY <1>3 DEF Asked
  <2> QED BY <1>3, <2>1, <2>2, ChangeIs
<1>5. MovedStatus(c, S) BY <1>2 DEF MovedStatus, NewStatus
<1>6. PICK P : P = <<>> OBVIOUS
<1>7. last = Moved(c, q, l, S, P) BY <1>3, <1>6
<1>8. e \in DbType /\ Differ(d, e, c) /\ Reserved(e, c) = Reserved(d, c)
  BY <1>1, <1>2, <1>4, <1>5, <1>6, <1>7, MoveKeeps
<1>9. MovedPromise(c, P) /\ \A h \in Holders, p \in PromiseType : P = Row(h, p) => FinePromise(h, p)
  BY <1>6, NoPromise
<1>10. ItemAvailable(e, c) >= 0 /\ AggregatesHold(e, {c}) BY <1>2 DEF OutHolds, ItemHolds
<1>11. d.status[c] # "ABSENT" OBVIOUS
<1>12. Fine(e, c) BY <1>1, <1>2, <1>4, <1>5, <1>7, <1>9, <1>10, <1>11, MoveIsFine
<1>13. Good(e) BY <1>1, <1>2, <1>8, <1>10, <1>12, OneIsChecked
<1>14. last.status = S BY <1>7, MovedFields
<1>15. \A b \in DOMAIN last.status : last.status[b] = "OPEN" \/ Reserved(e, b) = 0
  <2>1. DOMAIN S = {c} BY DEF Row
  <2> QED BY <1>8, <1>14, <2>1
<1>16. Effect(k, d)
  <2>1. k.op = "close" /\ k.item = j.item /\ k.qty = j.qty /\ k.write = last BY DEF WroteFrom
  <2>2. CloseEffect(k, d) BY <2>1 DEF CloseEffect
  <2> QED BY <2>2 DEF Effect
<1>17. LeavesGood(j, d, c, k, last, OutRows(e, c), e)
  BY <1>2, <1>13, <1>15, <1>16 DEF LeavesGood
<1> QED BY <1>8, <1>17, OutWrites

LEMMA ReopenWrites ==
  ASSUME PromisesAssumption, NEW d, Good(d), NEW j, Asked(j, d), j.op = "reopen",
         NEW c \in j.item, d.status[c] \in {"CLOSED", "SOLD"},
         NEW n, n = d.kg[c] + d.liquidated[c], NEW S, S = Row(c, "OPEN"),
         NEW back, back = Moved(c, n, 0, <<>>, <<>>), NEW seen, seen = After(d, back),
         d.liquidated[c] < 0 => OutHolds(seen, c),
         NEW last, last = Moved(c, n, 0, S, <<>>),
         NEW k, WroteFrom(j, k, last, OutRows(seen, c))
  PROVE  Right(k, d) /\ Covers(k, d)
<1>1. AvailabilityAssumption /\ d \in DbType BY DEF PromisesAssumption, Good
<1>2. PlacesOf(j) = {c} /\ c \in Items /\ c \in Coils /\ c \in Places /\ j.item = {c}
  <2>1. j.op # "promise" /\ j.op \in {"close", "reopen"} OBVIOUS
  <2> QED BY <1>1, <2>1, ItemIsOne
<1>3. Fine(d, c) BY <1>2 DEF Good
<1>4. n \in 0..MaxKg /\ n + 0 \in 0..MaxKg /\ 0 \in (-MaxKg)..MaxKg
  BY <1>2, <1>3, <1>1, TypesAre DEF Fine, FineCoil
<1>5. MovedStatus(c, S) BY <1>2 DEF MovedStatus, NewStatus
<1>6. MovedStatus(c, <<>>) BY DEF MovedStatus
<1>7. PICK P : P = <<>> OBVIOUS
<1>8. last = Moved(c, n, 0, S, P) BY <1>7
<1>9. PICK e : e = After(d, last) OBVIOUS
<1>10. /\ e \in DbType /\ Differ(d, e, c) /\ Reserved(d, c) \in Nat
       /\ ItemAvailable(e, c) = n - Reserved(d, c)
  BY <1>1, <1>2, <1>4, <1>5, <1>7, <1>8, <1>9, MoveKeeps
<1>11. Differ(d, seen, c) /\ ItemAvailable(seen, c) = n - Reserved(d, c)
  <2>1. PICK T : T = <<>> OBVIOUS
  <2>2. back = Moved(c, n, 0, T, P) /\ MovedStatus(c, T) BY <1>7, <1>6, <2>1
  <2> QED BY <1>1, <1>2, <1>4, <1>7, <2>2, MoveKeeps
<1>12. ItemAvailable(e, c) >= 0
  <2>1. CASE d.liquidated[c] < 0 BY <1>10, <1>11, <2>1 DEF OutHolds, ItemHolds
  <2>2. CASE ~(d.liquidated[c] < 0)
    <3>1. d.liquidated[c] \in (-MaxKg)..MaxKg /\ MaxKg \in Nat /\ d.kg[c] \in Nat
      BY <1>1, <1>2, DbIs, TypesAre, AvailableOf
    <3>2. d.liquidated[c] >= 0 /\ d.liquidated[c] \in Int BY <2>2, <3>1
    <3>3. d.kg[c] - Reserved(d, c) >= 0 BY <1>1, <1>2, <1>3, AvailableOf DEF Fine
    <3> QED BY <1>10, <3>1, <3>2, <3>3
  <2> QED BY <2>1, <2>2
<1>13. MovedPromise(c, P) /\ \A h \in Holders, p \in PromiseType : P = Row(h, p) => FinePromise(h, p)
  BY <1>7, NoPromise
<1>14. d.status[c] # "ABSENT" OBVIOUS
<1>15. Fine(e, c) BY <1>1, <1>2, <1>4, <1>5, <1>8, <1>9, <1>12, <1>13, <1>14, MoveIsFine
<1>16. ASSUME NEW s \in Specs PROVE Share(e, s, c) >= Share(d, s, c)
  <2>1. c \notin Counted(d, s) BY DEF Counted, Candidates
  <2> QED BY <1>1, <1>2, <1>3, <1>10, <1>15, <2>1, ItemShares
<1>17. Good(e) BY <1>1, <1>2, <1>10, <1>15, <1>16, OneRaises
<1>18. \A b \in DOMAIN last.status : last.status[b] = "OPEN" \/ Reserved(e, b) = 0
  <2>1. last.status = S BY <1>8, MovedFields
  <2>2. DOMAIN S = {c} /\ S[c] = "OPEN" BY DEF Row
  <2> QED BY <2>1, <2>2
<1>19. Effect(k, d)
  <2>1. k.op = "reopen" /\ k.item = j.item /\ k.write = last BY DEF WroteFrom
  <2>2. ReopenEffect(k, d) BY <2>1 DEF ReopenEffect
  <2> QED BY <2>2 DEF Effect
<1>20. LeavesGood(j, d, c, k, last, OutRows(seen, c), e)
  BY <1>2, <1>9, <1>17, <1>18, <1>19 DEF LeavesGood
<1> QED BY <1>11, <1>20, OutWrites

-----------------------------------------------------------------------------
(* The steps.  A worker takes a transaction, or the one it has changes.     *)

LEMMA ApartBoth ==
  ASSUME NEW j, NEW k, NEW d, AreApart(j, k, d)
  PROVE  AreApart(k, j, d)
BY DEF AreApart, TakeTogether

LEMMA NoJobRight ==
  ASSUME NEW d, NEW k
  PROVE  Right(NoJob, d) /\ AreApart(NoJob, k, d) /\ AreApart(k, NoJob, d) /\ IsJob(NoJob)
<1>1. NoJob.rows = {} /\ NoJob.phase = "idle" BY DEF NoJob
<1>2. HeldBy(NoJob) = {} BY <1>1 DEF HeldBy
<1> QED BY <1>1, <1>2 DEF Right, AreApart, IsJob, NoJob

LEMMA OneJob ==
  ASSUME IInv, NEW w \in Workers, NEW k, UNCHANGED db, job' = [job EXCEPT ![w] = k],
         IsJob(k), Right(k, db), \A u \in Workers \ {w} : AreApart(k, job[u], db)
  PROVE  IInv'
<1>1. job = [u \in Workers |-> job[u]] BY DEF IInv
<1>2. job' = [u \in Workers |-> IF u = w THEN k ELSE job[u]] BY <1>1
<1>3. job'[w] = k /\ \A u \in Workers \ {w} : job'[u] = job[u] BY <1>2
<1>4. job' = [u \in Workers |-> job'[u]] BY <1>2
<1>5. Good(db') BY DEF IInv
<1>6. \A u \in Workers : IsJob(job'[u]) /\ Right(job'[u], db') BY <1>3 DEF IInv
<1>7. ASSUME NEW u \in Workers, NEW v \in Workers, u # v
      PROVE  AreApart(job'[u], job'[v], db')
  <2>1. CASE u = w BY <1>3, <1>7, <2>1
  <2>2. CASE v = w
    <3>1. AreApart(k, job[u], db) BY <1>7, <2>2
    <3>2. AreApart(job[u], k, db) BY <3>1, ApartBoth
    <3> QED BY <1>3, <1>7, <2>2, <3>2
  <2>3. CASE u # w /\ v # w BY <1>3, <1>7, <2>3 DEF IInv
  <2> QED BY <2>1, <2>2, <2>3
<1> QED BY <1>4, <1>5, <1>6, <1>7 DEF IInv

LEMMA FreeIs ==
  ASSUME NEW w, NEW R, FreeFor(w, R), NEW u \in Workers, u # w
  PROVE  R \cap HeldBy(job[u]) = {}
BY DEF FreeFor, Held, HeldBy

-----------------------------------------------------------------------------
(* Asking: the document is locked, the rest only read.                      *)

LEMMA AskKeeps ==
  ASSUME PromisesAssumption, IInv, NEW w \in Workers,
         NEW op, NEW holder, NEW item, NEW qty, NEW partial, NEW rows,
         Ask(w, op, holder, item, qty, partial, rows),
         holder \subseteq Holders, item \subseteq rows, rows \subseteq Items, qty \in 0..MaxKg,
         NEW k, k = [op |-> op, holder |-> holder, item |-> item, qty |-> qty, partial |-> partial,
                     rows |-> holder \cup rows, phase |-> "asking", write |-> NoWrite],
         AskedPromise(k, db) \/ AskedDispatch(k, db) \/ AskedUndo(k, db) \/ AskedItem(k),
         \A c \in item \cap Coils : db.status[c] # "ABSENT"
  PROVE  IInv'
<1>1. job' = [job EXCEPT ![w] = k] /\ UNCHANGED db BY DEF Ask
<1>2. IsJob(k) BY DEF IsJob
<1>3. Asked(k, db) BY DEF Asked
<1>4. Right(k, db) BY <1>3 DEF Right
<1>5. HeldBy(k) = holder
  <2>1. rows \cap Holders = {} BY DEF PromisesAssumption, AvailabilityAssumption
  <2> QED BY <2>1 DEF HeldBy
<1>6. ASSUME NEW u \in Workers \ {w} PROVE AreApart(k, job[u], db)
  <2>1. FreeFor(w, holder) BY DEF Ask
  <2>2. holder \cap HeldBy(job[u]) = {} BY <2>1, FreeIs
  <2>3. k.phase # "written" OBVIOUS
  <2> QED BY <1>5, <2>2, <2>3 DEF AreApart
<1> QED BY <1>1, <1>2, <1>4, <1>6, OneJob

LEMMA RowsOfIs ==
  ASSUME AvailabilityAssumption, NEW i \in Items
  PROVE  RowsOf(i) \subseteq Items /\ i \in RowsOf(i)
BY LockSetCoils DEF RowsOf, Items

\* A coil that was ever promised has come.
LEMMA HasCome ==
  ASSUME AvailabilityAssumption, NEW d, Good(d), NEW h \in Holders,
         d.promises[h].state # "NONE" \/ d.promises[h].sent > 0
  PROVE  For[h] \in Coils => d.status[For[h]] # "ABSENT"
<1> SUFFICES ASSUME For[h] \in Coils, d.status[For[h]] = "ABSENT" PROVE FALSE OBVIOUS
<1>1. FineCoil(d, For[h]) BY PlaceIsOne DEF Good, Fine, Items
<1>2. d.promises[h].sent = 0 /\ d.promises[h].state = "NONE" BY <1>1 DEF FineCoil
<1> QED BY <1>2

LEMMA AskPromiseKeeps ==
  ASSUME PromisesAssumption, IInv, NEW w \in Workers, AskPromise(w)
  PROVE  IInv'
<1>1. AvailabilityAssumption BY DEF PromisesAssumption
<1>2. PICK h \in Holders, q \in 1..MaxKg, partial \in BOOLEAN :
        /\ db.promises[h].state # "ACTIVE"
        /\ Ask(w, "promise", {h}, {}, q, partial, RowsToPromise(h))
  BY DEF AskPromise
<1>3. PICK rows : rows = RowsToPromise(h) OBVIOUS
<1>4. rows \subseteq Items
  <2>1. CASE For[h] \in Specs
    BY <1>1, <1>3, <2>1 DEF RowsToPromise, Candidates, AvailabilityAssumption, Items
  <2>2. CASE For[h] \notin Specs
    <3>1. For[h] \in Items BY <1>1, PlaceIsOne, <2>2
    <3> QED BY <1>1, <1>3, <2>2, <3>1, RowsOfIs DEF RowsToPromise
  <2> QED BY <2>1, <2>2
<1>5. For[h] \in Specs => Candidates(db, For[h]) \subseteq rows BY <1>3 DEF RowsToPromise
<1>6. For[h] \in Items => For[h] \in rows
  <2> SUFFICES ASSUME For[h] \in Items PROVE For[h] \in rows OBVIOUS
  <2>1. For[h] \notin Specs BY <1>1 DEF AvailabilityAssumption
  <2> QED BY <1>1, <1>3, <2>1, RowsOfIs DEF RowsToPromise
<1>7. PICK item : item = {} OBVIOUS
<1>8. PICK k : k = [op |-> "promise", holder |-> {h}, item |-> item, qty |-> q, partial |-> partial,
                    rows |-> {h} \cup rows, phase |-> "asking", write |-> NoWrite]
  OBVIOUS
<1>9. q > 0 /\ q \in 0..MaxKg BY <1>1, TypesAre
<1>10. AskedPromise(k, db)
  <2>1. /\ k.op = "promise" /\ k.item = {} /\ k.qty > 0 /\ k.holder = {h} /\ rows \subseteq k.rows
    BY <1>7, <1>8, <1>9
  <2> QED BY <1>2, <1>5, <1>6, <2>1 DEF AskedPromise
<1>11. Ask(w, "promise", {h}, item, q, partial, rows) BY <1>2, <1>3, <1>7
<1>12. {h} \subseteq Holders /\ item \subseteq rows /\ \A c \in item \cap Coils : db.status[c] # "ABSENT"
  BY <1>7
<1> QED BY <1>12, <1>4, <1>8, <1>9, <1>10, <1>11, AskKeeps

LEMMA AskDispatchKeeps ==
  ASSUME PromisesAssumption, IInv, NEW w \in Workers, AskDispatch(w)
  PROVE  IInv'
<1>1. AvailabilityAssumption /\ Good(db) BY DEF PromisesAssumption, IInv
<1>2. PICK h \in Holders \ Temporary, q \in 1..MaxKg :
        /\ For[h] \in Items /\ db.promises[h].state # "NONE"
        /\ db.promises[h].sent + q <= MaxKg
        /\ Ask(w, "dispatch", {h}, {For[h]}, q, FALSE, RowsOf(For[h]))
  BY DEF AskDispatch
<1>3. PICK rows : rows = RowsOf(For[h]) OBVIOUS
<1>4. rows \subseteq Items /\ For[h] \in rows BY <1>1, <1>2, <1>3, RowsOfIs
<1>5. PICK item : item = {For[h]} OBVIOUS
<1>6. PICK k : k = [op |-> "dispatch", holder |-> {h}, item |-> item, qty |-> q, partial |-> FALSE,
                    rows |-> {h} \cup rows, phase |-> "asking", write |-> NoWrite]
  OBVIOUS
<1>7. q > 0 /\ q \in 0..MaxKg BY <1>1, TypesAre
<1>8. AskedDispatch(k, db)
  <2>1. k.op = "dispatch" /\ k.item = {For[h]} /\ k.qty = q /\ k.holder = {h} BY <1>5, <1>6
  <2> QED BY <1>2, <1>7, <2>1 DEF AskedDispatch
<1>9. Ask(w, "dispatch", {h}, item, q, FALSE, rows) BY <1>2, <1>3, <1>5
<1>10. \A c \in item \cap Coils : db.status[c] # "ABSENT" BY <1>1, <1>2, <1>5, HasCome
<1> QED BY <1>4, <1>5, <1>6, <1>7, <1>8, <1>9, <1>10, AskKeeps

LEMMA AskUndoKeeps ==
  ASSUME PromisesAssumption, IInv, NEW w \in Workers, AskUndo(w)
  PROVE  IInv'
<1>1. AvailabilityAssumption /\ Good(db) BY DEF PromisesAssumption, IInv
<1>2. PICK h \in Holders : /\ db.promises[h].sent > 0
                           /\ Ask(w, "undo", {h}, {For[h]}, 0, FALSE, RowsOf(For[h]))
  BY DEF AskUndo
<1>3. h \notin Temporary /\ For[h] \in Items
  <2>1. FinePromise(h, db.promises[h]) BY <1>1, PlaceIsOne DEF Good, Fine
  <2> QED BY <1>2, <2>1 DEF FinePromise
<1>4. PICK rows : rows = RowsOf(For[h]) OBVIOUS
<1>5. rows \subseteq Items /\ For[h] \in rows BY <1>1, <1>3, <1>4, RowsOfIs
<1>6. PICK item : item = {For[h]} OBVIOUS
<1>7. PICK k : k = [op |-> "undo", holder |-> {h}, item |-> item, qty |-> 0, partial |-> FALSE,
                    rows |-> {h} \cup rows, phase |-> "asking", write |-> NoWrite]
  OBVIOUS
<1>8. AskedUndo(k, db)
  <2>1. k.op = "undo" /\ k.item = {For[h]} /\ k.holder = {h} BY <1>6, <1>7
  <2> QED BY <1>2, <1>3, <2>1 DEF AskedUndo
<1>9. Ask(w, "undo", {h}, item, 0, FALSE, rows) BY <1>2, <1>4, <1>6
<1>10. \A c \in item \cap Coils : db.status[c] # "ABSENT" BY <1>1, <1>2, <1>6, HasCome
<1>11. 0 \in 0..MaxKg BY <1>1, TypesAre
<1> QED BY <1>5, <1>6, <1>7, <1>8, <1>9, <1>10, <1>11, AskKeeps

\* Scrap, closing, reopening: of an item, without a document.
LEMMA AskItemKeeps ==
  ASSUME PromisesAssumption, IInv, NEW w \in Workers, NEW i \in Items, NEW q \in 0..MaxKg, NEW op,
         Ask(w, op, {}, {i}, q, FALSE, RowsOf(i)), i \in Coils => db.status[i] # "ABSENT",
         \/ op = "scrap" /\ q > 0
         \/ op = "close" /\ i \in Coils /\ q <= Weight(i)
         \/ op = "reopen" /\ i \in Coils
  PROVE  IInv'
<1>1. AvailabilityAssumption BY DEF PromisesAssumption
<1>2. PICK rows : rows = RowsOf(i) OBVIOUS
<1>3. rows \subseteq Items /\ {i} \subseteq rows BY <1>1, <1>2, RowsOfIs
<1>4. PICK k : k = [op |-> op, holder |-> {}, item |-> {i}, qty |-> q, partial |-> FALSE,
                    rows |-> {} \cup rows, phase |-> "asking", write |-> NoWrite]
  OBVIOUS
<1>5. AskedItem(k)
  <2>1. k.op = op /\ k.item = {i} /\ k.holder = {} /\ k.qty = q BY <1>4
  <2> QED BY <2>1 DEF AskedItem
<1>6. Ask(w, op, {}, {i}, q, FALSE, rows) BY <1>2
<1>7. \A c \in {i} \cap Coils : db.status[c] # "ABSENT" OBVIOUS
<1>8. {} \subseteq Holders OBVIOUS
<1> QED BY <1>3, <1>4, <1>5, <1>6, <1>7, <1>8, AskKeeps

LEMMA AsksKeep ==
  ASSUME PromisesAssumption, IInv, NEW w \in Workers, Asks(w)
  PROVE  IInv'
<1>1. AvailabilityAssumption /\ MaxKg \in Nat BY TypesAre DEF PromisesAssumption
<1>2. CASE AskScrap(w)
  <2>1. PICK i \in Items, q \in 1..MaxKg :
          /\ i \in Coils => db.status[i] # "ABSENT"
          /\ Ask(w, "scrap", {}, {i}, q, FALSE, RowsOf(i))
    BY <1>2 DEF AskScrap
  <2>2. q \in 0..MaxKg /\ q > 0 BY <1>1
  <2> QED BY <2>1, <2>2, AskItemKeeps
<1>3. CASE AskClose(w)
  <2>1. PICK c \in Coils : \E q \in 0..Weight(c) :
          db.status[c] = "OPEN" /\ Ask(w, "close", {}, {c}, q, FALSE, RowsOf(c))
    BY <1>3 DEF AskClose
  <2>2. PICK q \in 0..Weight(c) :
          db.status[c] = "OPEN" /\ Ask(w, "close", {}, {c}, q, FALSE, RowsOf(c))
    BY <2>1
  <2>3. q \in 0..MaxKg /\ q <= Weight(c)
    <3>1. Weight(c) \in 0..MaxKg BY WeightIs
    <3> QED BY <1>1, <3>1
  <2>4. c \in Items /\ db.status[c] # "ABSENT" BY <2>2 DEF Items
  <2> QED BY <2>2, <2>3, <2>4, AskItemKeeps
<1>4. CASE AskReopen(w)
  <2>1. PICK c \in Coils : /\ db.status[c] \in {"CLOSED", "SOLD"}
                           /\ Ask(w, "reopen", {}, {c}, 0, FALSE, RowsOf(c))
    BY <1>4 DEF AskReopen
  <2>2. c \in Items /\ db.status[c] # "ABSENT" /\ 0 \in 0..MaxKg BY <1>1, <2>1 DEF Items
  <2> QED BY <2>1, <2>2, AskItemKeeps
<1> QED BY <1>2, <1>3, <1>4, AskPromiseKeeps, AskDispatchKeeps, AskUndoKeeps DEF Asks

-----------------------------------------------------------------------------
(* Locking, writing, giving up.                                             *)

LEMMA AcquireKeeps ==
  ASSUME PromisesAssumption, IInv, NEW w \in Workers, Acquire(w)
  PROVE  IInv'
<1>1. PICK j : j = job[w] OBVIOUS
<1>2. IsJob(j) /\ Right(j, db) /\ job = [u \in Workers |-> job[u]] BY <1>1 DEF IInv
<1>3. PICK k : k = [op |-> j.op, holder |-> j.holder, item |-> j.item, qty |-> j.qty,
                    partial |-> j.partial, rows |-> j.rows, phase |-> "holding", write |-> j.write]
  OBVIOUS
<1>4. job' = [job EXCEPT ![w] = k] /\ UNCHANGED db
  <2>1. job' = [job EXCEPT ![w] = [j EXCEPT !.phase = "holding"]] BY <1>1, <1>2 DEF Acquire
  <2>2. [j EXCEPT !.phase = "holding"] = k BY <1>2, <1>3 DEF IsJob
  <2> QED BY <2>1, <2>2 DEF Acquire
<1>5. IsJob(k) BY <1>3 DEF IsJob
<1>6. Right(k, db)
  <2>1. j # NoJob BY <1>1 DEF Acquire, NoJob
  <2>2. Asked(j, db) BY <1>2, <2>1 DEF Right
  <2>3. AskedPromise(j, db) => AskedPromise(k, db) BY <1>3 DEF AskedPromise
  <2>4. AskedDispatch(j, db) => AskedDispatch(k, db) BY <1>3 DEF AskedDispatch
  <2>5. AskedUndo(j, db) => AskedUndo(k, db) BY <1>3 DEF AskedUndo
  <2>6. AskedItem(j) => AskedItem(k) BY <1>3 DEF AskedItem
  <2>7. k.phase = "holding" /\ k.qty = j.qty /\ k.item = j.item /\ k.holder = j.holder
        /\ k.rows = j.rows
    BY <1>3
  <2>8. Asked(k, db) BY <2>2, <2>3, <2>4, <2>5, <2>6, <2>7 DEF Asked
  <2> QED BY <2>7, <2>8 DEF Right
<1>7. ASSUME NEW u \in Workers \ {w} PROVE AreApart(k, job[u], db)
  <2>1. FreeFor(w, j.rows) BY <1>1 DEF Acquire
  <2>2. j.rows \cap HeldBy(job[u]) = {} BY <2>1, FreeIs
  <2>3. HeldBy(k) = j.rows /\ k.phase # "written" BY <1>3 DEF HeldBy
  <2> QED BY <2>2, <2>3 DEF AreApart
<1> QED BY <1>4, <1>5, <1>6, <1>7, OneJob

LEMMA RollbackKeeps ==
  ASSUME PromisesAssumption, IInv, NEW w \in Workers, Rollback(w)
  PROVE  IInv'
BY NoJobRight, OneJob DEF Rollback

LEMMA WroteIs ==
  ASSUME NEW w \in Workers, job = [u \in Workers |-> job[u]], NEW j, j = job[w], IsJob(j),
         NEW write, NEW extra, Wrote(w, write, extra), extra \subseteq Items
  PROVE  \E k : job' = [job EXCEPT ![w] = k] /\ IsJob(k) /\ WroteFrom(j, k, write, extra)
<1>1. PICK k : k = [op |-> j.op, holder |-> j.holder, item |-> j.item, qty |-> j.qty,
                    partial |-> j.partial, rows |-> j.rows \cup extra, phase |-> "written",
                    write |-> write]
  OBVIOUS
<1>2. PICK a : a = [j EXCEPT !.phase = "written"] OBVIOUS
<1>3. a = [op |-> j.op, holder |-> j.holder, item |-> j.item, qty |-> j.qty, partial |-> j.partial,
           rows |-> j.rows, phase |-> "written", write |-> j.write]
  BY <1>2 DEF IsJob
<1>4. PICK b : b = [a EXCEPT !.write = write] OBVIOUS
<1>5. b = [op |-> j.op, holder |-> j.holder, item |-> j.item, qty |-> j.qty, partial |-> j.partial,
           rows |-> j.rows, phase |-> "written", write |-> write]
  BY <1>3, <1>4
<1>6. [b EXCEPT !.rows = @ \cup extra] = k
  <2>1. PICK R : R = j.rows \cup extra OBVIOUS
  <2>2. b.rows \cup extra = R BY <1>5, <2>1
  <2>3. k = [op |-> j.op, holder |-> j.holder, item |-> j.item, qty |-> j.qty,
              partial |-> j.partial, rows |-> R, phase |-> "written", write |-> write]
    BY <1>1, <2>1
  <2>4. [b EXCEPT !.rows = R] = k BY <1>5, <2>3
  <2> QED BY <2>2, <2>4
<1>7. PICK A : A = [job EXCEPT ![w].phase = "written"] OBVIOUS
<1>8. A = [job EXCEPT ![w] = a] BY <1>2, <1>7
<1>9. PICK B : B = [A EXCEPT ![w].write = write] OBVIOUS
<1>10. B = [job EXCEPT ![w] = b] BY <1>4, <1>8, <1>9
<1>11. [B EXCEPT ![w].rows = @ \cup extra] = [job EXCEPT ![w] = k] BY <1>6, <1>10
<1>12. job' = [B EXCEPT ![w].rows = @ \cup extra] BY <1>7, <1>9 DEF Wrote
<1>13. IsJob(k) BY <1>1 DEF IsJob
<1>14. WroteFrom(j, k, write, extra) BY <1>1 DEF WroteFrom
<1> QED BY <1>11, <1>12, <1>13, <1>14

\* The transaction has written, and what it would commit is right.
LEMMA WroteKeeps ==
  ASSUME PromisesAssumption, IInv, NEW w \in Workers, NEW j, j = job[w], j.phase = "holding",
         NEW write, NEW extra, Wrote(w, write, extra), extra \subseteq Items,
         \A k : WroteFrom(j, k, write, extra) => Right(k, db) /\ Covers(k, db)
  PROVE  IInv'
<1>1. job = [u \in Workers |-> job[u]] /\ IsJob(j) BY DEF IInv
<1>2. PICK k : job' = [job EXCEPT ![w] = k] /\ IsJob(k) /\ WroteFrom(j, k, write, extra)
  BY <1>1, WroteIs
<1>3. Right(k, db) /\ Covers(k, db) BY <1>2
<1>4. k.phase = "written" /\ k.rows = j.rows \cup extra BY <1>2 DEF WroteFrom
<1>5. Asked(k, db)
  <2>1. k # NoJob BY <1>4 DEF NoJob
  <2> QED BY <1>3, <2>1 DEF Right
<1>6. ASSUME NEW u \in Workers \ {w} PROVE AreApart(k, job[u], db)
  <2>1. HeldBy(j) \cap HeldBy(job[u]) = {} BY DEF IInv, AreApart
  <2>2. extra \cap HeldBy(job[u]) = {} BY FreeIs DEF Wrote
  <2>3. HeldBy(k) = HeldBy(j) \cup extra BY <1>4 DEF HeldBy
  <2>4. HeldBy(k) \cap HeldBy(job[u]) = {} BY <2>1, <2>2, <2>3
  <2>5. Right(job[u], db) /\ AvailabilityAssumption BY DEF IInv, PromisesAssumption
  <2> QED BY <1>3, <1>4, <1>5, <2>4, <2>5, WroteApart
<1>7. UNCHANGED db BY DEF Wrote
<1> QED BY <1>2, <1>3, <1>6, <1>7, OneJob

LEMMA DoingIs ==
  ASSUME IInv, NEW w \in Workers, NEW op, op # "none", Doing(w, op), NEW j, j = job[w]
  PROVE  Asked(j, db) /\ j.op = op /\ j.phase = "holding" /\ Good(db)
BY DEF IInv, Right, Doing, NoJob

LEMMA ScrapKeeps ==
  ASSUME PromisesAssumption, IInv, NEW w \in Workers, Scrap(w)
  PROVE  IInv'
<1>1. AvailabilityAssumption BY DEF PromisesAssumption
<1>2. PICK j : j = job[w] OBVIOUS
<1>3. Asked(j, db) /\ j.op = "scrap" /\ j.phase = "holding" /\ Good(db)
  BY <1>2, DoingIs DEF Scrap
<1>4. PICK i \in j.item :
        LET write == Less(db, i, j.qty)
            seen  == After(db, write)
        IN  /\ j.qty <= db.kg[i]
            /\ OutHolds(seen, i)
            /\ Wrote(w, Emptied(db, write, i, "CLOSED"), OutRows(seen, i))
  BY <1>2 DEF Scrap
<1>5. PICK write : write = Less(db, i, j.qty) OBVIOUS
<1>6. PICK seen : seen = After(db, write) OBVIOUS
<1>7. PICK how : how = "CLOSED" OBVIOUS
<1>8. PICK last : last = Emptied(db, write, i, how) OBVIOUS
<1>9. /\ j.qty <= db.kg[i] /\ OutHolds(seen, i) /\ Wrote(w, last, OutRows(seen, i))
  BY <1>4, <1>5, <1>6, <1>7, <1>8
<1>10. PICK n : n = db.kg[i] - j.qty OBVIOUS
<1>11. PICK P : P = <<>> OBVIOUS
<1>12. write = Moved(i, n, 0, <<>>, P) BY <1>5, <1>10, <1>11, LessIsMoved
<1>13. ASSUME NEW k, WroteFrom(j, k, last, OutRows(seen, i)) PROVE Right(k, db) /\ Covers(k, db)
  BY <1>3, <1>6, <1>7, <1>8, <1>9, <1>10, <1>11, <1>12, <1>13, ScrapWrites
<1>14. OutRows(seen, i) \subseteq Items
  <2>1. i \in Items BY <1>1, <1>3, ItemIsOne
  <2> QED BY <1>1, <2>1, OutRowsIs
<1> QED BY <1>2, <1>3, <1>9, <1>13, <1>14, WroteKeeps

LEMMA DispatchKeeps ==
  ASSUME PromisesAssumption, IInv, NEW w \in Workers, Dispatch(w)
  PROVE  IInv'
<1>1. AvailabilityAssumption BY DEF PromisesAssumption
<1>2. PICK j : j = job[w] OBVIOUS
<1>3. Asked(j, db) /\ j.op = "dispatch" /\ j.phase = "holding" /\ Good(db)
  BY <1>2, DoingIs DEF Dispatch
<1>4. PICK h \in j.holder :
       LET i     == For[h]
           write == [Less(db, i, j.qty) EXCEPT
                       !.promises = Row(h, Consumed(db.promises[h], j.qty))]
           seen  == After(db, write)
       IN  /\ j.qty <= db.kg[i]
           /\ OutHolds(seen, i)
           /\ Wrote(w, Emptied(db, write, i, "SOLD"), OutRows(seen, i))
  BY <1>2 DEF Dispatch
<1>5. PICK i : i = For[h] OBVIOUS
<1>6. PICK p : p = Consumed(db.promises[h], j.qty) OBVIOUS
<1>7. PICK P : P = Row(h, p) OBVIOUS
<1>8. PICK write : write = AndPromises(Less(db, i, j.qty), P) OBVIOUS
<1>9. PICK seen : seen = After(db, write) OBVIOUS
<1>10. PICK how : how = "SOLD" OBVIOUS
<1>11. PICK last : last = Emptied(db, write, i, how) OBVIOUS
<1>12. /\ j.qty <= db.kg[i] /\ OutHolds(seen, i)
       /\ Wrote(w, last, OutRows(seen, i))
  BY <1>4, <1>5, <1>6, <1>7, <1>8, <1>9, <1>10, <1>11 DEF AndPromises
<1>13. PICK n : n = db.kg[i] - j.qty OBVIOUS
<1>14. write = Moved(i, n, 0, <<>>, P) BY <1>8, <1>13, LessPromises
<1>15. ASSUME NEW k, WroteFrom(j, k, last, OutRows(seen, i)) PROVE Right(k, db) /\ Covers(k, db)
  <2>1. Dispatched(db, j, h, p, P) BY <1>6, <1>7 DEF Dispatched
  <2> QED BY <1>3, <1>5, <1>9, <1>10, <1>11, <1>12, <1>13, <1>14, <1>15, <2>1, DispatchWrites
<1>16. OutRows(seen, i) \subseteq Items
  <2>1. i \in Items BY <1>1, <1>3, <1>5, AskedKinds DEF AskedDispatch
  <2> QED BY <1>1, <2>1, OutRowsIs
<1> QED BY <1>2, <1>3, <1>12, <1>15, <1>16, WroteKeeps

LEMMA UndoKeeps ==
  ASSUME PromisesAssumption, IInv, NEW w \in Workers, Undo(w)
  PROVE  IInv'
<1>1. AvailabilityAssumption BY DEF PromisesAssumption
<1>2. PICK j : j = job[w] OBVIOUS
<1>3. Asked(j, db) /\ j.op = "undo" /\ j.phase = "holding" /\ Good(db)
  BY <1>2, DoingIs DEF Undo
<1>4. PICK h \in j.holder :
       LET i    == For[h]
           back == Less(db, i, 0 - db.promises[h].sent)
       IN  /\ db.promises[h].sent > 0
           /\ db.kg[i] + db.promises[h].sent <= MaxKg
           /\ Wrote(w, [back EXCEPT !.promises = Row(h, Restored(db.promises[h])),
                          !.status = IF i \in Coils /\ db.status[i] = "SOLD"
                                     THEN Row(i, "OPEN") ELSE <<>>], {})
  BY <1>2 DEF Undo
<1>5. PICK i : i = For[h] OBVIOUS
<1>6. PICK q : q = db.promises[h].sent OBVIOUS
<1>7. PICK P : P = Row(h, Restored(db.promises[h])) OBVIOUS
<1>8. PICK S : S = IF i \in Coils /\ db.status[i] = "SOLD" THEN Row(i, "OPEN") ELSE <<>> OBVIOUS
<1>9. PICK back : back = Less(db, i, 0 - q) OBVIOUS
<1>10. PICK last : last = AndBoth(back, P, S) OBVIOUS
<1>11. db.kg[i] + db.promises[h].sent <= MaxKg /\ Wrote(w, last, {})
  BY <1>4, <1>5, <1>6, <1>7, <1>8, <1>9, <1>10 DEF AndBoth
<1>12. db.kg[i] \in Int /\ q \in Int
  <2>1. db \in DbType BY <1>3 DEF Good
  <2>2. h \in Holders /\ i \in Items BY <1>1, <1>3, <1>5, AskedKinds DEF AskedUndo
  <2>3. db.kg[i] \in 0..MaxKg /\ db.promises[h] \in PromiseType BY <2>1, <2>2, DbIs
  <2> QED BY <1>6, <2>3 DEF PromiseType
<1>13. PICK n : n = db.kg[i] + q OBVIOUS
<1>14. last = Moved(i, n, 0, S, P) BY <1>9, <1>10, <1>12, <1>13, BackPromises
<1>15. last = Moved(i, db.kg[i] + db.promises[h].sent, 0, S, Row(h, Restored(db.promises[h])))
  BY <1>6, <1>7, <1>13, <1>14
<1>16. S \in StatusTo(i, "OPEN") BY <1>8 DEF StatusTo
<1>17. ASSUME NEW k, WroteFrom(j, k, last, {}) PROVE Right(k, db) /\ Covers(k, db)
  BY <1>3, <1>5, <1>11, <1>15, <1>16, <1>17, UndoWrites
<1>18. {} \subseteq Items OBVIOUS
<1> QED BY <1>2, <1>3, <1>11, <1>17, <1>18, WroteKeeps

LEMMA ClosingIsMoved ==
  ASSUME NEW c \in Coils, NEW q, NEW l, l = db.kg[c] - q, NEW S, S = Row(c, "CLOSED"),
         NEW write, write = Closing(c, q)
  PROVE  write = Moved(c, q, l, S, <<>>)
<1>1. PICK K : K = Row(c, q) OBVIOUS
<1>2. PICK L : L = Row(c, l) OBVIOUS
<1>3. write = [NoWrite EXCEPT !.status = S, !.kg = K, !.liquidated = L] BY <1>1, <1>2 DEF Closing
<1>4. Moved(c, q, l, S, <<>>) = [status |-> S, kg |-> K, liquidated |-> L, promises |-> <<>>]
  BY <1>1, <1>2 DEF Moved
<1>5. PICK A : A = [NoWrite EXCEPT !.status = S] OBVIOUS
<1>6. A = [status |-> S, kg |-> <<>>, liquidated |-> <<>>, promises |-> <<>>] BY <1>5 DEF NoWrite
<1>7. PICK B : B = [A EXCEPT !.kg = K] OBVIOUS
<1>8. B = [status |-> S, kg |-> K, liquidated |-> <<>>, promises |-> <<>>] BY <1>6, <1>7
<1>9. [B EXCEPT !.liquidated = L] = [status |-> S, kg |-> K, liquidated |-> L, promises |-> <<>>]
  BY <1>8
<1>10. write = [B EXCEPT !.liquidated = L] BY <1>3, <1>5, <1>7
<1> QED BY <1>4, <1>9, <1>10

LEMMA CloseKeeps ==
  ASSUME PromisesAssumption, IInv, NEW w \in Workers, Close(w)
  PROVE  IInv'
<1>1. AvailabilityAssumption BY DEF PromisesAssumption
<1>2. PICK j : j = job[w] OBVIOUS
<1>3. Asked(j, db) /\ j.op = "close" /\ j.phase = "holding" /\ Good(db)
  BY <1>2, DoingIs DEF Close
<1>4. PICK c \in j.item :
        LET write == Closing(c, j.qty)
            seen  == After(db, write)
        IN  /\ db.status[c] = "OPEN"
            /\ Reserved(db, c) = 0
            /\ OutHolds(seen, c)
            /\ Wrote(w, write, OutRows(seen, c))
  BY <1>2 DEF Close
<1>5. PICK q : q = j.qty OBVIOUS
<1>6. PICK write : write = Closing(c, q) OBVIOUS
<1>7. PICK seen : seen = After(db, write) OBVIOUS
<1>8. /\ db.status[c] = "OPEN" /\ Reserved(db, c) = 0
      /\ OutHolds(seen, c) /\ Wrote(w, write, OutRows(seen, c))
  BY <1>4, <1>5, <1>6, <1>7
<1>9. PICK l : l = db.kg[c] - q OBVIOUS
<1>10. PICK S : S = Row(c, "CLOSED") OBVIOUS
<1>11. c \in Coils /\ c \in Items
  <2>1. j.op # "promise" /\ j.op \in {"close", "reopen"} BY <1>3
  <2> QED BY <1>1, <1>3, <2>1, ItemIsOne
<1>12. write = Moved(c, q, l, S, <<>>) BY <1>6, <1>9, <1>10, <1>11, ClosingIsMoved
<1>13. write = Moved(c, j.qty, l, S, <<>>) /\ l = db.kg[c] - j.qty BY <1>5, <1>9, <1>12
<1>14. ASSUME NEW k, WroteFrom(j, k, write, OutRows(seen, c)) PROVE Right(k, db) /\ Covers(k, db)
  BY <1>3, <1>7, <1>8, <1>10, <1>13, <1>14, CloseWrites
<1>15. OutRows(seen, c) \subseteq Items BY <1>1, <1>11, OutRowsIs
<1> QED BY <1>2, <1>3, <1>8, <1>14, <1>15, WroteKeeps

LEMMA ReopenKeeps ==
  ASSUME PromisesAssumption, IInv, NEW w \in Workers, Reopen(w)
  PROVE  IInv'
<1>1. AvailabilityAssumption BY DEF PromisesAssumption
<1>2. PICK j : j = job[w] OBVIOUS
<1>3. Asked(j, db) /\ j.op = "reopen" /\ j.phase = "holding" /\ Good(db)
  BY <1>2, DoingIs DEF Reopen
<1>4. PICK c \in j.item :
        LET back == Less(db, c, 0 - db.liquidated[c])
            seen == After(db, back)
        IN  /\ db.status[c] \in {"CLOSED", "SOLD"}
            /\ db.liquidated[c] < 0 => OutHolds(seen, c)
            /\ Wrote(w, [back EXCEPT !.status = Row(c, "OPEN")], OutRows(seen, c))
  BY <1>2 DEF Reopen
<1>5. PICK q : q = db.liquidated[c] OBVIOUS
<1>6. PICK S : S = Row(c, "OPEN") OBVIOUS
<1>7. PICK back : back = Less(db, c, 0 - q) OBVIOUS
<1>8. PICK seen : seen = After(db, back) OBVIOUS
<1>9. PICK last : last = AndStatus(back, S) OBVIOUS
<1>10. /\ db.status[c] \in {"CLOSED", "SOLD"} /\ (db.liquidated[c] < 0 => OutHolds(seen, c))
       /\ Wrote(w, last, OutRows(seen, c))
  BY <1>4, <1>5, <1>6, <1>7, <1>8, <1>9 DEF AndStatus
<1>11. c \in Coils /\ c \in Items
  <2>1. j.op # "promise" /\ j.op \in {"close", "reopen"} BY <1>3
  <2> QED BY <1>1, <1>3, <2>1, ItemIsOne
<1>12. db.kg[c] \in Int /\ q \in Int
  <2>1. db \in DbType BY <1>3 DEF Good
  <2>2. db.kg[c] \in 0..MaxKg /\ db.liquidated[c] \in (-MaxKg)..MaxKg BY <1>11, <2>1, DbIs
  <2> QED BY <1>5, <2>2
<1>13. PICK n : n = db.kg[c] + q OBVIOUS
<1>14. back = Moved(c, n, 0, <<>>, <<>>) /\ last = Moved(c, n, 0, S, <<>>)
  BY <1>7, <1>9, <1>12, <1>13, BackStatus
<1>15. n = db.kg[c] + db.liquidated[c] BY <1>5, <1>13
<1>16. ASSUME NEW k, WroteFrom(j, k, last, OutRows(seen, c)) PROVE Right(k, db) /\ Covers(k, db)
  BY <1>3, <1>6, <1>8, <1>10, <1>14, <1>15, <1>16, ReopenWrites
<1>17. OutRows(seen, c) \subseteq Items BY <1>1, <1>11, OutRowsIs
<1> QED BY <1>2, <1>3, <1>10, <1>16, <1>17, WroteKeeps

-----------------------------------------------------------------------------
(* Promising.                                                               *)

LEMMA PromiseOfIs ==
  ASSUME NEW h, NEW q, NEW p, p = [state |-> "ACTIVE", qty |-> q, sent |-> db.promises[h].sent],
         NEW write, write = PromiseOf(h, q)
  PROVE  write = Promised(h, p)
<1>1. PICK R : R = Row(h, p) OBVIOUS
<1>2. write = [NoWrite EXCEPT !.promises = R] BY <1>1 DEF PromiseOf
<1>3. Promised(h, p) = [status |-> <<>>, kg |-> <<>>, liquidated |-> <<>>, promises |-> R]
  BY <1>1 DEF Promised
<1> QED BY <1>2, <1>3 DEF NoWrite

LEMMA PromiseProductKeeps ==
  ASSUME PromisesAssumption, IInv, NEW w \in Workers, PromiseProduct(w)
  PROVE  IInv'
<1>1. AvailabilityAssumption BY DEF PromisesAssumption
<1>2. PICK j : j = job[w] OBVIOUS
<1>3. Asked(j, db) /\ j.op = "promise" /\ j.phase = "holding" /\ Good(db)
  BY <1>2, DoingIs DEF PromiseProduct
<1>4. PICK h \in j.holder :
       /\ For[h] \in Products /\ j.qty <= ItemAvailable(db, For[h])
       /\ Wrote(w, PromiseOf(h, j.qty), {})
  BY <1>2 DEF PromiseProduct
<1>5. PICK i : i = For[h] OBVIOUS
<1>6. i \in Items /\ i \notin Coils BY <1>1, <1>4, <1>5 DEF Items, AvailabilityAssumption
<1>7. PICK q : q = j.qty OBVIOUS
<1>8. PICK p : p = [state |-> "ACTIVE", qty |-> q, sent |-> db.promises[h].sent] OBVIOUS
<1>9. PICK write : write = PromiseOf(h, q) OBVIOUS
<1>10. write = Promised(h, p) /\ p = [state |-> "ACTIVE", qty |-> j.qty, sent |-> db.promises[h].sent]
  BY <1>7, <1>8, <1>9, PromiseOfIs
<1>11. PICK e : e = After(db, write) OBVIOUS
<1>12. PICK extra : extra = IF i \in Coils THEN LockSet(e, {i}) ELSE {} OBVIOUS
<1>13. Wrote(w, write, extra) /\ extra \subseteq Items BY <1>4, <1>6, <1>7, <1>9, <1>12
<1>14. j.qty <= ItemAvailable(db, i) BY <1>4, <1>5
<1>15. ASSUME NEW k, WroteFrom(j, k, write, extra) PROVE Right(k, db) /\ Covers(k, db)
  <2>1. i \in Coils => db.status[i] # "ABSENT" /\ AggregatesHold(e, {i}) BY <1>6
  <2> QED BY <1>3, <1>5, <1>6, <1>10, <1>11, <1>12, <1>14, <1>15, <2>1, ItemPromiseWrites
<1> QED BY <1>2, <1>3, <1>13, <1>15, WroteKeeps

LEMMA PromiseCoilKeeps ==
  ASSUME PromisesAssumption, IInv, NEW w \in Workers, PromiseCoil(w)
  PROVE  IInv'
<1>1. AvailabilityAssumption BY DEF PromisesAssumption
<1>2. PICK j : j = job[w] OBVIOUS
<1>3. Asked(j, db) /\ j.op = "promise" /\ j.phase = "holding" /\ Good(db)
  BY <1>2, DoingIs DEF PromiseCoil
<1>4. PICK h \in j.holder :
       LET write == PromiseOf(h, j.qty)
           seen  == After(db, write)
       IN  /\ For[h] \in Coils
           /\ db.status[For[h]] # "ABSENT"
           /\ j.qty <= ItemAvailable(db, For[h])
           /\ AggregatesHold(seen, {For[h]})
           /\ Wrote(w, write, LockSet(seen, {For[h]}))
  BY <1>2 DEF PromiseCoil
<1>5. PICK i : i = For[h] OBVIOUS
<1>6. i \in Items /\ i \in Coils BY <1>4, <1>5 DEF Items
<1>7. PICK q : q = j.qty OBVIOUS
<1>8. PICK p : p = [state |-> "ACTIVE", qty |-> q, sent |-> db.promises[h].sent] OBVIOUS
<1>9. PICK write : write = PromiseOf(h, q) OBVIOUS
<1>10. write = Promised(h, p) /\ p = [state |-> "ACTIVE", qty |-> j.qty, sent |-> db.promises[h].sent]
  BY <1>7, <1>8, <1>9, PromiseOfIs
<1>11. PICK e : e = After(db, write) OBVIOUS
<1>12. PICK extra : extra = IF i \in Coils THEN LockSet(e, {i}) ELSE {} OBVIOUS
<1>13. Wrote(w, write, extra) BY <1>4, <1>5, <1>6, <1>7, <1>9, <1>11, <1>12
<1>14. extra \subseteq Items BY <1>1, <1>6, <1>12, LockSetCoils DEF Items
<1>15. j.qty <= ItemAvailable(db, i) BY <1>4, <1>5
<1>16. ASSUME NEW k, WroteFrom(j, k, write, extra) PROVE Right(k, db) /\ Covers(k, db)
  <2>1. i \in Coils => db.status[i] # "ABSENT" /\ AggregatesHold(e, {i})
    BY <1>4, <1>5, <1>7, <1>9, <1>11
  <2> QED BY <1>3, <1>5, <1>6, <1>10, <1>11, <1>12, <1>15, <1>16, <2>1, ItemPromiseWrites
<1> QED BY <1>2, <1>3, <1>13, <1>14, <1>16, WroteKeeps

\* splitReservable asks for no more than there is, or for nothing.
LEMMA ReservableIs ==
  ASSUME AvailabilityAssumption, NEW w, NEW a \in Int, job[w].qty \in 0..MaxKg,
         job[w].partial \/ job[w].qty <= a
  PROVE  /\ Reservable(w, a) \in 0..MaxKg
         /\ Reservable(w, a) > 0 => Reservable(w, a) <= a
<1>1. PICK q : q = job[w].qty OBVIOUS
<1>2. MaxKg \in Nat /\ q \in 0..MaxKg BY <1>1, TypesAre
<1>3. PICK m : m = Max({a, 0}) OBVIOUS
<1>4. m = IF a >= 0 THEN a ELSE 0 BY <1>3, MaxOfTwo
<1>5. CASE job[w].partial /\ q > a
  <2>1. Reservable(w, a) = m BY <1>1, <1>3, <1>5 DEF Reservable
  <2>2. m \in 0..MaxKg /\ (m > 0 => m <= a) BY <1>2, <1>4, <1>5
  <2> QED BY <2>1, <2>2
<1>6. CASE ~(job[w].partial /\ q > a)
  <2>1. Reservable(w, a) = q BY <1>1, <1>6 DEF Reservable
  <2>2. q <= a BY <1>1, <1>2, <1>6
  <2> QED BY <1>2, <2>1, <2>2
<1> QED BY <1>5, <1>6

LEMMA PromiseAggregateKeeps ==
  ASSUME PromisesAssumption, IInv, NEW w \in Workers, PromiseAggregate(w)
  PROVE  IInv'
<1>1. AvailabilityAssumption BY DEF PromisesAssumption
<1>2. PICK j : j = job[w] OBVIOUS
<1>3. Asked(j, db) /\ j.op = "promise" /\ j.phase = "holding" /\ Good(db)
  BY <1>2, DoingIs DEF PromiseAggregate
<1>4. PICK h \in j.holder :
       LET available == Available(db, For[h]) IN
       /\ For[h] \in Specs
       /\ j.partial \/ j.qty <= available
       /\ Wrote(w, PromiseOf(h, Reservable(w, available)), {})
  BY <1>2 DEF PromiseAggregate
<1>5. PICK a : a = Available(db, For[h]) OBVIOUS
<1>6. PICK q : q = Reservable(w, a) OBVIOUS
<1>7. PICK write : write = PromiseOf(h, q) OBVIOUS
<1>8. /\ For[h] \in Specs /\ (job[w].partial \/ job[w].qty <= a)
      /\ Wrote(w, write, {})
  BY <1>2, <1>4, <1>5, <1>6, <1>7
<1>9. a \in Int
  <2>1. db \in DbType BY <1>3 DEF Good
  <2> QED BY <1>1, <1>5, <1>8, <2>1, AvailableIs
<1>10. job[w].qty \in 0..MaxKg BY <1>2, <1>3 DEF Asked
<1>11. q \in 0..MaxKg /\ (q > 0 => q <= Available(db, For[h]))
  BY <1>1, <1>5, <1>6, <1>8, <1>9, <1>10, ReservableIs
<1>12. PICK p : p = [state |-> "ACTIVE", qty |-> q, sent |-> db.promises[h].sent] OBVIOUS
<1>13. write = Promised(h, p) BY <1>7, <1>12, PromiseOfIs
<1>14. ASSUME NEW k, WroteFrom(j, k, write, {}) PROVE Right(k, db) /\ Covers(k, db)
  <2>1. WroteFrom(j, k, Promised(h, p), {}) BY <1>13, <1>14
  <2> QED BY <1>3, <1>8, <1>11, <1>12, <2>1, AggregateWrites
<1>15. {} \subseteq Items OBVIOUS
<1> QED BY <1>2, <1>3, <1>8, <1>14, <1>15, WroteKeeps

LEMMA WritesKeep ==
  ASSUME PromisesAssumption, IInv, NEW w \in Workers, Writes(w)
  PROVE  IInv'
BY PromiseAggregateKeeps, PromiseProductKeeps, PromiseCoilKeeps, ScrapKeeps, DispatchKeeps,
   UndoKeeps, CloseKeeps, ReopenKeeps DEF Writes

-----------------------------------------------------------------------------
(* What is committed changes.                                               *)

LEMMA CommitStep ==
  ASSUME PromisesAssumption, Quiet, IInv, NEW w \in Workers, Commit(w)
  PROVE  IInv'
<1>1. PICK j : j = job[w] OBVIOUS
<1>2. j.phase = "written" /\ Right(j, db) /\ Good(db) /\ job = [u \in Workers |-> job[u]]
  BY <1>1 DEF Commit, IInv
<1>3. PICK write : write = j.write OBVIOUS
<1>4. PICK e : e = After(db, write) OBVIOUS
<1>5. db' = e /\ job' = [job EXCEPT ![w] = NoJob] BY <1>1, <1>3, <1>4 DEF Commit
<1>6. e = After(db, j.write) BY <1>3, <1>4
<1>7. Good(e) BY <1>2, <1>3, <1>4, WrittenIs
<1>8. job' = [u \in Workers |-> IF u = w THEN NoJob ELSE job[u]] BY <1>2, <1>5
<1>9. job'[w] = NoJob /\ \A u \in Workers \ {w} : job'[u] = job[u] BY <1>8
<1>10. ASSUME NEW u \in Workers \ {w}
       PROVE  AreApart(j, job[u], db) /\ Right(job[u], db) /\ IsJob(job[u]) /\ Right(job[u], e)
  <2>1. AreApart(j, job[u], db) /\ Right(job[u], db) /\ IsJob(job[u]) BY <1>1 DEF IInv
  <2>2. PICK k : k = job[u] OBVIOUS
  <2>3. NoneOpens(j, k)
    <3> SUFFICES ASSUME k.op = "promise", NEW c \in DOMAIN j.write.status, j.write.status[c] = "OPEN"
                 PROVE  \A h \in k.holder : For[h] \in Specs => c \notin Matches[For[h]]
      BY DEF NoneOpens
    <3>1. NobodyPromises(c) BY <1>1 DEF Commit
    <3> QED BY <2>2, <3>1 DEF NobodyPromises
  <2>4. Right(k, e) BY <1>2, <1>6, <2>1, <2>2, <2>3, CommitKeeps
  <2> QED BY <2>1, <2>2, <2>4
<1>11. ASSUME NEW u \in Workers, NEW v \in Workers, u # v
       PROVE  AreApart(job'[u], job'[v], e)
  <2>1. CASE u = w \/ v = w BY <1>9, <2>1, NoJobRight
  <2>2. CASE u # w /\ v # w
    <3>1. AreApart(job[u], job[v], db) BY <1>11 DEF IInv
    <3>2. AreApart(job[u], job[v], e) BY <1>2, <1>6, <1>10, <2>2, <3>1, CommitApart
    <3> QED BY <1>9, <2>2, <3>2
  <2> QED BY <2>1, <2>2
<1>12. ASSUME NEW u \in Workers PROVE IsJob(job'[u]) /\ Right(job'[u], e)
  BY <1>9, <1>10, NoJobRight
<1>13. job' = [u \in Workers |-> job'[u]] BY <1>8
<1> QED BY <1>5, <1>7, <1>11, <1>12, <1>13 DEF IInv

\* A promise is given up that no transaction has asked about.
LEMMA ForgetStep ==
  ASSUME PromisesAssumption, IInv, NEW h \in Holders, NEW e, db' = e, Forgets(db, e, h),
         UNCHANGED job, \A w \in Workers : h \notin job[w].holder
  PROVE  IInv'
<1>1. AvailabilityAssumption /\ Good(db) /\ db \in DbType BY DEF PromisesAssumption, IInv, Good
<1>2. Good(e) BY <1>1, ForgetsGood
<1>3. ASSUME NEW w \in Workers PROVE IsJob(job[w]) /\ Right(job[w], e)
  <2>1. IsJob(job[w]) /\ Right(job[w], db) BY DEF IInv
  <2> QED BY <1>1, <2>1, ForgetKeeps
<1>4. ASSUME NEW w \in Workers, NEW u \in Workers, w # u PROVE AreApart(job[w], job[u], e)
  <2>1. AreApart(job[w], job[u], db) BY <1>4 DEF IInv
  <2> QED BY <1>1, <2>1, ForgetApart
<1>5. job' = job /\ job = [w \in Workers |-> job[w]] BY DEF IInv
<1>6. /\ \A w \in Workers : IsJob(job'[w]) /\ Right(job'[w], db')
      /\ \A w, u \in Workers : w # u => AreApart(job'[w], job'[u], db')
      /\ job' = [w \in Workers |-> job'[w]] /\ Good(db')
  BY <1>2, <1>3, <1>4, <1>5
<1> QED BY <1>6 DEF IInv

LEMMA StateIs ==
  ASSUME AvailabilityAssumption, NEW d \in DbType, NEW h \in Holders,
         d.promises[h].state = "ACTIVE", NEW st, st = "RELEASED" \/ (st = "EXPIRED" /\ h \in Temporary),
         NEW e, e = [d EXCEPT !.promises[h].state = st]
  PROVE  Forgets(d, e, h)
<1>1. d = [status |-> d.status, kg |-> d.kg, liquidated |-> d.liquidated, promises |-> d.promises]
      /\ d.status \in [Coils -> StatusType] /\ d.kg \in [Items -> 0..MaxKg]
      /\ d.liquidated \in [Coils -> (-MaxKg)..MaxKg] /\ d.promises \in [Holders -> PromiseType]
  BY DEF DbType
<1>2. PICK p : p = d.promises[h] OBVIOUS
<1>3. PICK r : r = [p EXCEPT !.state = st] OBVIOUS
<1>4. p \in PromiseType BY <1>1, <1>2
<1>5. r \in PromiseType /\ r.qty = p.qty /\ r.sent = p.sent /\ r.state = st
  BY <1>3, <1>4 DEF PromiseType
<1>6. PICK P : P = [d.promises EXCEPT ![h] = r] OBVIOUS
<1>7. P \in [Holders -> PromiseType] /\ P[h] = r /\ \A g \in Holders \ {h} : P[g] = d.promises[g]
  BY <1>1, <1>5, <1>6
<1>8. e = [d EXCEPT !.promises = P]
  <2>1. e = [d EXCEPT !.promises[h] = r] BY <1>2, <1>3
  <2> QED BY <1>6, <2>1
<1>9. e = [status |-> d.status, kg |-> d.kg, liquidated |-> d.liquidated, promises |-> P]
  BY <1>1, <1>8
<1>10. e \in DbType BY <1>1, <1>7, <1>9 DEF DbType
<1> QED BY <1>2, <1>5, <1>7, <1>9, <1>10 DEF Forgets

LEMMA ReleaseStep ==
  ASSUME PromisesAssumption, IInv, NEW h \in Holders, Release(h)
  PROVE  IInv' /\ Forgets(db, db', h)
<1>1. AvailabilityAssumption /\ db \in DbType BY DEF PromisesAssumption, IInv, Good
<1>2. PICK st : st = "RELEASED" OBVIOUS
<1>3. PICK e : e = [db EXCEPT !.promises[h].state = st] OBVIOUS
<1>4. db' = e /\ UNCHANGED job BY <1>2, <1>3 DEF Release
<1>5. Forgets(db, e, h)
  <2>1. db.promises[h].state = "ACTIVE" BY DEF Release
  <2> QED BY <1>1, <1>2, <1>3, <2>1, StateIs
<1>6. ASSUME NEW w \in Workers PROVE h \notin job[w].holder
  <2>1. Right(job[w], db) BY DEF IInv
  <2>2. h \notin HeldBy(job[w]) BY DEF Release, Held, HeldBy
  <2> QED BY <1>1, <2>1, <2>2, JobHolders
<1>7. IInv' BY <1>4, <1>5, <1>6, ForgetStep
<1> QED BY <1>4, <1>5, <1>7

LEMMA ExpireStep ==
  ASSUME PromisesAssumption, IInv, NEW h \in Holders, Expire(h)
  PROVE  IInv' /\ Forgets(db, db', h)
<1>1. AvailabilityAssumption /\ db \in DbType BY DEF PromisesAssumption, IInv, Good
<1>2. PICK st : st = "EXPIRED" OBVIOUS
<1>3. PICK e : e = [db EXCEPT !.promises[h].state = st] OBVIOUS
<1>4. db' = e /\ UNCHANGED job BY <1>2, <1>3 DEF Expire
<1>5. h \in Temporary /\ db.promises[h].state = "ACTIVE" BY DEF Expire
<1>6. Forgets(db, e, h) BY <1>1, <1>2, <1>3, <1>5, StateIs
<1>7. ASSUME NEW w \in Workers PROVE h \notin job[w].holder
  <2>1. Right(job[w], db) BY DEF IInv
  <2>2. CASE job[w] = NoJob BY <2>2 DEF NoJob
  <2>3. CASE Asked(job[w], db)
    BY <1>5, <2>3 DEF Asked, AskedPromise, AskedDispatch, AskedUndo, AskedItem
  <2> QED BY <2>1, <2>2, <2>3 DEF Right
<1>8. IInv' BY <1>4, <1>6, <1>7, ForgetStep
<1> QED BY <1>4, <1>6, <1>8

LEMMA ReceivedIs ==
  ASSUME NEW d, NEW c, d.status[c] = "ABSENT", NEW S, S[c] = "OPEN", NEW K,
         \A b \in Coils \ {c} : S[b] = d.status[b], \A i \in Items \ {c} : K[i] = d.kg[i],
         NEW e, e \in DbType,
         e = [status |-> S, kg |-> K, liquidated |-> d.liquidated, promises |-> d.promises]
  PROVE  Receives(d, e, c)
<1>1. e.status = S /\ e.kg = K /\ e.liquidated = d.liquidated /\ e.promises = d.promises OBVIOUS
<1> QED BY <1>1 DEF Receives

Received(d, c, q) == [d EXCEPT !.status[c] = "OPEN", !.kg[c] = q]

LEMMA ReceiveIs ==
  ASSUME AvailabilityAssumption, NEW d \in DbType, NEW c \in Coils, d.status[c] = "ABSENT",
         NEW q \in 1..MaxKg, NEW e, e = Received(d, c, q)
  PROVE  /\ e \in DbType
         /\ \E S, K :
              /\ S[c] = "OPEN" /\ \A b \in Coils \ {c} : S[b] = d.status[b]
              /\ \A i \in Items \ {c} : K[i] = d.kg[i]
              /\ e = [status |-> S, kg |-> K, liquidated |-> d.liquidated, promises |-> d.promises]
<1>1. d = [status |-> d.status, kg |-> d.kg, liquidated |-> d.liquidated, promises |-> d.promises]
      /\ d.status \in [Coils -> StatusType] /\ d.kg \in [Items -> 0..MaxKg]
      /\ d.liquidated \in [Coils -> (-MaxKg)..MaxKg] /\ d.promises \in [Holders -> PromiseType]
  BY DEF DbType
<1>2. PICK S : S = [d.status EXCEPT ![c] = "OPEN"] OBVIOUS
<1>3. PICK K : K = [d.kg EXCEPT ![c] = q] OBVIOUS
<1>4. S \in [Coils -> StatusType] /\ S[c] = "OPEN" /\ \A b \in Coils \ {c} : S[b] = d.status[b]
  <2>1. "OPEN" \in StatusType BY DEF StatusType
  <2> QED BY <1>1, <1>2, <2>1
<1>5. K \in [Items -> 0..MaxKg] /\ \A i \in Items \ {c} : K[i] = d.kg[i]
  <2>1. q \in 0..MaxKg BY TypesAre
  <2>2. c \in Items BY DEF Items
  <2> QED BY <1>1, <1>3, <2>1, <2>2
<1>6. PICK a : a = [d EXCEPT !.status = S] OBVIOUS
<1>7. a = [status |-> S, kg |-> d.kg, liquidated |-> d.liquidated, promises |-> d.promises]
  BY <1>1, <1>6
<1>8. e = [a EXCEPT !.kg = K]
  <2>1. a = [d EXCEPT !.status[c] = "OPEN"] BY <1>2, <1>6
  <2>2. [a EXCEPT !.kg[c] = q] = [a EXCEPT !.kg = K] BY <1>3, <1>7
  <2>3. e = [a EXCEPT !.kg[c] = q] BY <2>1 DEF Received
  <2> QED BY <2>2, <2>3
<1>9. e = [status |-> S, kg |-> K, liquidated |-> d.liquidated, promises |-> d.promises]
  BY <1>7, <1>8
<1>10. e \in DbType BY <1>1, <1>4, <1>5, <1>9 DEF DbType
<1> QED BY <1>4, <1>5, <1>9, <1>10

LEMMA ReceiveStep ==
  ASSUME PromisesAssumption, Quiet, IInv, NEW c \in Coils, Receive(c)
  PROVE  IInv' /\ Receives(db, db', c)
<1>1. AvailabilityAssumption /\ Good(db) /\ db \in DbType BY DEF PromisesAssumption, IInv, Good
<1>2. PICK q \in 1..MaxKg : db' = [db EXCEPT !.status[c] = "OPEN", !.kg[c] = q] BY DEF Receive
<1>3. PICK e : e = Received(db, c, q) OBVIOUS
<1>4. db' = e /\ job' = job /\ db.status[c] = "ABSENT" /\ NobodyPromises(c)
  BY <1>2, <1>3 DEF Receive, Received
<1>5. /\ e \in DbType
      /\ \E S, K :
           /\ S[c] = "OPEN" /\ \A b \in Coils \ {c} : S[b] = db.status[b]
           /\ \A i \in Items \ {c} : K[i] = db.kg[i]
           /\ e = [status |-> S, kg |-> K, liquidated |-> db.liquidated, promises |-> db.promises]
  BY <1>1, <1>3, <1>4, ReceiveIs
<1>6. Receives(db, e, c) BY <1>4, <1>5, ReceivedIs
<1>7. Good(e) BY <1>1, <1>6, ReceivesGood
<1>8. ASSUME NEW w \in Workers
      PROVE  /\ IsJob(job[w]) /\ Right(job[w], db) /\ Right(job[w], e)
             /\ job[w].phase = "written" => c \notin PlacesOf(job[w])
  <2>1. IsJob(job[w]) /\ Right(job[w], db) BY DEF IInv
  <2>2. job[w].op = "promise" =>
          \A h \in job[w].holder : For[h] \in Specs => c \notin Matches[For[h]]
    BY <1>4 DEF NobodyPromises
  <2> QED BY <1>1, <1>6, <2>1, <2>2, ReceiveKeeps
<1>9. ASSUME NEW w \in Workers, NEW u \in Workers, w # u PROVE AreApart(job[w], job[u], e)
  <2>1. AreApart(job[w], job[u], db) BY <1>9 DEF IInv
  <2> QED BY <1>1, <1>6, <1>8, <2>1, ReceiveApart
<1>10. job = [w \in Workers |-> job[w]] BY DEF IInv
<1>11. /\ \A w \in Workers : IsJob(job'[w]) /\ Right(job'[w], db')
       /\ \A w, u \in Workers : w # u => AreApart(job'[w], job'[u], db')
       /\ job' = [w \in Workers |-> job'[w]] /\ Good(db')
  BY <1>4, <1>7, <1>8, <1>9, <1>10
<1>12. IInv' BY <1>11, MakesInv
<1> QED BY <1>4, <1>6, <1>12

-----------------------------------------------------------------------------
(* The invariant holds.                                                     *)

LEMMA InitInv == PromisesAssumption /\ Init => IInv
<1> SUFFICES ASSUME PromisesAssumption, Init PROVE IInv OBVIOUS
<1>1. AvailabilityAssumption /\ MaxKg \in Nat /\ InitialKg \in [Items -> 0..MaxKg]
  BY TypesAre DEF PromisesAssumption
<1>2. PICK p : p = [state |-> "NONE", qty |-> 0, sent |-> 0] OBVIOUS
<1>3. /\ db = [status |-> db.status, kg |-> db.kg, liquidated |-> db.liquidated,
               promises |-> db.promises]
      /\ db.status = [c \in Coils |-> IF c \in NotReceived THEN "ABSENT" ELSE "OPEN"]
      /\ db.kg = [i \in Items |-> IF i \in NotReceived THEN 0 ELSE InitialKg[i]]
      /\ db.liquidated = [c \in Coils |-> 0] /\ db.promises = [h \in Holders |-> p]
      /\ job = [w \in Workers |-> NoJob]
  BY <1>2 DEF Init
<1>4. p \in PromiseType /\ p.state = "NONE" /\ p.sent = 0 BY <1>1, <1>2 DEF PromiseType
<1>5. db \in DbType
  <2>1. db.status \in [Coils -> StatusType] BY <1>3 DEF StatusType
  <2>2. db.kg \in [Items -> 0..MaxKg]
    <3>1. \A i \in Items : (IF i \in NotReceived THEN 0 ELSE InitialKg[i]) \in 0..MaxKg BY <1>1
    <3> QED BY <1>3, <3>1
  <2>3. db.liquidated \in [Coils -> (-MaxKg)..MaxKg] BY <1>1, <1>3, TypesAre
  <2>4. db.promises \in [Holders -> PromiseType] BY <1>3, <1>4
  <2> QED BY <1>3, <2>1, <2>2, <2>3, <2>4 DEF DbType
<1>6. ASSUME NEW x PROVE Reserved(db, x) = 0
  <2>1. Active(db, x) = {} BY <1>3, <1>4 DEF Active
  <2> QED BY <2>1, ReservedNone
<1>7. ASSUME NEW i \in Items PROVE ItemAvailable(db, i) >= 0
  BY <1>1, <1>5, <1>6, AvailableOf
<1>8. ASSUME NEW x \in Places PROVE Fine(db, x)
  <2>1. ASSUME x \in Coils PROVE FineCoil(db, x)
    <3>1. x \in Items /\ db.liquidated[x] = 0 BY <1>3, <2>1 DEF Items
    <3>2. db.kg[x] \in 0..MaxKg BY <1>1, <1>5, <3>1, DbIs
    <3>3. db.status[x] = "ABSENT" => db.kg[x] = 0 BY <1>3, <2>1, <3>1
    <3>4. \A h \in Holders : db.promises[h].state = "NONE" /\ db.promises[h].sent = 0
      BY <1>3, <1>4
    <3> QED BY <3>1, <3>2, <3>3, <3>4 DEF FineCoil
  <2>2. \A h \in Holders : FinePromise(h, db.promises[h]) BY <1>3, <1>4 DEF FinePromise
  <2> QED BY <1>7, <2>1, <2>2 DEF Fine
<1>9. ASSUME NEW s \in Specs PROVE Available(db, s) >= 0
  <2>1. \A c \in Coils : ItemAvailable(db, c) >= 0 BY <1>7 DEF Items
  <2> QED BY <1>1, <1>5, <1>6, <2>1, AvailableNat
<1>10. Good(db) BY <1>5, <1>8, <1>9 DEF Good
<1>11. \A w \in Workers : job[w] = NoJob BY <1>3
<1> QED BY <1>3, <1>10, <1>11, NoJobRight DEF IInv

LEMMA NextInv ==
  ASSUME PromisesAssumption, Quiet, IInv, [Next]_vars
  PROVE  IInv'
<1>1. CASE UNCHANGED vars BY <1>1 DEF vars, IInv
<1>2. CASE \E w \in Workers : Asks(w) \/ Acquire(w) \/ Writes(w) \/ Commit(w) \/ Rollback(w)
  <2>1. PICK w \in Workers : Asks(w) \/ Acquire(w) \/ Writes(w) \/ Commit(w) \/ Rollback(w)
    BY <1>2
  <2> QED BY <2>1, AsksKeep, AcquireKeeps, WritesKeep, CommitStep, RollbackKeeps
<1>3. CASE \E h \in Holders : Release(h) \/ Expire(h)
  <2>1. PICK h \in Holders : Release(h) \/ Expire(h) BY <1>3
  <2> QED BY <2>1, ReleaseStep, ExpireStep
<1>4. CASE \E c \in Coils : Receive(c)
  <2>1. PICK c \in Coils : Receive(c) BY <1>4
  <2> QED BY <2>1, ReceiveStep
<1> QED BY <1>1, <1>2, <1>3, <1>4 DEF Next

-----------------------------------------------------------------------------
(* The ledger.  Its operators are those of this module.                     *)

LEMMA LedgerReads ==
  ASSUME NEW d, NEW x
  PROVE  /\ Ledger!Reserved(d, x) = Reserved(d, x)
         /\ Ledger!ItemAvailable(d, x) = ItemAvailable(d, x)
         /\ Ledger!Available(d, x) = Available(d, x)
<1>1. \A f, S : Ledger!SumFunctionOnSet(f, S) = SumFunctionOnSet(f, S)
  BY DEF Ledger!SumFunctionOnSet, Ledger!FoldFunctionOnSet, Ledger!MapThenFoldSet,
         SumFunctionOnSet, FoldFunctionOnSet, MapThenFoldSet
<1>2. \A y : Ledger!Reserved(d, y) = Reserved(d, y)
  BY <1>1 DEF Ledger!Reserved, Reserved, Ledger!Active, Active
<1>3. \A y : Ledger!ItemAvailable(d, y) = ItemAvailable(d, y)
  BY <1>2 DEF Ledger!ItemAvailable, ItemAvailable
<1>4. Ledger!Available(d, x) = Available(d, x)
  BY <1>1, <1>2, <1>3 DEF Ledger!Available, Available, Ledger!Candidates, Candidates
<1> QED BY <1>2, <1>3, <1>4

LEMMA SoundIs ==
  ASSUME AvailabilityAssumption, NEW d, Good(d)
  PROVE  Ledger!Sound(d)
<1>1. ASSUME NEW i \in Items PROVE Ledger!ItemAvailable(d, i) >= 0
  BY LedgerReads, PlaceIsOne DEF Good, Fine
<1>2. ASSUME NEW s \in Specs PROVE Ledger!Available(d, s) >= 0
  BY LedgerReads DEF Good
<1> QED BY <1>1, <1>2 DEF Ledger!Sound, Ledger!Items, Items

\* What a transaction does not name stays.
LEMMA SameOutside ==
  ASSUME AvailabilityAssumption, NEW d \in DbType, NEW write, NEW e, e = After(d, write), NEW H,
         NEW x, WritesIn(H, write, e, x)
  PROVE  /\ \A i \in Items \ {x} : e.kg[i] = d.kg[i]
         /\ \A c \in Coils \ {x} : e.status[c] = d.status[c]
         /\ \A h \in Holders \ H : e.promises[h] = d.promises[h]
<1>1. WritesAt(write, x) /\ DOMAIN write.promises \subseteq H BY DEF WritesIn
<1>2. Differ(d, e, x) BY <1>1, AfterDiffers
<1>3. Items \subseteq Places /\ Coils \subseteq Items BY PlaceIsOne DEF Items
<1>4. \A h \in Holders \ H : e.promises[h] = d.promises[h] BY <1>1, PromisesAfter
<1> QED BY <1>2, <1>3, <1>4 DEF Differ, Alike

LEMMA PromiseStep ==
  ASSUME PromisesAssumption, Good(db), NEW j, Asked(j, db), PromiseEffect(j, db),
         NEW e, e = After(db, j.write), Good(e), db' = e
  PROVE  Ledger!Next
<1>1. AvailabilityAssumption /\ db \in DbType BY DEF PromisesAssumption, Good
<1>2. PICK h \in j.holder : \E q \in 0..MaxKg :
        j.write = Promised(h, [state |-> "ACTIVE", qty |-> q, sent |-> db.promises[h].sent])
  BY DEF PromiseEffect
<1>3. PICK q \in 0..MaxKg :
        j.write = Promised(h, [state |-> "ACTIVE", qty |-> q, sent |-> db.promises[h].sent])
  BY <1>2
<1>4. PICK p : p = [state |-> "ACTIVE", qty |-> q, sent |-> db.promises[h].sent] OBVIOUS
<1>5. h \in Holders /\ db.promises[h].state # "ACTIVE" BY AskedKinds DEF PromiseEffect, AskedPromise
<1>6. e = After(db, Promised(h, p)) BY <1>3, <1>4
<1>7. /\ e.kg = db.kg /\ e.status = db.status /\ e.promises[h] = p
      /\ \A g \in Holders \ {h} : e.promises[g] = db.promises[g]
      /\ Reserved(e, For[h]) = Reserved(db, For[h]) + q /\ Differ(db, e, PlaceOf(h)) /\ e \in DbType
  BY <1>1, <1>4, <1>5, <1>6, PromiseIs
<1>8. p.state = "ACTIVE" /\ p.qty = q /\ q \in Nat BY <1>1, <1>4, TypesAre
<1>9. Reserved(db, For[h]) \in Nat BY <1>1, ReservedNat
<1>10. CASE For[h] \in Specs
  <2>1. PICK s : s = For[h] OBVIOUS
  <2>2. PlaceOf(h) = h /\ h \in Places /\ s \in Specs BY <1>1, <1>5, <1>10, <2>1, PlaceIsOne
  <2>3. Available(e, s) >= 0 BY <2>2 DEF Good
  <2>4. Available(db, s) \in Int BY <1>1, <2>2, AvailableIs
  <2>5. Available(e, s) = Available(db, s) - Share(db, s, h) + Share(e, s, h)
    BY <1>1, <1>7, <2>2, AvailableMoves
  <2>6. h \notin Coils BY <1>1, <1>5 DEF Items, AvailabilityAssumption
  <2>7. h \notin Counted(db, s) /\ h \notin Counted(e, s)
    BY <1>1, <1>7, <2>2, <2>6, CountedCoils
  <2>8. h \notin Active(db, s) /\ h \in Active(e, s)
    BY <1>5, <1>7, <1>8, <2>1 DEF Active
  <2>9. Share(db, s, h) = 0 /\ Share(e, s, h) = 0 - q BY <1>7, <1>8, <2>7, <2>8 DEF Share
  <2>10. q <= Available(db, s) BY <1>8, <2>3, <2>4, <2>5, <2>9
  <2>11. Ledger!Promise(h)
    <3>1. db'.promises[h].qty <= Ledger!Available(db, For[h])
      BY <1>7, <1>8, <2>1, <2>10, LedgerReads
    <3> QED BY <1>5, <1>7, <1>8, <1>10, <3>1
      DEF Ledger!Promise, Ledger!SameKg, Ledger!SameStatus, Ledger!SamePromises
  <2> QED BY <1>1, <1>5, <2>11, SoundIs DEF Ledger!Next
<1>11. CASE For[h] \notin Specs
  <2>1. PICK i : i = For[h] OBVIOUS
  <2>2. i \in Items /\ i \in Places BY <1>1, <1>5, <1>11, <2>1, PlaceIsOne
  <2>3. ItemAvailable(e, i) >= 0 BY <2>2 DEF Good, Fine
  <2>4. ItemAvailable(e, i) = e.kg[i] - Reserved(e, i) BY <1>7, <1>1, <2>2, AvailableOf
  <2>5. ItemAvailable(db, i) = db.kg[i] - Reserved(db, i) /\ db.kg[i] \in Nat
    BY <1>1, <2>2, AvailableOf
  <2>6. q <= ItemAvailable(db, i) BY <1>7, <1>8, <1>9, <2>1, <2>3, <2>4, <2>5
  <2>7. Ledger!Promise(h)
    <3>1. db'.promises[h].qty <= Ledger!ItemAvailable(db, For[h])
      BY <1>7, <1>8, <2>1, <2>6, LedgerReads
    <3> QED BY <1>5, <1>7, <1>8, <1>11, <3>1
      DEF Ledger!Promise, Ledger!SameKg, Ledger!SameStatus, Ledger!SamePromises
  <2> QED BY <1>1, <1>5, <2>7, SoundIs DEF Ledger!Next
<1> QED BY <1>10, <1>11

\* The other operations move the balance of one item.
LEMMA ItemStep ==
  ASSUME PromisesAssumption, Good(db), NEW j, Asked(j, db), Effect(j, db), j.op # "promise",
         NEW write, write = j.write, NEW e, e = After(db, write), Good(e), db' = e,
         NEW i, j.item = {i}
  PROVE  /\ i \in Items /\ (i \in Coils => i \in Ledger!Items) /\ Ledger!SameKg({i})
         /\ Ledger!SameStatus({i}) /\ Ledger!SamePromises(j.holder)
         /\ (Ledger!Withdraw(i) => Ledger!Next)
         /\ (i \in Coils /\ Ledger!Count(i) => Ledger!Next)
         /\ \A h \in Holders : For[h] \in Items /\ (Ledger!Deliver(h) \/ Ledger!TakeBack(h)) => Ledger!Next
<1>1. AvailabilityAssumption /\ db \in DbType /\ e \in DbType BY DEF PromisesAssumption, Good
<1>2. PlacesOf(j) = {i} /\ i \in Items
  <2>1. i \in j.item OBVIOUS
  <2> QED BY <1>1, <2>1, ItemIsOne
<1>3. PICK H : H = j.holder OBVIOUS
<1>4. WritesIn(H, write, e, i) BY <1>2, <1>3, EffectWrites
<1>5. /\ \A y \in Items \ {i} : e.kg[y] = db.kg[y]
      /\ \A c \in Coils \ {i} : e.status[c] = db.status[c]
      /\ \A h \in Holders \ H : e.promises[h] = db.promises[h]
  BY <1>1, <1>4, SameOutside
<1>6. Ledger!Sound(db') BY <1>1, SoundIs
<1> QED BY <1>2, <1>3, <1>5, <1>6
  DEF Ledger!SameKg, Ledger!SameStatus, Ledger!SamePromises, Ledger!Next, Ledger!Items, Items

LEMMA ScrapStep ==
  ASSUME PromisesAssumption, Good(db), NEW j, Asked(j, db), ScrapEffect(j, db),
         NEW write, write = j.write, NEW e, e = After(db, write), Good(e), db' = e
  PROVE  Ledger!Next
<1>1. AvailabilityAssumption /\ db \in DbType BY DEF PromisesAssumption, Good
<1>2. j.op = "scrap" /\ AskedItem(j) BY AskedKinds DEF ScrapEffect
<1>3. PICK i \in j.item : \E S \in StatusTo(i, "CLOSED") :
        j.qty <= db.kg[i] /\ write = Moved(i, db.kg[i] - j.qty, 0, S, <<>>)
  BY DEF ScrapEffect
<1>4. PICK st : st = "CLOSED" OBVIOUS
<1>5. PICK S \in StatusTo(i, st) :
        j.qty <= db.kg[i] /\ write = Moved(i, db.kg[i] - j.qty, 0, S, <<>>)
  BY <1>3, <1>4
<1>6. j.op # "promise" /\ st \in NewStatus BY <1>2, <1>4 DEF NewStatus
<1>7. j.item = {i} /\ i \in Items BY <1>1, <1>6, ItemIsOne
<1>8. PICK n : n = db.kg[i] - j.qty OBVIOUS
<1>9. PICK q : q = j.qty OBVIOUS
<1>10. q \in 0..MaxKg /\ db.kg[i] \in 0..MaxKg /\ q <= db.kg[i] /\ MaxKg \in Nat
  BY <1>1, <1>5, <1>7, <1>9, DbIs, TypesAre DEF Asked
<1>11. n \in 0..MaxKg /\ n <= db.kg[i] /\ 0 \in (-MaxKg)..MaxKg BY <1>8, <1>9, <1>10, TypesAre
<1>12. MovedStatus(i, S) BY <1>5, <1>6, StatusToIs
<1>13. PICK P : P = <<>> OBVIOUS
<1>14. write = Moved(i, n, 0, S, P) BY <1>5, <1>8, <1>13
<1>15. e.kg[i] = n BY <1>1, <1>7, <1>11, <1>12, <1>13, <1>14, MoveKeeps
<1>16. Effect(j, db) BY DEF Effect
<1>17. j.holder = {} BY <1>2 DEF AskedItem
<1>18. /\ Ledger!SameKg({i}) /\ Ledger!SameStatus({i}) /\ Ledger!SamePromises(j.holder)
       /\ (Ledger!Withdraw(i) => Ledger!Next)
  BY <1>6, <1>7, <1>16, ItemStep
<1>19. Ledger!Withdraw(i) BY <1>11, <1>15, <1>17, <1>18 DEF Ledger!Withdraw
<1> QED BY <1>18, <1>19

LEMMA CloseStep ==
  ASSUME PromisesAssumption, Good(db), NEW j, Asked(j, db), CloseEffect(j, db),
         NEW write, write = j.write, NEW e, e = After(db, write), Good(e), db' = e
  PROVE  Ledger!Next
<1>1. AvailabilityAssumption /\ db \in DbType BY DEF PromisesAssumption, Good
<1>2. j.op = "close" /\ AskedItem(j) BY AskedKinds DEF CloseEffect
<1>3. PICK c \in j.item : /\ db.status[c] = "OPEN"
                          /\ write = Moved(c, j.qty, db.kg[c] - j.qty, Row(c, "CLOSED"), <<>>)
  BY DEF CloseEffect
<1>4. j.op # "promise" /\ j.op \in {"close", "reopen"} BY <1>2
<1>5. j.item = {c} /\ c \in Items /\ c \in Coils BY <1>1, <1>4, ItemIsOne
<1>6. PICK S : S = Row(c, "CLOSED") OBVIOUS
<1>7. write.status = S BY <1>3, <1>6, MovedFields
<1>8. e.status[c] = "CLOSED"
  <2>1. DOMAIN S = {c} /\ S[c] = "CLOSED" BY <1>6 DEF Row
  <2> QED BY <1>1, <1>5, <1>7, <2>1, StatusAfter
<1>9. Effect(j, db) BY DEF Effect
<1>10. j.holder = {} BY <1>2 DEF AskedItem
<1>11. /\ Ledger!SameKg({c}) /\ Ledger!SameStatus({c}) /\ Ledger!SamePromises(j.holder)
       /\ (c \in Coils /\ Ledger!Count(c) => Ledger!Next)
  BY <1>4, <1>5, <1>9, ItemStep
<1>12. Ledger!Count(c) BY <1>3, <1>8, <1>10, <1>11 DEF Ledger!Count
<1> QED BY <1>5, <1>11, <1>12

LEMMA ReopenStep ==
  ASSUME PromisesAssumption, Good(db), NEW j, Asked(j, db), ReopenEffect(j, db),
         NEW write, write = j.write, NEW e, e = After(db, write), Good(e), db' = e
  PROVE  Ledger!Next
<1>1. AvailabilityAssumption /\ db \in DbType BY DEF PromisesAssumption, Good
<1>2. j.op = "reopen" /\ AskedItem(j) BY AskedKinds DEF ReopenEffect
<1>3. PICK c \in j.item : /\ db.status[c] \in {"CLOSED", "SOLD"}
                          /\ write = Moved(c, db.kg[c] + db.liquidated[c], 0, Row(c, "OPEN"), <<>>)
  BY DEF ReopenEffect
<1>4. j.op # "promise" /\ j.op \in {"close", "reopen"} BY <1>2
<1>5. j.item = {c} /\ c \in Items /\ c \in Coils BY <1>1, <1>4, ItemIsOne
<1>6. PICK S : S = Row(c, "OPEN") OBVIOUS
<1>7. write.status = S BY <1>3, <1>6, MovedFields
<1>8. e.status[c] = "OPEN"
  <2>1. DOMAIN S = {c} /\ S[c] = "OPEN" BY <1>6 DEF Row
  <2> QED BY <1>1, <1>5, <1>7, <2>1, StatusAfter
<1>9. Effect(j, db) BY DEF Effect
<1>10. j.holder = {} BY <1>2 DEF AskedItem
<1>11. /\ Ledger!SameKg({c}) /\ Ledger!SameStatus({c}) /\ Ledger!SamePromises(j.holder)
       /\ (c \in Coils /\ Ledger!Count(c) => Ledger!Next)
  BY <1>4, <1>5, <1>9, ItemStep
<1>12. Ledger!Count(c) BY <1>3, <1>8, <1>10, <1>11 DEF Ledger!Count
<1> QED BY <1>5, <1>11, <1>12

LEMMA DispatchStep ==
  ASSUME PromisesAssumption, Good(db), NEW j, Asked(j, db), DispatchEffect(j, db),
         NEW write, write = j.write, NEW e, e = After(db, write), Good(e), db' = e
  PROVE  Ledger!Next
<1>1. AvailabilityAssumption /\ db \in DbType BY DEF PromisesAssumption, Good
<1>2. j.op = "dispatch" BY DEF DispatchEffect
<1>3. PICK h \in j.holder : \E S \in StatusTo(For[h], "SOLD") :
        /\ j.qty <= db.kg[For[h]]
        /\ write = Moved(For[h], db.kg[For[h]] - j.qty, 0, S,
                         Row(h, Consumed(db.promises[h], j.qty)))
  BY DEF DispatchEffect
<1>4. PICK i : i = For[h] OBVIOUS
<1>5. PICK st : st = "SOLD" OBVIOUS
<1>6. PICK p : p = Consumed(db.promises[h], j.qty) OBVIOUS
<1>7. PICK P : P = Row(h, p) OBVIOUS
<1>8. PICK q : q = j.qty OBVIOUS
<1>9. PICK n : n = db.kg[i] - q OBVIOUS
<1>10. PICK S \in StatusTo(i, st) :
         q <= db.kg[i] /\ write = Moved(i, n, 0, S, P)
  BY <1>3, <1>4, <1>5, <1>6, <1>7, <1>8, <1>9
<1>11. j.op # "promise" /\ st \in NewStatus BY <1>2, <1>5 DEF NewStatus
<1>12. /\ h \in Holders /\ i \in Items /\ j.holder = {h} /\ j.item = {i} /\ q > 0
       /\ db.promises[h].sent + q <= MaxKg
  BY <1>2, <1>4, <1>8, AskedKinds DEF AskedDispatch
<1>13. q \in 0..MaxKg /\ db.kg[i] \in 0..MaxKg /\ MaxKg \in Nat /\ db.promises[h] \in PromiseType
  BY <1>1, <1>8, <1>12, DbIs, TypesAre DEF Asked
<1>14. n \in 0..MaxKg /\ n < db.kg[i] /\ db.kg[i] - n = q /\ 0 \in (-MaxKg)..MaxKg
  BY <1>9, <1>10, <1>12, <1>13, TypesAre
<1>15. MovedStatus(i, S) BY <1>10, <1>11, StatusToIs
<1>16. PICK r : r = db.promises[h] OBVIOUS
<1>17. /\ p \in PromiseType
       /\ r.state = "ACTIVE" => p.qty = IF r.qty > q THEN r.qty - q ELSE 0
       /\ r.state # "ACTIVE" => p.qty = r.qty /\ p.state = r.state
  BY <1>1, <1>6, <1>8, <1>12, <1>13, <1>16, ConsumedIs
<1>18. MovedPromise(i, P) BY <1>4, <1>7, <1>12, <1>17 DEF MovedPromise
<1>19. e.kg[i] = n /\ e.promises[h] = p
  BY <1>1, <1>7, <1>10, <1>12, <1>14, <1>15, <1>18, MovedIs
<1>20. Effect(j, db) BY DEF Effect
<1>21. /\ Ledger!SameKg({i}) /\ Ledger!SameStatus({i}) /\ Ledger!SamePromises(j.holder)
       /\ \A g \in Holders : For[g] \in Items /\ (Ledger!Deliver(g) \/ Ledger!TakeBack(g)) => Ledger!Next
  BY <1>11, <1>12, <1>20, ItemStep
<1>22. Ledger!Deliver(h)
  <2>1. db.kg[For[h]] - db'.kg[For[h]] = q /\ q > 0 /\ db'.promises[h] = p
    BY <1>4, <1>12, <1>14, <1>19
  <2>2. /\ r.state = "ACTIVE" => db'.promises[h].qty = IF r.qty > q THEN r.qty - q ELSE 0
        /\ r.state # "ACTIVE" => db'.promises[h].qty = r.qty /\ db'.promises[h].state = r.state
    BY <1>17, <2>1
  <2> QED BY <1>4, <1>12, <1>16, <1>21, <2>1, <2>2 DEF Ledger!Deliver
<1> QED BY <1>4, <1>12, <1>21, <1>22

LEMMA UndoStep ==
  ASSUME PromisesAssumption, Good(db), NEW j, Asked(j, db), UndoEffect(j, db),
         NEW write, write = j.write, NEW e, e = After(db, write), Good(e), db' = e
  PROVE  Ledger!Next
<1>1. AvailabilityAssumption /\ db \in DbType BY DEF PromisesAssumption, Good
<1>2. j.op = "undo" BY DEF UndoEffect
<1>3. PICK h \in j.holder : \E S \in StatusTo(For[h], "OPEN") :
        /\ db.kg[For[h]] + db.promises[h].sent <= MaxKg
        /\ write = Moved(For[h], db.kg[For[h]] + db.promises[h].sent, 0, S,
                         Row(h, Restored(db.promises[h])))
  BY DEF UndoEffect
<1>4. PICK i : i = For[h] OBVIOUS
<1>5. PICK st : st = "OPEN" OBVIOUS
<1>6. PICK p : p = db.promises[h] OBVIOUS
<1>7. PICK r : r = Restored(p) OBVIOUS
<1>8. PICK P : P = Row(h, r) OBVIOUS
<1>9. PICK q : q = db.promises[h].sent OBVIOUS
<1>10. PICK n : n = db.kg[i] + q OBVIOUS
<1>11. PICK S \in StatusTo(i, st) : n <= MaxKg /\ write = Moved(i, n, 0, S, P)
  BY <1>3, <1>4, <1>5, <1>6, <1>7, <1>8, <1>9, <1>10
<1>12. j.op # "promise" /\ st \in NewStatus BY <1>2, <1>5 DEF NewStatus
<1>13. h \in Holders /\ For[h] \in Items /\ i \in Items /\ j.holder = {h} /\ j.item = {i}
       /\ q > 0 /\ db.promises[h].sent > 0
  BY <1>2, <1>4, <1>9, AskedKinds DEF AskedUndo
<1>14. db.kg[i] \in 0..MaxKg /\ MaxKg \in Nat /\ db.promises[h] \in PromiseType
  BY <1>1, <1>13, DbIs, TypesAre
<1>15. q \in 0..MaxKg BY <1>9, <1>14 DEF PromiseType
<1>16. n \in 0..MaxKg /\ n > db.kg[i] /\ n - db.kg[i] = q /\ 0 \in (-MaxKg)..MaxKg
  BY <1>10, <1>11, <1>13, <1>14, <1>15, TypesAre
<1>17. MovedStatus(i, S) BY <1>11, <1>12, StatusToIs
<1>18. /\ r \in PromiseType /\ p \in PromiseType
       /\ p.state = "RELEASED" => r.state = "RELEASED"
       /\ p.state # "RELEASED" => r.qty = p.qty + p.sent
  <2>1. db.kg[For[h]] + db.promises[h].sent <= MaxKg BY <1>3
  <2> QED BY <1>1, <1>6, <1>7, <1>13, <2>1, RestoredIs
<1>19. MovedPromise(i, P) BY <1>4, <1>8, <1>13, <1>18 DEF MovedPromise
<1>20. e.kg[i] = n /\ e.promises[h] = r
  BY <1>1, <1>8, <1>11, <1>13, <1>16, <1>17, <1>19, MovedIs
<1>21. p.state # "RELEASED" => r.qty - p.qty = q
  <2>1. p.qty \in Int /\ p.sent \in Int /\ q = p.sent BY <1>6, <1>9, <1>18 DEF PromiseType
  <2> QED BY <1>18, <2>1
<1>22. Effect(j, db) BY DEF Effect
<1>23. /\ Ledger!SameKg({i}) /\ Ledger!SameStatus({i}) /\ Ledger!SamePromises(j.holder)
       /\ \A g \in Holders : For[g] \in Items /\ (Ledger!Deliver(g) \/ Ledger!TakeBack(g)) => Ledger!Next
  BY <1>12, <1>13, <1>22, ItemStep
<1>24. Ledger!TakeBack(h)
  BY <1>4, <1>6, <1>13, <1>16, <1>18, <1>20, <1>21, <1>23 DEF Ledger!TakeBack
<1> QED BY <1>13, <1>23, <1>24

\* Every commit is one operation of the ledger.
LEMMA CommitLedger ==
  ASSUME PromisesAssumption, IInv, NEW w \in Workers, Commit(w)
  PROVE  Ledger!Next
<1>1. PICK j : j = job[w] OBVIOUS
<1>2. j.phase = "written" /\ Right(j, db) /\ Good(db) BY <1>1 DEF Commit, IInv
<1>3. PICK write : write = j.write OBVIOUS
<1>4. PICK e : e = After(db, write) OBVIOUS
<1>5. db' = e /\ e = After(db, j.write) BY <1>1, <1>3, <1>4 DEF Commit
<1>6. Good(e) /\ Asked(j, db) /\ Effect(j, db) BY <1>2, <1>3, <1>4, WrittenIs
<1> QED BY <1>2, <1>3, <1>4, <1>5, <1>6, PromiseStep, ScrapStep, CloseStep, ReopenStep,
           DispatchStep, UndoStep DEF Effect

LEMMA ForgetLedger ==
  ASSUME AvailabilityAssumption, NEW h \in Holders, db.promises[h].state = "ACTIVE",
         Forgets(db, db', h), Good(db')
  PROVE  Ledger!Next
<1>1. Ledger!Sound(db') BY SoundIs
<1>2. Ledger!Forget(h)
  BY DEF Forgets, Ledger!Forget, Ledger!SameKg, Ledger!SameStatus, Ledger!SamePromises
<1> QED BY <1>1, <1>2 DEF Ledger!Next

LEMMA ReceiveLedger ==
  ASSUME AvailabilityAssumption, NEW c \in Coils, Receives(db, db', c), Good(db), Good(db')
  PROVE  Ledger!Next
<1>1. Ledger!Sound(db') BY SoundIs
<1>2. c \in Items /\ c \in Places /\ c \in Ledger!Items BY PlaceIsOne DEF Items, Ledger!Items
<1>3. db.kg[c] = 0 BY <1>2 DEF Receives, Good, Fine, FineCoil
<1>4. db' \in DbType BY DEF Good
<1>5. db'.kg[c] \in 0..MaxKg /\ MaxKg \in Nat BY <1>2, <1>4, DbIs, TypesAre
<1>6. db'.kg[c] >= db.kg[c] BY <1>3, <1>5
<1>7. Ledger!Enter(c)
  BY <1>6 DEF Receives, Ledger!Enter, Ledger!SameKg, Ledger!SameStatus, Ledger!SamePromises,
              Ledger!Items, Items
<1> QED BY <1>1, <1>2, <1>7 DEF Ledger!Next

-----------------------------------------------------------------------------
(* What every step keeps, and the theorems.                                 *)

LEMMA LedgerStepIs ==
  ASSUME PromisesAssumption, Quiet, IInv, [Next]_vars
  PROVE  Ledger!Next \/ UNCHANGED db
<1>1. AvailabilityAssumption /\ Good(db) BY DEF PromisesAssumption, IInv
<1>2. CASE UNCHANGED vars BY <1>2 DEF vars
<1>3. CASE \E w \in Workers : Asks(w) \/ Acquire(w) \/ Writes(w) \/ Commit(w) \/ Rollback(w)
  <2>1. PICK w \in Workers : Asks(w) \/ Acquire(w) \/ Writes(w) \/ Commit(w) \/ Rollback(w)
    BY <1>3
  <2>2. Asks(w) => UNCHANGED db
    BY DEF Asks, AskPromise, AskScrap, AskDispatch, AskUndo, AskClose, AskReopen, Ask
  <2>3. Writes(w) => UNCHANGED db
    BY DEF Writes, PromiseAggregate, PromiseProduct, PromiseCoil, Scrap, Dispatch, Undo, Close,
           Reopen, Wrote
  <2>4. Acquire(w) \/ Rollback(w) => UNCHANGED db BY DEF Acquire, Rollback
  <2> QED BY <2>1, <2>2, <2>3, <2>4, CommitLedger
<1>4. CASE \E h \in Holders : Release(h) \/ Expire(h)
  <2>1. PICK h \in Holders : Release(h) \/ Expire(h) BY <1>4
  <2>2. IInv' /\ Forgets(db, db', h) BY <2>1, ReleaseStep, ExpireStep
  <2>3. db.promises[h].state = "ACTIVE" BY <2>1 DEF Release, Expire
  <2>4. Good(db') BY <2>2 DEF IInv
  <2> QED BY <1>1, <2>2, <2>3, <2>4, ForgetLedger
<1>5. CASE \E c \in Coils : Receive(c)
  <2>1. PICK c \in Coils : Receive(c) BY <1>5
  <2>2. IInv' /\ Receives(db, db', c) BY <2>1, ReceiveStep
  <2>3. Good(db') BY <2>2 DEF IInv
  <2> QED BY <1>1, <2>2, <2>3, ReceiveLedger
<1> QED BY <1>2, <1>3, <1>4, <1>5 DEF Next

\* A coil that a step closes has nothing promised of it afterwards.
LEMMA KeepsPromised ==
  ASSUME PromisesAssumption, Quiet, IInv, [Next]_vars
  PROVE  KeepsPromisedCoils
<1>1. AvailabilityAssumption /\ Good(db) /\ db \in DbType BY DEF PromisesAssumption, IInv, Good
<1> SUFFICES ASSUME NEW c \in Coils, db.status[c] = "OPEN", Reserved(db', c) > 0
             PROVE  db'.status[c] = "OPEN"
  BY DEF KeepsPromisedCoils
<1>2. CASE UNCHANGED db BY <1>2
<1>3. CASE \E w \in Workers : Commit(w)
  <2>1. PICK w \in Workers : Commit(w) BY <1>3
  <2>2. PICK j : j = job[w] OBVIOUS
  <2>3. j.phase = "written" /\ Right(j, db) BY <2>1, <2>2 DEF Commit, IInv
  <2>4. PICK write : write = j.write OBVIOUS
  <2>5. PICK e : e = After(db, write) OBVIOUS
  <2>6. db' = e BY <2>1, <2>2, <2>4, <2>5 DEF Commit
  <2>7. HasWritten(j, db) BY <1>1, <2>3, <2>4, <2>5, WrittenIs
  <2>8. \A b \in DOMAIN write.status : write.status[b] = "OPEN" \/ Reserved(e, b) = 0
    BY <2>4, <2>5, <2>7 DEF HasWritten
  <2>9. e.status[c] = IF c \in DOMAIN write.status THEN write.status[c] ELSE db.status[c]
    BY <1>1, <2>5, StatusAfter
  <2> QED BY <2>6, <2>8, <2>9
<1>4. CASE \E h \in Holders : Release(h) \/ Expire(h)
  BY <1>4, ReleaseStep, ExpireStep DEF Forgets
<1>5. CASE \E b \in Coils : Receive(b)
  <2>1. PICK b \in Coils : Receive(b) BY <1>5
  <2>2. Receives(db, db', b) BY <2>1, ReceiveStep
  <2> QED BY <2>2 DEF Receives
<1>6. \A w \in Workers : Asks(w) \/ Acquire(w) \/ Writes(w) \/ Rollback(w) => UNCHANGED db
  <2> TAKE w \in Workers
  <2>1. Asks(w) => UNCHANGED db
    BY DEF Asks, AskPromise, AskScrap, AskDispatch, AskUndo, AskClose, AskReopen, Ask
  <2>2. Writes(w) => UNCHANGED db
    BY DEF Writes, PromiseAggregate, PromiseProduct, PromiseCoil, Scrap, Dispatch, Undo, Close,
           Reopen, Wrote
  <2>3. Acquire(w) \/ Rollback(w) => UNCHANGED db BY DEF Acquire, Rollback
  <2> QED BY <2>1, <2>2, <2>3
<1> QED BY <1>2, <1>3, <1>4, <1>5, <1>6 DEF Next, vars

LEMMA Always ==
  ASSUME PromisesAssumption, Quiet
  PROVE  Spec => []IInv
<1>1. Init => IInv BY InitInv
<1>2. IInv /\ [Next]_vars => IInv' BY NextInv
<1> QED BY <1>1, <1>2, PTL DEF Spec

\* While no coil enters an aggregate that is being promised, the committed state and the
\* transactions keep their types.
THEOREM StockIsTyped ==
  ASSUME PromisesAssumption, Quiet
  PROVE  Spec => []TypeOK
<1>1. ASSUME IInv PROVE TypeOK
  <2>1. AvailabilityAssumption BY <1>1 DEF PromisesAssumption
  <2>2. db \in DbType BY <1>1 DEF IInv, Good
  <2>3. ASSUME NEW w \in Workers
        PROVE  /\ job[w].phase \in {"idle", "asking", "holding", "written"}
               /\ job[w].rows \subseteq Holders \cup Items
    <3>1. Right(job[w], db) BY <1>1 DEF IInv
    <3>2. CASE job[w] = NoJob BY <3>2 DEF NoJob
    <3>3. CASE Asked(job[w], db) BY <3>3 DEF Asked
    <3> QED BY <3>1, <3>2, <3>3 DEF Right
  <2> QED BY <2>2, <2>3, DbIs DEF TypeOK
<1> QED BY <1>1, Always, PTL

\* D-066 and D-134: as long as no coil enters an aggregate while it is being promised,
\* what is promised of every item and of every aggregate is covered at every commit, for
\* any number of transactions, coils, overlapping aggregates, lines and kilos.
THEOREM EveryPromiseIsCovered ==
  ASSUME PromisesAssumption, Quiet
  PROVE  Spec => []Covered
<1>1. IInv => Covered BY SoundIs DEF PromisesAssumption, IInv, Covered
<1> QED BY <1>1, Always, PTL

\* What a transaction checked before it wrote is still true when another one that had
\* also written commits first: the locks it holds are the ones its checks need.
THEOREM ChecksHoldAtCommit ==
  ASSUME PromisesAssumption, Quiet
  PROVE  Spec => []ChecksStayTrue
<1>1. ASSUME IInv PROVE ChecksStayTrue
  <2>1. AvailabilityAssumption /\ Good(db) BY <1>1 DEF PromisesAssumption, IInv
  <2> SUFFICES ASSUME NEW w \in Workers, NEW u \in Workers, w # u,
                      job[w].phase = "written", job[u].phase = "written"
               PROVE  Ledger!Sound(After(After(db, job[w].write), job[u].write))
    BY DEF ChecksStayTrue
  <2>2. PICK j : j = job[w] OBVIOUS
  <2>3. PICK k : k = job[u] OBVIOUS
  <2>4. AreApart(j, k, db) /\ Right(j, db) /\ Right(k, db) BY <1>1, <2>2, <2>3 DEF IInv
  <2>5. j.phase = "written" /\ k.phase = "written" BY <2>2, <2>3
  <2>6. PICK a : a = After(db, j.write) OBVIOUS
  <2>7. Good(After(a, k.write)) BY <1>1, <2>1, <2>4, <2>5, <2>6, PairGood
  <2>8. Ledger!Sound(After(a, k.write)) BY <2>1, <2>7, SoundIs
  <2> QED BY <2>2, <2>3, <2>6, <2>8
<1> QED BY <1>1, Always, PTL

\* RF-73 and D-170: no step closes or sells to somebody else a coil that was promised
\* whole and is still promised after the step.
THEOREM PromisedCoilsStay ==
  ASSUME PromisesAssumption, Quiet
  PROVE  Spec => PromisedCoilsStayOpen
<1>1. IInv /\ [Next]_vars => [KeepsPromisedCoils]_vars
  BY KeepsPromised
<1> QED BY <1>1, Always, PTL DEF Spec, PromisedCoilsStayOpen

\* The concurrent transactions implement the ledger in which every operation happens at
\* one instant.
THEOREM LedgerIsImplemented ==
  ASSUME PromisesAssumption, Quiet
  PROVE  Spec => LedgerSpec
<1>1. ASSUME Init PROVE Ledger!Init
  <2>1. IInv BY <1>1, InitInv
  <2>2. Ledger!Sound(db) BY <1>1, <2>1, SoundIs DEF PromisesAssumption, IInv
  <2>3. \A h \in Holders : db.promises[h].state = "NONE" BY <1>1 DEF Init
  <2> QED BY <2>2, <2>3 DEF Ledger!Init
<1>2. IInv /\ [Next]_vars => [Ledger!Next]_db
  BY LedgerStepIs
<1> QED BY <1>1, <1>2, Always, PTL DEF Spec, LedgerSpec, Ledger!Spec
=============================================================================
