------------------------------- MODULE Cutting -------------------------------
(* Coils that are cut: split in the plant (RF-15), or sent to a third party   *)
(* and received in strips (RF-40, RF-41), with what undoes each, and what may *)
(* happen to the pieces in between: scrap, closing, film, custody of an order, *)
(* annulment.  Going to a third party and being mounted leave no row in the    *)
(* kardex (D-050, D-060), so every operation has to ask for them by itself.    *)
(* An operation locks its order and its coils before it decides (LockOrder),   *)
(* so it is a step.                                                            *)
EXTENDS Integers, Sequences, FiniteSets, FiniteSetsExt, SequencesExt

CONSTANTS
  Bought,        \* coils of a purchase: the first ones
  Weight,        \* kilos of each
  Kerf,          \* most kilos a cut may lose
  MaxCoils,      \* bound on coils, those born of a cut included
  MaxRows,       \* bound on the rows of the kardex
  MaxSent,       \* bound on the coils sent
  Rare,          \* which of the rarer operations are explored
  ChildrenAtHome \* nobody reverts a split while a child of it is at the cutter

CuttingAssumption ==
  /\ {Bought, Weight, MaxCoils, MaxRows, MaxSent, Kerf} \subseteq Nat
  /\ Bought > 0 /\ Weight > 0 /\ ChildrenAtHome \in BOOLEAN

VARIABLES
  coil,     \* coils, in order of birth
  rows,     \* inventory_movements of them
  splits,   \* coil_splits
  sent,     \* cutting_order_coils
  mounted   \* coils that a live production order has

vars == <<coil, rows, splits, sent, mounted>>

\* What caused a row, a birth or a closing.
Ref(kind, id) == [kind |-> kind, id |-> id]
Purchase  == Ref("PURCHASE", 0)
Manual    == Ref("MANUAL", 0)
NotClosed == Ref("NONE", 0)

Coil(kind, born, film) ==
  [kind |-> kind, born |-> born, film |-> film, status |-> "OPEN", closedBy |-> NotClosed]

Row(c, type, qty, ref, reverses) ==
  [coil |-> c, type |-> type, qty |-> qty, ref |-> ref, reverses |-> reverses]

Undo(i) ==
  LET row == rows[i]
  IN  Row(row.coil, IF row.type = "IN" THEN "OUT" ELSE "IN", row.qty, row.ref, i)
UndoAll(is) == [k \in DOMAIN is |-> Undo(is[k])]

Room(n) == Len(rows) + n <= MaxRows
May(operation) == operation \in Rare

Coils == DOMAIN coil

\* liveMovements: neither a reversal nor reversed.
LiveRow(i) == rows[i].reverses = 0 /\ \A j \in DOMAIN rows : rows[j].reverses # i
LiveOf(c) == {i \in DOMAIN rows : rows[i].coil = c /\ LiveRow(i)}

\* The rows of one cut that stand, its OUT and the entries of what came of it.
LiveBy(ref) == {i \in DOMAIN rows : rows[i].ref = ref /\ LiveRow(i)}
Outs(is) == {i \in is : rows[i].type = "OUT"}
Ins(is) == {i \in is : rows[i].type = "IN"}
Pieces(is) == {rows[i].coil : i \in Ins(is)}

QtyOf(rs, is) == MapThenSumSet(LAMBDA i : rs[i].qty, is)
Stock(rs, c) ==
  QtyOf(rs, {i \in DOMAIN rs : rs[i].coil = c /\ rs[i].type = "IN"})
    - QtyOf(rs, {i \in DOMAIN rs : rs[i].coil = c /\ rs[i].type = "OUT"})

Intake(c) == rows[Min({i \in DOMAIN rows : rows[i].coil = c})].qty

-----------------------------------------------------------------------------
(* Film, and the closing of what is empty.                                  *)

\* openFilmIfSealed
Opened(c, source) ==
  IF c.film = "SEALED" /\ c.status = "OPEN" THEN [c EXCEPT !.film = source] ELSE c

UseKinds == {"PRODUCTION", "SCRAP", "SPLIT", "CUTTING"}
Used(c) == \E i \in LiveOf(c) : rows[i].type = "OUT" /\ rows[i].ref.kind \in UseKinds

\* Mutant: what left the coil is not asked.
MayResealUsed(c) ==
  /\ coil[c].film \notin {"SEALED", "BIRTH"}
  /\ c \notin mounted

\* resealBlocker, of a coil in stock.
MayReseal(c) ==
  /\ coil[c].film \notin {"SEALED", "BIRTH"}
  /\ ~Used(c)
  /\ c \notin mounted

\* autoTerminateEmptyCoils
Terminated(cs, rs, c, cause) ==
  IF cs[c].status = "OPEN" /\ Stock(rs, c) = 0 /\ c \notin mounted
  THEN [cs EXCEPT ![c].status = "CLOSED", ![c].closedBy = cause]
  ELSE cs

With(cs, c, status) == [cs EXCEPT ![c].status = status, ![c].closedBy = NotClosed]

-----------------------------------------------------------------------------
(* A cut: kilos leave the mother, and enter in the pieces but for the kerf.   *)

\* planCoilSplit, in one or two pieces.
CutsOf(w) ==
  {<<a>> : a \in {a \in 1..w : a >= w - Kerf}}
    \cup {p \in (1..w) \X (1..w) : p[1] >= p[2] /\ p[1] + p[2] \in (w - Kerf)..w}

\* coils.create
Born(kind, ref, weights) == [k \in DOMAIN weights |-> Coil(kind, ref, "BIRTH")]

CutRows(c, w, ref, weights) ==
  <<Row(c, "OUT", w, ref, 0)>>
    \o [k \in DOMAIN weights |-> Row(Len(coil) + k, "IN", weights[k], ref, 0)]

MayCut(weights) ==
  /\ Len(coil) + Len(weights) <= MaxCoils
  /\ Room(1 + Len(weights))

\* Nothing of its own moved these pieces after their birth.
Intact(S, ref) == \A c \in S : \A i \in LiveOf(c) : rows[i].ref = ref

-----------------------------------------------------------------------------
(* The third party.                                                         *)

Sent(c) == {r \in DOMAIN sent : sent[r].coil = c /\ sent[r].status = "SENT"}
OfOrder(o) == {r \in DOMAIN sent : sent[r].order = o}

\* deriveCuttingOrderStatus
OrderStatus(o) ==
  LET Has(status) == \E r \in OfOrder(o) : sent[r].status = status
  IN  CASE Has("SENT") /\ Has("RECEIVED") -> "PARTIALLY_RECEIVED"
        [] Has("SENT") /\ ~Has("RECEIVED") -> "SENT"
        [] ~Has("SENT") /\ Has("RECEIVED") -> "RECEIVED"
        [] OTHER -> "CANCELLED"

\* send: coils in stock go to the cutter, in an order, without a row.
Send(S) ==
  /\ Len(sent) + Cardinality(S) <= MaxSent
  /\ \A c \in S : coil[c].kind = "COIL" /\ coil[c].status = "OPEN"
  /\ LET cs == SetToSeq(S)
         order == Len(sent) + 1
     IN  sent' = sent \o [k \in DOMAIN cs |->
                            [order |-> order, coil |-> cs[k], status |-> "SENT"]]
  /\ coil' = [c \in Coils |->
                IF c \in S THEN [Opened(coil[c], "CUTTING_SEND") EXCEPT
                                   !.status = "IN_THIRD_PARTY"]
                ELSE coil[c]]
  /\ UNCHANGED <<rows, splits, mounted>>

\* Mutant: that the coil is at a cutter is enough.
AwaitedAnywhere(r) == coil[sent[r].coil].status = "IN_THIRD_PARTY"

\* This order still waits for it.
Awaited(r) ==
  /\ sent[r].status = "SENT"
  /\ coil[sent[r].coil].status = "IN_THIRD_PARTY"

\* receive: what was cut of a coil enters in strips, and the rest comes back.
Receive(r) ==
  LET c == sent[r].coil
      ref == Ref("CUTTING", r)
  IN  /\ Awaited(r)
      /\ \E w \in 1..Stock(rows, c) : \E weights \in CutsOf(w) :
           /\ MayCut(weights)
           /\ rows' = rows \o CutRows(c, w, ref, weights)
           /\ coil' = Terminated(With(coil, c, "OPEN") \o Born("STRIP", ref, weights),
                                 rows', c, ref)
      /\ sent' = [sent EXCEPT ![r].status = "RECEIVED"]
      /\ UNCHANGED <<splits, mounted>>

\* Mutant: the mother may have gone to another cutter.
MayReverseSent(r, ref) ==
  LET c == sent[r].coil
      strips == Pieces(LiveBy(ref))
  IN  /\ coil[c].status # "CANCELLED"
      /\ strips \cap mounted = {}
      /\ Intact(strips, ref)
      /\ \A i \in LiveOf(c) : i <= Max(Outs(LiveBy(ref)))

\* The strips of this reception are whole, and the mother is here and untouched.
MayReverse(r, ref) ==
  LET c == sent[r].coil
      strips == Pieces(LiveBy(ref))
  IN  /\ coil[c].status \notin {"IN_THIRD_PARTY", "CANCELLED"}
      /\ strips \cap mounted = {}
      /\ Intact(strips, ref)
      /\ \A i \in LiveOf(c) : i <= Max(Outs(LiveBy(ref)))

\* reverse: the strips are annulled, and the mother is at the cutter again.
ReverseReception(r) ==
  LET ref == Ref("CUTTING", r)
      live == LiveBy(ref)
  IN  /\ sent[r].status = "RECEIVED"
      /\ Outs(live) # {}
      /\ MayReverse(r, ref)
      /\ Room(Cardinality(live))
      /\ rows' = rows \o UndoAll(SetToSeq(Ins(live)) \o SetToSeq(Outs(live)))
      /\ coil' = [c \in Coils |->
                    IF c \in Pieces(live) THEN [coil[c] EXCEPT !.status = "CANCELLED"]
                    ELSE IF c = sent[r].coil THEN With(coil, c, "IN_THIRD_PARTY")[c]
                    ELSE coil[c]]
      /\ sent' = [sent EXCEPT ![r].status = "SENT"]
      /\ UNCHANGED <<splits, mounted>>

\* cancel: what was not received comes back as it was, sealed again if it was the
\* sending that opened it.
Cancel(o) ==
  LET pending == {r \in OfOrder(o) : sent[r].status = "SENT"}
      back == {sent[r].coil : r \in pending}
      Resealed(c) ==
        IF coil[c].film = "CUTTING_SEND" /\ MayReseal(c)
        THEN [With(coil, c, "OPEN")[c] EXCEPT !.film = "SEALED"]
        ELSE With(coil, c, "OPEN")[c]
  IN  /\ OrderStatus(o) \notin {"CANCELLED", "RECEIVED"} /\ pending # {}
      /\ sent' = [r \in DOMAIN sent |->
                    IF r \in pending THEN [sent[r] EXCEPT !.status = "CANCELLED"] ELSE sent[r]]
      /\ coil' = [c \in Coils |-> IF c \in back THEN Resealed(c) ELSE coil[c]]
      /\ UNCHANGED <<rows, splits, mounted>>

-----------------------------------------------------------------------------
(* Splits.                                                                  *)

\* split
Split(c) ==
  LET s == Len(splits) + 1
      ref == Ref("SPLIT", s)
  IN  /\ coil[c].status = "OPEN" /\ c \notin mounted
      /\ \E w \in 1..Stock(rows, c) : \E weights \in CutsOf(w) :
           /\ MayCut(weights)
           /\ rows' = rows \o CutRows(c, w, ref, weights)
           /\ coil' = Terminated([coil EXCEPT ![c] = Opened(@, "SPLIT")]
                                   \o Born(coil[c].kind, ref, weights),
                                 rows', c, ref)
      /\ splits' = Append(splits, [mother |-> c, status |-> "ACTIVE",
                                   emptied |-> coil'[c].status = "CLOSED"])
      /\ UNCHANGED <<sent, mounted>>

Children(s) == {c \in Coils : coil[c].born = Ref("SPLIT", s)}

\* Mutant: she stays as the split left her.
MotherBackClosed(s) == coil[splits[s].mother]

\* The mother is opened with the split that closed her, or when no split had to.
MotherBack(s) ==
  LET c == splits[s].mother
  IN  IF coil[c].status = "CLOSED" /\ (coil[c].closedBy = Ref("SPLIT", s) \/ ~splits[s].emptied)
      THEN With(coil, c, "OPEN")[c] ELSE coil[c]

\* revertSplit: nothing moved the children, and no order has them.
RevertSplit(s) ==
  LET ref == Ref("SPLIT", s)
      live == LiveBy(ref)
  IN  /\ splits[s].status = "ACTIVE"
      /\ ChildrenAtHome => \A c \in Children(s) : coil[c].status # "IN_THIRD_PARTY"
      /\ coil[splits[s].mother].status # "IN_THIRD_PARTY"
      /\ Children(s) \cap mounted = {}
      /\ Intact(Children(s), ref)
      /\ Room(Cardinality(live))
      /\ rows' = rows \o UndoAll(SetToSeq(Ins(live)) \o SetToSeq(Outs(live)))
      /\ coil' = [c \in Coils |->
                    IF c \in Children(s) THEN [coil[c] EXCEPT !.status = "CANCELLED"]
                    ELSE IF c = splits[s].mother THEN MotherBack(s)
                    ELSE coil[c]]
      /\ splits' = [splits EXCEPT ![s].status = "REVERTED"]
      /\ UNCHANGED <<sent, mounted>>

-----------------------------------------------------------------------------
(* What else happens to a coil.                                             *)

\* In stock, terminated or not, and of no order.
AtHand(c) == coil[c].status \in {"OPEN", "CLOSED"} /\ c \notin mounted

\* registerScrap
Scrap(c) ==
  /\ May("scrap") /\ AtHand(c) /\ Room(1)
  /\ \E q \in 1..Stock(rows, c) :
       rows' = Append(rows, Row(c, "OUT", q, Ref("SCRAP", c), 0))
  /\ coil' = Terminated([coil EXCEPT ![c] = Opened(@, "SCRAP")], rows', c,
                        Ref("SCRAP", Len(rows')))
  /\ UNCHANGED <<splits, sent, mounted>>

\* cancelScrap: wherever the coil is.
CancelScrap(i) ==
  LET c == rows[i].coil
  IN  /\ rows[i].ref.kind = "SCRAP" /\ LiveRow(i) /\ c \notin mounted /\ Room(1)
      /\ rows' = Append(rows, Undo(i))
      /\ coil' = IF coil[c].closedBy = Ref("SCRAP", i) THEN With(coil, c, "OPEN") ELSE coil
      /\ UNCHANGED <<splits, sent, mounted>>

\* setStatus to CLOSED, with liquidateRemainder: what is declared is what is left.
Close(c) ==
  /\ May("close") /\ coil[c].status = "OPEN" /\ c \notin mounted
  /\ \E declared \in 0..Intake(c) :
       LET stock == Stock(rows, c)
           Adjusted(type, q) ==
             /\ Room(1)
             /\ rows' = Append(rows, Row(c, type, q, Ref("CLOSE_ADJUSTMENT", c), 0))
       IN  \/ declared = stock /\ UNCHANGED rows
           \/ declared < stock /\ Adjusted("OUT", stock - declared)
           \/ declared > stock /\ Adjusted("IN", declared - stock)
  /\ coil' = [coil EXCEPT ![c].status = "CLOSED", ![c].closedBy = Manual]
  /\ UNCHANGED <<splits, sent, mounted>>

\* The last row of the coil, when it is of an adjustment, or of one that was undone.
Adjustment(c) ==
  {i \in DOMAIN rows : /\ rows[i].coil = c /\ rows[i].ref.kind = "CLOSE_ADJUSTMENT"
                       /\ \A j \in DOMAIN rows : rows[j].coil = c => j <= i}

\* setStatus to OPEN, with reverseCloseAdjustment.  A row that is itself a reversal is
\* not reversed: the coil that has it last is not reopened.
Reopen(c) ==
  /\ coil[c].status = "CLOSED" /\ c \notin mounted
  /\ \/ Adjustment(c) = {} /\ UNCHANGED rows
     \/ \E i \in Adjustment(c) : LiveRow(i) /\ Room(1) /\ rows' = Append(rows, Undo(i))
  /\ coil' = With(coil, c, "OPEN")
  /\ UNCHANGED <<splits, sent, mounted>>

\* open and reseal of CoilFilmService.
OpenFilm(c) ==
  /\ May("film") /\ coil[c].status = "OPEN" /\ coil[c].film = "SEALED"
  /\ coil' = [coil EXCEPT ![c].film = "MANUAL"]
  /\ UNCHANGED <<rows, splits, sent, mounted>>

Reseal(c) ==
  /\ May("film") /\ coil[c].status = "OPEN" /\ MayReseal(c)
  /\ coil' = [coil EXCEPT ![c].film = "SEALED"]
  /\ UNCHANGED <<rows, splits, sent, mounted>>

\* consume and release of ProductionService: an order takes a strip, or gives it back.
Mount(c) ==
  /\ May("mount") /\ coil[c].kind = "STRIP" /\ coil[c].status = "OPEN"
  /\ c \notin mounted /\ Stock(rows, c) > 0
  /\ mounted' = mounted \cup {c}
  /\ UNCHANGED <<coil, rows, splits, sent>>

Release(c) ==
  /\ c \in mounted
  /\ mounted' = mounted \ {c}
  /\ UNCHANGED <<coil, rows, splits, sent>>

\* Mutant: a coil is annulled at the cutter.
AnnulSent(c) ==
  LET entry == LiveOf(c)
  IN  /\ May("annul") /\ coil[c].status # "CANCELLED"
      /\ c \notin mounted /\ coil[c].born.kind # "SPLIT"
      /\ Cardinality(entry) = 1 /\ Ins(entry) = entry /\ Room(1)
      /\ rows' = Append(rows, Undo(CHOOSE i \in entry : TRUE))
      /\ coil' = With(coil, c, "CANCELLED")
      /\ UNCHANGED <<splits, sent, mounted>>

\* cancel of CoilOperationsService: its entry is all it has, and it is no child of
\* a split.
Annul(c) ==
  LET entry == LiveOf(c)
  IN  /\ May("annul") /\ AtHand(c) /\ coil[c].born.kind # "SPLIT"
      /\ Cardinality(entry) = 1 /\ Ins(entry) = entry /\ Room(1)
      /\ rows' = Append(rows, Undo(CHOOSE i \in entry : TRUE))
      /\ coil' = With(coil, c, "CANCELLED")
      /\ UNCHANGED <<splits, sent, mounted>>

-----------------------------------------------------------------------------

Init ==
  /\ coil = [c \in 1..Bought |-> Coil("COIL", Purchase, "SEALED")]
  /\ rows = [c \in 1..Bought |-> Row(c, "IN", Weight, Purchase, 0)]
  /\ splits = <<>> /\ sent = <<>> /\ mounted = {}

Next ==
  \/ \E S \in SUBSET Coils \ {{}} : Send(S)
  \/ \E r \in DOMAIN sent : Receive(r) \/ ReverseReception(r) \/ Cancel(r)
  \/ \E s \in DOMAIN splits : RevertSplit(s)
  \/ \E i \in DOMAIN rows : CancelScrap(i)
  \/ \E c \in Coils :
       \/ Split(c) \/ Scrap(c) \/ Close(c) \/ Reopen(c) \/ OpenFilm(c) \/ Reseal(c)
       \/ Mount(c) \/ Release(c) \/ Annul(c)

Spec == Init /\ [][Next]_vars

-----------------------------------------------------------------------------
(* Properties.                                                              *)

\* Types of the coils and of what was cut and sent.
TypeOK ==
  /\ \A c \in Coils :
       /\ coil[c].status \in {"OPEN", "CLOSED", "IN_THIRD_PARTY", "CANCELLED"}
       /\ Stock(rows, c) \in Nat
  /\ \A i \in DOMAIN rows :
       /\ rows[i].coil \in Coils /\ rows[i].qty \in Nat \ {0}
       /\ rows[i].reverses \in 0..(i - 1)
  /\ \A s \in DOMAIN splits : splits[s].mother \in Coils
  /\ \A r \in DOMAIN sent : sent[r].coil \in Coils
  /\ mounted \subseteq Coils

\* A coil is in one place: at the cutter exactly when one order says that it sent
\* it and waits for it, and never with a production order as well (D-050, D-060).
OneCustodian ==
  /\ \A c \in Coils :
       Cardinality(Sent(c)) = IF coil[c].status = "IN_THIRD_PARTY" THEN 1 ELSE 0
  /\ \A c \in mounted : coil[c].status = "OPEN"

\* The entry a coil was born with, unless it was undone.
EntryStands(c) == \E i \in LiveOf(c) : rows[i].type = "IN" /\ rows[i].ref = coil[c].born

\* What the cutter or an order has was not annulled, and what was annulled does not
\* come back: a coil is CANCELLED when its entry was undone, and stays so (D-052).
EntryHolds == \A c \in Coils : EntryStands(c) <=> coil[c].status # "CANCELLED"

\* A cut stands whole or is undone whole, however many times it was received and
\* reversed: its kilos left the mother once, and no more entered in its pieces.
CutIsWhole ==
  LET Whole(ref, stands) ==
        LET live == LiveBy(ref)
        IN  /\ Cardinality(Outs(live)) = IF stands THEN 1 ELSE 0
            /\ QtyOf(rows, Ins(live)) <= QtyOf(rows, Outs(live))
  IN  /\ \A r \in DOMAIN sent : Whole(Ref("CUTTING", r), sent[r].status = "RECEIVED")
      /\ \A s \in DOMAIN splits : Whole(Ref("SPLIT", s), splits[s].status = "ACTIVE")

\* A coil that an operation terminated by emptying it has that operation still
\* standing: to undo it is to open the coil with its kilos (D-360).
ClosedByStands ==
  \A c \in Coils :
    LET by == coil[c].closedBy
    IN  coil[c].status = "CLOSED" =>
          /\ by.kind = "SPLIT" => splits[by.id].status = "ACTIVE"
          /\ by.kind = "CUTTING" => sent[by.id].status = "RECEIVED"
          /\ by.kind = "SCRAP" => LiveRow(by.id)

\* No coil that was used has its film on (D-328).  A coil terminated by hand with
\* its film on may be scrapped with it on: it holds without the closings.
SealedIsUnused == \A c \in Coils : coil[c].film = "SEALED" => ~Used(c) /\ c \notin mounted

=============================================================================
