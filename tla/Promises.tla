------------------------------ MODULE Promises ------------------------------
(***************************************************************************)
(* The reservation ledger under concurrent transactions (D-066, D-134).    *)
(*                                                                         *)
(* PostgreSQL runs them READ COMMITTED.  A transaction reads which rows it *)
(* will need, locks them, reads again, checks, writes and commits; nobody  *)
(* sees its writes before.  Between its first and its second read anything *)
(* may commit.  The order of the locks is LockOrder's concern: here a      *)
(* transaction takes all its rows at once.                                 *)
(***************************************************************************)
EXTENDS Availability

CONSTANTS
  Workers,     \* transactions in progress
  Quiet,       \* TRUE: no coil enters an aggregate while it is being promised
  InitialKg,   \* Items -> kilos at the start
  NotReceived  \* coils whose purchase has not been received

\* What every instance satisfies.
PromisesAssumption ==
  /\ AvailabilityAssumption
  /\ InitialKg \in [Items -> 0..MaxKg]
  /\ NotReceived \subseteq Coils
  /\ Quiet \in BOOLEAN

VARIABLES
  db,   \* what is committed: status, kg, liquidated, promises
  job   \* the transaction of each worker

vars == <<db, job>>

NoWrite == [status |-> <<>>, kg |-> <<>>, liquidated |-> <<>>, promises |-> <<>>]
NoJob   == [op |-> "none", holder |-> {}, item |-> {}, qty |-> 0, partial |-> FALSE,
            rows |-> {}, phase |-> "idle", write |-> NoWrite]

Init ==
  /\ db = [status     |-> [c \in Coils |-> IF c \in NotReceived THEN "ABSENT" ELSE "OPEN"],
           kg         |-> [i \in Items |-> IF i \in NotReceived THEN 0 ELSE InitialKg[i]],
           liquidated |-> [c \in Coils |-> 0],
           promises   |-> [h \in Holders |-> [state |-> "NONE", qty |-> 0, sent |-> 0]]]
  /\ job = [w \in Workers |-> NoJob]

\* A column where one row is written, and a table once some of its rows are.
Row(x, value)  == [y \in {x} |-> value]
Over(rows, table) == [x \in DOMAIN table |-> IF x \in DOMAIN rows THEN rows[x] ELSE table[x]]

\* The database as a transaction sees it once it has written.
After(d, write) ==
  [status     |-> Over(write.status, d.status),
   kg         |-> Over(write.kg, d.kg),
   liquidated |-> Over(write.liquidated, d.liquidated),
   promises   |-> Over(write.promises, d.promises)]

-----------------------------------------------------------------------------
(* Locks.  A document (the order, the quotation) is locked before the rest  *)
(* is even read.                                                            *)

Held(w) == IF job[w].phase = "asking" THEN job[w].rows \cap Holders ELSE job[w].rows

FreeFor(w, R) == \A u \in Workers \ {w} : R \cap Held(u) = {}

Ask(w, op, holder, item, qty, partial, rows) ==
  /\ job[w] = NoJob
  /\ FreeFor(w, holder)
  /\ job' = [job EXCEPT ![w] =
               [op |-> op, holder |-> holder, item |-> item, qty |-> qty, partial |-> partial,
                rows |-> holder \cup rows, phase |-> "asking", write |-> NoWrite]]
  /\ UNCHANGED db

\* Mutant: a product is read and written without locking its balance.
RowsOfCoils(i) == IF i \in Coils THEN LockSet(db, {i}) ELSE {}

\* The rows of an item: a coil comes with the coils of its promised aggregates.
RowsOf(i) == IF i \in Coils THEN LockSet(db, {i}) ELSE {i}

\* Mutant: an aggregate is promised without locking its coils.
RowsToPromiseItemsOnly(h) == IF For[h] \in Specs THEN {} ELSE RowsOf(For[h])

\* reserveLines: the coils of the aggregate that is being promised.
RowsToPromise(h) == IF For[h] \in Specs THEN Candidates(db, For[h]) ELSE RowsOf(For[h])

\* SELECT ... FOR UPDATE of everything that was asked for.
Acquire(w) ==
  /\ job[w].phase = "asking" /\ FreeFor(w, job[w].rows)
  /\ job' = [job EXCEPT ![w].phase = "holding"]
  /\ UNCHANGED db

\* The checks passed: the transaction has written, and has locked whatever the
\* guard of the aggregates read.
Wrote(w, write, extra) ==
  /\ FreeFor(w, extra)
  /\ job' = [job EXCEPT ![w].phase = "written", ![w].write = write, ![w].rows = @ \cup extra]
  /\ UNCHANGED db

\* Nobody is promising an aggregate of this coil.
NobodyPromises(c) ==
  \A u \in Workers :
    job[u].op = "promise" => \A h \in job[u].holder : For[h] \in Specs => c \notin Matches[For[h]]

Commit(w) ==
  /\ job[w].phase = "written"
  /\ \A c \in DOMAIN job[w].write.status :
       Quiet /\ job[w].write.status[c] = "OPEN" => NobodyPromises(c)
  /\ db' = After(db, job[w].write)
  /\ job' = [job EXCEPT ![w] = NoJob]

\* A check fails, a NOWAIT lock is refused, the transaction times out.
Rollback(w) ==
  /\ job[w] # NoJob
  /\ job' = [job EXCEPT ![w] = NoJob]
  /\ UNCHANGED db

Doing(w, op) == job[w].op = op /\ job[w].phase = "holding"

-----------------------------------------------------------------------------
(* Promising: confirming an order, editing a line, a temporary reservation. *)

AskPromise(w) ==
  \E h \in Holders, q \in 1..MaxKg, partial \in BOOLEAN :
    /\ db.promises[h].state # "ACTIVE"
    /\ partial => For[h] \in Specs /\ h \notin Temporary
    /\ Ask(w, "promise", {h}, {}, q, partial, RowsToPromise(h))

PromiseOf(h, q) ==
  [NoWrite EXCEPT !.promises = Row(h, [state |-> "ACTIVE", qty |-> q, sent |-> db.promises[h].sent])]

\* splitReservable: with a shortfall, what there is.
Reservable(w, available) ==
  IF job[w].partial /\ job[w].qty > available THEN Max({available, 0}) ELSE job[w].qty

\* Raw material: against the whole aggregate, read again without locking.
PromiseAggregate(w) ==
  /\ Doing(w, "promise")
  /\ \E h \in job[w].holder :
       LET available == Available(db, For[h]) IN
       /\ For[h] \in Specs
       /\ job[w].partial \/ job[w].qty <= available
       /\ Wrote(w, PromiseOf(h, Reservable(w, available)), {})

PromiseProduct(w) ==
  /\ Doing(w, "promise")
  /\ \E h \in job[w].holder :
       /\ For[h] \in Products
       /\ job[w].qty <= ItemAvailable(db, For[h])
       /\ Wrote(w, PromiseOf(h, job[w].qty), {})

\* Mutant: selling a whole coil does not look at the aggregates it covers.
PromiseCoilAlone(w) ==
  /\ Doing(w, "promise")
  /\ \E h \in job[w].holder :
       /\ For[h] \in Coils
       /\ db.status[For[h]] # "ABSENT"
       /\ job[w].qty <= ItemAvailable(db, For[h])
       /\ Wrote(w, PromiseOf(h, job[w].qty), {})

\* A whole coil: its kilos also leave the aggregates it covers.
PromiseCoil(w) ==
  /\ Doing(w, "promise")
  /\ \E h \in job[w].holder :
       LET write == PromiseOf(h, job[w].qty)
           seen  == After(db, write)
       IN  /\ For[h] \in Coils
           /\ db.status[For[h]] # "ABSENT"
           /\ job[w].qty <= ItemAvailable(db, For[h])
           /\ AggregatesHold(seen, {For[h]})
           /\ Wrote(w, write, LockSet(seen, {For[h]}))

\* Mutant: the release does not ask for a live promise.
ReleaseAnything(h) ==
  /\ h \notin Temporary /\ db.promises[h].state # "RELEASED"
  /\ \A w \in Workers : h \notin Held(w)
  /\ db' = [db EXCEPT !.promises[h].state = "RELEASED"]
  /\ UNCHANGED job

\* An administrator releases the promise, an order is annulled: one row.
Release(h) ==
  /\ h \notin Temporary /\ db.promises[h].state = "ACTIVE"
  /\ \A w \in Workers : h \notin Held(w)
  /\ db' = [db EXCEPT !.promises[h].state = "RELEASED"]
  /\ UNCHANGED job

\* The instant a temporary promise expires: every read after it ignores it.
Expire(h) ==
  /\ h \in Temporary /\ db.promises[h].state = "ACTIVE"
  /\ db' = [db EXCEPT !.promises[h].state = "EXPIRED"]
  /\ UNCHANGED job

-----------------------------------------------------------------------------
(* Goods that leave and come back.                                          *)

\* assertReservationInvariant: what is left covers what is promised.
ItemHolds(d, i) == ItemAvailable(d, i) >= 0

\* The guards and the rows of an OUT of record() once it is written.
OutHolds(d, i) == ItemHolds(d, i) /\ (i \in Coils => AggregatesHold(d, {i}))
OutRows(d, i)  == IF i \in Coils THEN LockSet(d, {i}) ELSE {i}

\* An OUT of q leaves this balance; a coil's closing is no longer its last row.
Less(d, i, q) ==
  [NoWrite EXCEPT !.kg = Row(i, d.kg[i] - q),
                  !.liquidated = IF i \in Coils THEN Row(i, 0) ELSE <<>>]

\* autoTerminateEmptyCoils: an empty coil that nobody is promised is closed,
\* with the mark of the dispatch when it was sold.
Emptied(d, write, i, how) ==
  IF i \in Coils /\ After(d, write).kg[i] = 0 /\ Reserved(After(d, write), i) = 0
     /\ d.status[i] = "OPEN"
  THEN [write EXCEPT !.status = Row(i, how)]
  ELSE write

AskScrap(w) ==
  \E i \in Items, q \in 1..MaxKg :
    /\ i \in Coils => db.status[i] # "ABSENT"
    /\ Ask(w, "scrap", {}, {i}, q, FALSE, RowsOf(i))

\* Scrap of a coil, adjustments, the cancellation of an entry.
Scrap(w) ==
  /\ Doing(w, "scrap")
  /\ \E i \in job[w].item :
       LET write == Less(db, i, job[w].qty)
           seen  == After(db, write)
       IN  /\ job[w].qty <= db.kg[i]
           /\ OutHolds(seen, i)
           /\ Wrote(w, Emptied(db, write, i, "CLOSED"), OutRows(seen, i))

\* Whatever the state of the promise: the line is dispatched even if it was released.
AskDispatch(w) ==
  \E h \in Holders \ Temporary, q \in 1..MaxKg :
    /\ For[h] \in Items /\ db.promises[h].state # "NONE"
    /\ db.promises[h].sent + q <= MaxKg            \* bound
    /\ Ask(w, "dispatch", {h}, {For[h]}, q, FALSE, RowsOf(For[h]))

\* Mutant: consuming marks the promise and leaves its quantity.
ConsumedQtyKept(p, q) ==
  [p EXCEPT !.state = IF @ = "ACTIVE" /\ p.qty <= q THEN "CONSUMED" ELSE @, !.sent = @ + q]

\* consumeReservationQty: before the OUT, or the promise would block it.  What was
\* dispatched beyond an outstanding promise, or without one, consumes none of it.
Consumed(p, q) ==
  IF p.state # "ACTIVE" THEN [p EXCEPT !.sent = @ + q]
  ELSE [state |-> IF p.qty > q THEN "ACTIVE" ELSE "CONSUMED",
        qty   |-> IF p.qty > q THEN p.qty - q ELSE 0,
        sent  |-> p.sent + q]

Dispatch(w) ==
  /\ Doing(w, "dispatch")
  /\ \E h \in job[w].holder :
       LET i     == For[h]
           write == [Less(db, i, job[w].qty) EXCEPT
                       !.promises = Row(h, Consumed(db.promises[h], job[w].qty))]
           seen  == After(db, write)
       IN  /\ job[w].qty <= db.kg[i]
           /\ OutHolds(seen, i)
           /\ Wrote(w, Emptied(db, write, i, "SOLD"), OutRows(seen, i))

AskUndo(w) ==
  \E h \in Holders :
    /\ db.promises[h].sent > 0
    /\ Ask(w, "undo", {h}, {For[h]}, 0, FALSE, RowsOf(For[h]))

\* Mutant: the reversal of a dispatch also revives a released promise.
RestoredAlways(p) == [state |-> "ACTIVE", qty |-> p.qty + p.sent, sent |-> 0]

\* restoreReservationQty: a released promise stays released.
Restored(p) ==
  IF p.state = "RELEASED" THEN [p EXCEPT !.sent = 0]
  ELSE [state |-> "ACTIVE", qty |-> p.qty + p.sent, sent |-> 0]

\* The reversal of the dispatches of a line; a coil they sold is open again.
Undo(w) ==
  /\ Doing(w, "undo")
  /\ \E h \in job[w].holder :
       LET i    == For[h]
           back == Less(db, i, 0 - db.promises[h].sent)
       IN  /\ db.promises[h].sent > 0
           /\ db.kg[i] + db.promises[h].sent <= MaxKg   \* bound
           /\ Wrote(w, [back EXCEPT !.promises = Row(h, Restored(db.promises[h])),
                          !.status = IF i \in Coils /\ db.status[i] = "SOLD"
                                     THEN Row(i, "OPEN") ELSE <<>>], {})

-----------------------------------------------------------------------------
(* Coils that enter and leave their aggregates.                             *)

\* A purchase is received: the coil and its kilos appear together.
Receive(c) ==
  /\ db.status[c] = "ABSENT"
  /\ Quiet => NobodyPromises(c)
  /\ \E q \in 1..MaxKg :
       db' = [db EXCEPT !.status[c] = "OPEN", !.kg[c] = q]
  /\ UNCHANGED job

\* setStatus: the kilos that are really left are declared, up to the weight the
\* coil came with; the difference, of either sign, is liquidated.
Weight(c) == IF c \in NotReceived THEN MaxKg ELSE InitialKg[c]

AskClose(w) ==
  \E c \in Coils : \E q \in 0..Weight(c) :
    db.status[c] = "OPEN" /\ Ask(w, "close", {}, {c}, q, FALSE, RowsOf(c))

Closing(c, q) ==
  [NoWrite EXCEPT !.status = Row(c, "CLOSED"), !.kg = Row(c, q), !.liquidated = Row(c, db.kg[c] - q)]

\* Mutant: the check of the aggregates runs before the coil leaves them.
CloseCheckedOpen(w) ==
  /\ Doing(w, "close")
  /\ \E c \in job[w].item :
       LET write == Closing(c, job[w].qty)
           seen  == After(db, [write EXCEPT !.status = <<>>])
       IN  /\ db.status[c] = "OPEN"
           /\ Reserved(db, c) = 0
           /\ AggregatesHold(seen, {c})
           /\ Wrote(w, write, LockSet(seen, {c}))

\* Mutant: closing does not look at who was promised this very coil.
ClosePromised(w) ==
  /\ Doing(w, "close")
  /\ \E c \in job[w].item :
       LET write == Closing(c, job[w].qty)
           seen  == After(db, write)
       IN  /\ db.status[c] = "OPEN"
           /\ OutHolds(seen, c)
           /\ Wrote(w, write, OutRows(seen, c))

Close(w) ==
  /\ Doing(w, "close")
  /\ \E c \in job[w].item :
       LET write == Closing(c, job[w].qty)
           seen  == After(db, write)
       IN  /\ db.status[c] = "OPEN"
           /\ Reserved(db, c) = 0
           /\ OutHolds(seen, c)
           /\ Wrote(w, write, OutRows(seen, c))

AskReopen(w) ==
  \E c \in Coils :
    /\ db.status[c] \in {"CLOSED", "SOLD"}
    /\ Ask(w, "reopen", {}, {c}, 0, FALSE, RowsOf(c))

\* Mutant: reopening repeats the liquidation.
ReopenSwapped(w) ==
  /\ Doing(w, "reopen")
  /\ \E c \in job[w].item :
       LET back == Less(db, c, db.liquidated[c])
           seen == After(db, back)
       IN  /\ db.status[c] \in {"CLOSED", "SOLD"}
           /\ db.liquidated[c] < 0 => OutHolds(seen, c)
           /\ Wrote(w, [back EXCEPT !.status = Row(c, "OPEN")], OutRows(seen, c))

\* reverseCloseAdjustment: what the closing liquidated comes back if nothing
\* moved since; taking back a surplus is an OUT.
Reopen(w) ==
  /\ Doing(w, "reopen")
  /\ \E c \in job[w].item :
       LET back == Less(db, c, 0 - db.liquidated[c])
           seen == After(db, back)
       IN  /\ db.status[c] \in {"CLOSED", "SOLD"}
           /\ db.liquidated[c] < 0 => OutHolds(seen, c)
           /\ Wrote(w, [back EXCEPT !.status = Row(c, "OPEN")], OutRows(seen, c))

-----------------------------------------------------------------------------

Asks(w) ==
  AskPromise(w) \/ AskScrap(w) \/ AskDispatch(w) \/ AskUndo(w) \/ AskClose(w) \/ AskReopen(w)

Writes(w) ==
  \/ PromiseAggregate(w) \/ PromiseProduct(w) \/ PromiseCoil(w)
  \/ Scrap(w) \/ Dispatch(w) \/ Undo(w) \/ Close(w) \/ Reopen(w)

Next ==
  \/ \E w \in Workers : Asks(w) \/ Acquire(w) \/ Writes(w) \/ Commit(w) \/ Rollback(w)
  \/ \E h \in Holders : Release(h) \/ Expire(h)
  \/ \E c \in Coils : Receive(c)

Spec == Init /\ [][Next]_vars
-----------------------------------------------------------------------------
(* Properties.                                                              *)

StatusType  == {"ABSENT", "OPEN", "CLOSED", "SOLD"}
PromiseType == [state : {"NONE", "ACTIVE", "CONSUMED", "RELEASED", "EXPIRED"},
                qty : 0..MaxKg, sent : 0..MaxKg]

\* The shape of the committed state; the rows of a job are what it names.
TypeOK ==
  /\ db.status \in [Coils -> StatusType]
  /\ db.kg \in [Items -> 0..MaxKg]
  /\ db.liquidated \in [Coils -> (-MaxKg)..MaxKg]
  /\ db.promises \in [Holders -> PromiseType]
  /\ \A w \in Workers : /\ job[w].phase \in {"idle", "asking", "holding", "written"}
                        /\ job[w].rows \subseteq Holders \cup Items

\* The ledger as the rest of the system sees it: every commit is one operation
\* of PromiseLedger, whatever was running at the same time.
Ledger == INSTANCE PromiseLedger
LedgerStep == UNCHANGED db \/ Ledger!Next
LedgerSpec == Ledger!Spec

\* D-066 and D-134: at every instant, what is promised of each item and of each
\* aggregate is covered by the kilos there are, overlapping aggregates included.
Covered == Ledger!Sound(db)

\* Two transactions that have both written can both commit: neither invalidates
\* what the other checked, and no third one has in between.
ChecksStayTrue ==
  \A w, u \in Workers :
    w # u /\ job[w].phase = "written" /\ job[u].phase = "written" =>
      Ledger!Sound(After(After(db, job[w].write), job[u].write))

\* A coil promised whole is neither closed nor sold to somebody else while the
\* promise lives (RF-73, D-170).
KeepsPromisedCoils ==
  \A c \in Coils :
    db.status[c] = "OPEN" /\ Reserved(db, c) > 0 /\ Reserved(db', c) > 0
      => db'.status[c] = "OPEN"
PromisedCoilsStayOpen == [][KeepsPromisedCoils]_vars
=============================================================================
