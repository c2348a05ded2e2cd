# AYR Steel ERP: a verification project

TLA+ modules of the transactional core of the AYR Steel ERP (`src/apps/api`: NestJS,
Prisma, PostgreSQL), checked with TLC on small instances and proved with TLAPS for every
value of their constants. The ERP keeps the stock of a steel business (coils, strips, roofing,
drywall, traded products), promises it to orders, dispatches and invoices it. Every business
operation is one PostgreSQL transaction at READ COMMITTED. What keeps two of them from spoiling
each other is a discipline of row locks and of checks made under them, and that is what these
modules are about.

Paths below are relative to `src/apps/api/src` unless they say otherwise. Decisions are quoted
with the number they have in `src/docs` (D-386 and so on).

## The system and its parts

| Component | State it keeps | Operations | Hard behaviour | What makes it correct |
|---|---|---|---|---|
| Row-lock gates (`inventory/row-locks.ts`, `document-locks.ts`, `inventory.service.ts`) | the rows PostgreSQL has locked for a transaction; `TxLockState`, what the process remembers of them | `lockDocuments`, `lockCoilRows`, `lockBalance`, `lockInOrder`, `lockRecostItems` | interleaved statements, late requests, cycles, NOWAIT refusals | waits follow the canonical order, nobody deadlocks, the memory is exact |
| Reservation ledger (`sales/reservation-guard.ts`, `reserved-ledger.ts`, `raw-material.ts`) | `reservations`, `quotation_reservations`, `raw_material_specs` | promise, release, expire, consume, restore, and the guards every exit of stock calls | checks made on reads that are stale when used; overlapping aggregates; expiry by time | what is promised of every item and aggregate is covered, at every instant |
| Kardex (`inventory/inventory.service.ts`, `inventory-recost.ts`, `recost-engine.ts`) | `inventory_movements` (append-only), `inventory_balances` | `record`, `reverse`, `replaceEntry`, `adjustCost`, recost by date | movements dated in the past, reversals, rounding of an average | the balance is the sum of the movements, no date is ever negative, a movement is reversed once |
| Coil operations (`coils/*.ts`) | status of each coil | scrap, close with liquidation, reopen, split, cancel | status and kilos change under different checks | a promised coil stays reachable; a liquidation is reversed exactly once |
| Dispatches (`invoicing/dispatches.service.ts`) | `dispatches`, `dispatch_items` | create, reverse, link to an invoice | several lines, several items, the closing of sold coils | what leaves is what was promised, and comes back with its promise |
| Sales orders, quotations, edits (`sales/*.ts`) | quotations, orders, lines | confirm, edit, cancel, reserve, transfer | a temporary promise becomes a firm one | no kilo is promised twice in the transfer |
| Production (`production/*.ts`) | production orders, mounted coils, reports | mount, take down, report, close, and the undoing of each | a mounted coil holds kilos that no movement shows; a closing is undone long after | held kilos are in the coil, one order has a coil, what was closed can be reopened |
| Purchases (`purchases`) | purchases, their coils and entries | receive, edit what was received, redate, cancel | corrections behind rows that are already there | the kardex stays what its dates say |
| Cutting and splits (`cutting`, `coils/coil-operations.service.ts`) | cutting orders, splits, the status and film of each coil | send, receive, reverse, cancel, split, revert | custody changes without a movement; the pieces of a cut live on before it is undone | a coil is in one place, a cut stands whole or not at all |
| Invoicing (`invoicing/*.ts`) | fiscal documents, notes, payments | draft, issue, send to the PSE, retry, consult, void, credit, correct | the answer of a third party is lost or late; a job retries; several documents share a line | a document is what SUNAT says it is, is sent by one at a time, ends, and no line is invoiced twice |
| Sessions and users (`auth/*.ts`, `users/*.ts`) | `sessions`, `users` | login, refresh, logout, change of role or password | tabs that refresh at once, answers lost or out of order, a process that dies between a change and what it ends | a session in use is not closed, and one that was ended does not go on |
| Cash sessions, point of sale (`pos/*.ts`) | cash sessions, sales | open, sell, close, undo a sale | a sale during the closing; a chain of reversals that is cut | what was counted stays what was counted, an undone sale is undone everywhere |
| Masters, imports, reports, audit, jobs, web, shared schemas | one row each, or nothing | create, edit, list | | |

How they interact: operations call each other inside one transaction (a dispatch consumes a
reservation, records a movement, closes a coil) and share the database with every other
transaction in progress. Some operations are several transactions with something in between: a
call to the PSE (sending, consulting and voiding a document), the verification of a password, the
steps of the undoing of a sale. There the process may die, the answer may be lost, and what was read
before is stale after. What acts by itself is the retry job of invoicing, the expiry of
temporary promises, the leases and graces that run out, and the transaction timeout.

## The modules

| Module | What it is |
|---|---|
| `LockOrder` | the row locks of the transactions, statement by statement |
| `LockOrderProofs` | its type correctness, the order of the waits and the absence of deadlocks, proved |
| `MCLockOrder` | its small instances |
| `Availability` | what is promised and what is left of an item and of an aggregate: pure operators on a stock |
| `PromiseLedger` | the abstract ledger: every operation at one instant, none leaves a promise uncovered |
| `Promises` | the transactions that promise, consume, withdraw and restore, with their stale reads and their locks; implements `PromiseLedger` |
| `PromisesProofs` | its types, that promises are covered, that checks hold at the commit, and that it implements `PromiseLedger`, proved |
| `MCPromises` | a small instance of it, with an arrival |
| `RecostEngine` | the pure functions of the kardex: running quantities by date, average costs, the replay of a recost |
| `DatedStock` | the abstract stock per day: what an operation may do to the days behind it |
| `Kardex` | the operations on the kardex and the balance of one item; implements `DatedStock` |
| `KardexProofs` | that no day closes below zero, that the balance is the sum of the rows, that reversals cancel and that `Kardex` implements `DatedStock`; and of `Cutting`, that a coil is in one place, with its entry and with what terminated it: proved |
| `Production` | production orders over coils they share, and what undoes each of their steps |
| `ProductionProofs` | custody, kilos, consumption, terminations, promises and the reopening of closings, proved |
| `Cutting` | coils that are split or sent to a cutter, and what undoes it while their pieces are used |
| `Lemmas` | what the proofs of `Promises`, `Billing`, `Kardex`, `Cutting` and `Production` share about sums over finite sets and about sequences |
| `MCKardex` | four items for `Kardex`, two instances of `Production` and three of `Cutting`, in one run |
| `Sessions` | the tabs of a browser and the rotation of their refresh token |
| `SessionsProofs` | its types, when a browser is taken for a thief and that two tabs stay in; and of `Accounts`, that a change ends the sessions opened before it: proved |
| `Accounts` | users, their roles and passwords, and the sessions a change ends |
| `Counter` | the till: cash sessions, sales, and the void of a sale, cut and taken up again |
| `CounterProofs` | one sale per attempt, what was closed adds up, what was voided is undone, proved |
| `MCSelling` | two instances of `Counter`, three of `Promises`, one of `Sessions` and one of `Accounts`, in one run |
| `Fiscal` | a fiscal document, the calls about it, the PSE and SUNAT |
| `FiscalProofs` | its types, one sending at a time, its agreement with SUNAT, and its void; and of `Billing`, that notes are covered, that an order is not over-invoiced and that a cancelled one is clear: proved |
| `Billing` | the invoices, drafts, corrections and notes of an order, by transactions at once |
| `MCInvoicing` | two instances of `Fiscal` and two of `Billing`, in one run |

A run that joins several instances chooses one at the start, its *world*, and never leaves it: the
variables of the others keep their first value, or have none. The instances share nothing.

### LockOrder

A row is its position in the canonical order of D-386 (documents by class, coils, balances; by
id inside each), so "comes before" is `<` and two named assumptions say that the classes of
rows are laid out that way. `held` is what PostgreSQL has granted; `memory` is `TxLockState`;
`request` is what is left of the gate call in progress and `stmt` is the `SELECT ... FOR UPDATE`
being executed, whose rows are locked one by one in order (`LockRow`). A gate call is broken into
its statements exactly where the code awaits: one per class of documents, one for all the coils,
one per balance. Each gate decides to wait or to ask with NOWAIT by looking at `memory` only, as
the code does. `RefuseRow` is the 55P03 that `LockConflictFilter` answers with a 409. Nothing
retries by itself, so a transaction runs once.

What a caller may ask for is any set of documents and of coils, in any order and any number
of times up to a bound; the code has too many callers to list them, and the gates are meant to be
safe for all of them. The exception is balances of products: there `lockBalance` waits without
looking at the memory, so the discipline is the caller's (an operation of several items calls
`lockInOrder` at its start), and `AfterHeldProducts` states it. Two callers break it and are
switched on by constants: `FileOrder` (the initial inventory import) and `HistoricRounds` (the
later rounds of a historic recost).

Abstractions. The `INSERT ... ON CONFLICT DO NOTHING` that precedes the lock of a balance is
taken as part of the lock. Ids that do not exist are not modelled. The branch of purchases,
cutting orders, products and cash sessions, whose FOR UPDATE statements do not go through the
gates, is outside the module.

### Availability, PromiseLedger and Promises

A holder is a line of an order or of a quotation; it promises an item (a product, a coil sold
whole) or an aggregate (`raw_material_specs`: line, colour and thickness, covered by every open
coil within the tolerance). `Promises` runs each operation in the steps the code awaits between:

1. `Ask...`: the document is locked, and the rows the operation will need are read without
   locking them (`rawMaterialLockSet`, `rawMaterialCoilIds`);
2. `Acquire`: those rows are granted;
3. `PromiseAggregate`, `PromiseCoil`, `PromiseProduct`, `Scrap`, `Dispatch`, `Undo`, `Close`,
   `Reopen`: everything is read again, checked and written; whatever the guard of the aggregates
   re-reads with `lockCoils` is locked too;
4. `Commit` makes the writes visible, or `Rollback` drops them.

Between any two steps other transactions commit, and `Release`, `Expire` and `Receive` happen.
`SOLD` is the status `CLOSED` with the mark `closedByDispatch` in the audit row, which is what
decides whether a reversal opens the coil again. `liquidated` is what the closing of a coil took
out or put in, while that movement is the last one of the coil.

`PromiseLedger` says the same in one step per operation and demands that every state be `Sound`;
`LedgerSpec` checks that every commit of `Promises` is one of its steps.

`Quiet` switches off one thing the code does: a coil entering an aggregate while a transaction
that promises that aggregate is between its first and second read. With it on, everything holds;
with it off, the run `promises_arrival` shows the promise left uncovered (see the findings).

Abstractions. Rows are taken all at once (`LockOrder` is about their order); the reads of one
check happen at one instant; one line per transaction; kilos held by a mounted coil, the warnings
of production, splits, edits of attributes, custody of a cutter (`Cutting`), deliveries without a movement
(D-278) and the ceiling on the restoration of a partial promise (D-341, which bears on aggregates,
while the dispatches modelled are of items) are not in this module; what a production order does to its two promises is in `Production`.
A dispatch is of the line and not of its promise, so it goes out whatever became of the promise and
consumes of it what there is, or nothing if it is no longer live (`consumeReservationQty`). That a line is not
dispatched beyond what was sold of it is left out: any quantity within the bound is dispatched, as long as
the stock that nobody else is promised allows it. `Reopen` allows more than the code in one case, a coil closed again with the kilos a first reopening left
it (see "read and not run"): what holds with that step holds without it.

### RecostEngine, DatedStock and Kardex

`Kardex` is one item and its rows, in the order in which they were recorded; an index is the id
of a movement and a day is its `operationDate`. `balance` is the row of `inventory_balances`, with the
average cost the code carries from row to row, while the kardex read along its dates (`Along`)
gives quantities and values of its own. Everything hard about this component is in the distance
between the two orders: an OUT, a return or a purchase dated before rows that are already there
changes what the days in between had, and what later rows should have cost. `RecostEngine` is the
code that closes that distance (`replayItem`, `averageOutCost`, `followCost`, `isRoundingNoise`,
`firstNegativeDate`, `minRunningAfterReplace`), and `Kardex` the operations that call it:

| Action | Code |
|---|---|
| `RecordIn`, `RecordSurplus`, `Dispatch`, `Liquidate` | `record` from a received purchase, from a closing and from a dispatch, with the recost of the rows dated later |
| `RecordReturn` | `record` as a sales return calls it, with the cost `planReturnAllocation` gives it |
| `ReverseRow` | `reverse` of an IN, an OUT or an ADJUST, with what its callers require of the row and of the date |
| `ReplaceEntry` | `replaceEntry`, which an edit of a received purchase uses |
| `Reenter`, `Redate` | the correction of the cost of a coil and of the date of a purchase: a reversal and an entry in one transaction |
| `AdjustCost`, `RecostEntry` | `adjustCost`, `recostEntries` (landed cost) |
| `CompletePending` | `completePendingRecosts`, for the items an online recost left over its limit |

Each operation is a step because `lockBalance` gives its transaction the item until it commits, and
every read of the kardex comes after it (that is `LockOrder`'s subject). Money is in ten-thousandths,
as the column, and rounds half up, as `Decimal` does; a quantity is a whole number. A movement and
the recosts that point at it are one row with its recorded and its effective cost. The order of two
rows of one day is that of their recording. The last day is today, because `OperationDateService`
dates nothing later, and days that pass change nothing the code asks.

`whole` is a history variable: it says that up to now the replay has never dropped a value, which it
does when a row takes the running quantity to zero or below with value left. `OutsAtTheirAverage` and
`CacheIsKept` are stated under that condition, and both need it. `CacheIsKept` is the
claim of `schema.prisma` that the balance is a cache of the kardex;
`BalanceIsACache` is the claim as it is written there, and run `kardex_closing` refutes it. An upward
edit of an entry after a reversed dispatch departs from it too: `replaceEntry` checks the days in
between only when the quantity goes down, the two rows pass below zero inside their day, and the
kardex counts its value anew. So does a surplus dated in the past from the average of its date: it
enters at that of today and its closing does not recost it, and the model leaves it so.
`OutsAtTheirAverage` compares the rows with a full replay of the kardex, so it says that
recosting from the new row on is as good as recosting everything, whatever the order of recording.

`DatedStock` is the promise about quantities: an operation adds to every day from one on, takes from
every day from one on if no day is left below zero, or moves an entry back. `StockSpec` says that
each operation of `Kardex` is one of those, including the ones made of two rows.

Abstractions. Promises and mounted coils, which `record` also consults, are in `Promises` and `Production`; a recost
that passes to another item (the output of a production order) is in the plan, and so are the
callers that only differ from these in who calls (initial inventory, counts, production). An entry
that has been recosted is not recosted again (a bound). `item` says which item is explored: whether it
is a coil, how many rows, which days and which costs, how many rows an online recost may replay, and
which of the rarer operations it sees.

### Production

`Production` is the state of `ProductionOrder` and of `production_order_consumptions` (`mount`: what an
order was assigned of a coil and what it has used), the two promises of the line (kilos of raw
material, `raw`, and metres made, `made`), the coils that something terminated (`closedBy`, with what
terminated it) and the kardex of the coils and of the product as a sequence of rows. An operation of the
service is one transaction that locks its order, its promises and its coils before it decides, so it
is one step:

| Action | Code |
|---|---|
| `MountCoil`, `ReleaseCoil` | `mountCoil`, `releaseCoil` |
| `Report`, `ReverseReport` | `reportInTx`, `reverseReport` |
| `Close`, `Reopen`, `Cancel` | `closeInTx` with `allocateRoofingScrap`, `reopen`, `cancel` |
| `Dispatch`, `ReverseDispatch` | the dispatch of a line and its reversal, from `dispatches.service.ts` |
| `Scrap`, `CancelScrap` | `registerScrap`, `cancelScrap` of `coil-operations.service.ts` |

Reopening is where it is hard: it reverses what a closing wrote, perhaps after others have mounted,
scrapped or terminated the same coils, and it has to refuse exactly what can no longer be undone.
`ClosingCanBeUndone` says that it does not refuse more, and `HeldIsThere`, `ConsumedIsOut`,
`OneCustodian` and `EmptyIsTerminated` that it does not refuse less.

Abstractions. One metre takes one kilo; one product, one line for each order, which starts as
`createFromReservationInTx` leaves it; no rounding residue, so an adjustment of the product comes with
scrap. The order that empties a coil keeps it until it closes, so `zeroedBy` says no more than the cause
does. Mounting a coil that has to be reopened for it (D-193) with its surplus (D-466), the sealing film,
drywall orders, edits of the plan and orders to stock are left out. Promises of other lines over the
aggregate are here only in what `Scrap` may take.

### Cutting

The coils of a purchase, the pieces that come of them, and their kardex as a sequence of rows. A row of
`cutting_order_coils` (`sent`) may be received, reversed and received again, each time with other strips,
so what a cut is made of is what stands of its rows (`LiveBy`), as `reverse` reads it.

| Action | Code |
|---|---|
| `Send`, `Receive`, `ReverseReception`, `Cancel` | `cutting.service.ts`: `send`, `receive`, `reverse`, `cancel` |
| `Split`, `RevertSplit` | `split`, `revertSplit` of `coil-operations.service.ts` |
| `Scrap`, `CancelScrap`, `Close`, `Reopen`, `Annul` | `registerScrap`, `cancelScrap`, `setStatus` both ways, `cancel` |
| `OpenFilm`, `Reseal` | `coil-film.service.ts` |
| `Mount`, `Release` | `consume`, `release` of a drywall order, as far as custody goes |

Neither the sending (D-050) nor the mounting (D-060) leaves a row, so no check of later movements sees
them and each operation asks by itself. One does not: `revertSplit` asks for the mother and not for
the children. `ChildrenAtHome` switches that off; with it on everything holds, and without it the run
`cutting_split` shows an annulled coil in stock. `Rare` says which of the rarer operations are explored.

Things that the states explored showed and no run states: a coil that is terminated by hand with its
film on, declaring what it has, can be scrapped with the film on (`openFilmIfSealed` does nothing to a
terminated coil), so once reopened it is sealed and used, where `resealBlocker` says that whatever uses a
coil opens it first (`SealedIsUnused` holds without closings and fails with them). A strip may be
annulled by itself, because `cancel` only keeps the children of a split from it: its kilos leave the
inventory and the mother's exit stands (`CutIsWhole` says "no more than", not "as many as"). `cancelScrap`
does not ask where the coil is, so kilos may come back to one that is at the cutter.

Abstractions. Widths, costs and dates are left out; a cut makes one or two pieces, and a strip is not
told from another of the same weight; coils promised to an order, which are not sent nor terminated, are
in `Promises`; so is the pieces' use by a drywall order beyond having them.

### Sessions and Accounts

`Sessions` is one browser: a jar of cookies, tabs that refresh by themselves (`apps/web`, `tryRefresh`)
and the rotation, which reads a session and then updates it if it still has the token that was read.
Between both, and between an answer and its arrival, everything may happen. Answers arrive in any
order (`Receive`), and any request or answer may be lost at any step (`Lose`): the network drops it, the
page is left, the process dies after it rotated. A request that the browser has abandoned and the server
goes on with is a tab that nobody looks at. `AccessExpires` and `GraceEnds` act when nothing is in
flight: an access token lasts for minutes and the grace thirty seconds, longer than a request.

The server then takes honest browsers for thieves, in two ways that two history variables tell apart.
`lost` are the sessions of which an answer with one of their tokens never arrived: one tab is enough, the
rotation is committed, the browser keeps the old token and presents it after the grace. `overtaken` are
those of which an answer arrived after a later one: the jar keeps the older token (run `auth_tabs`).
`ReuseIsExplained` says that there is no third way. `NeverReadAsReuse`, what the comments
promise as they are written, fails for either; `TabsAreNoReuse`, of the sessions that lost nothing, for the
second. The sessions that are neither lost nor overtaken (`Steady`) are told one by one: what was lost
of one excuses no other.

`NobodyIsThrownOut` is about two tabs, as the comment it comes from (`auth.service.ts:166`, "dos
pestañas"). With three it fails with no answer lost or overtaken: the token of the third may be two rotations
old, the server knows neither it nor whose it was, and the answer clears the cookies of the three while the
session lives. A refresh does that, and so does a logout whose access cookie has expired. With two it is
proved for any number of rotations; `ReuseIsExplained` holds for any number of tabs, and is proved.

`Accounts` is the other side: logins that verify a password, refreshes that sign an access token, the
changes of an administrator (`count` the others, write, end the sessions: three steps with no
transaction around them) and the change of one's own password. Requests overlap in every way and die at
any step. `era` counts the changes that have to end the sessions opened before (RF-03,
`users.service.ts:70-71`). The code does leave sessions alive that a change should have ended, in three
ways, and each is a history variable: `dead`, the users whose change died between its commit and the end of
the sessions; `late`, the sessions opened by a login that read the user, verified the password, and was
overtaken by a change; `spared`, the sessions of a user changed by a request that had read them before
another change, so that it thought it changed nothing. `ChangesEndSessions` says that there is no fourth.
`LastAdminStays` is what the code means to keep and does not: two administrators who demote each other both
count the other first, and none is left. No run states it, and nothing here rests on it.

### Counter

A cashier, the calls at the till, and sales with the four documents born with each: payment, fiscal
document, dispatch, order. A sale claims its idempotency key before anything (`Taken`), enters the open
session with its row locked, and commits everything at once. The closing locks the session, adds up and
commits. The void (`voidSale`) is a chain of transactions; what it has to do is read once, before the
first (`Todo`), each step is done by whoever is there, and a call that dies leaves the sale `VOIDING` for
another to take up. SUNAT answers at its own pace.

Three things a reader should know that no run states. The claim `ACTIVE` to `VOIDING` does not stop a
second void that already reads `VOIDING` (`pos.service.ts:440-444` says that it does); it is the
conditions of each step that keep them apart, and `VoidedIsUndone` holds. A sale that is `VOIDING`
when its session closes cannot be taken up. A payment reversed from the receivables screen leaves the
sale counted. Abstractions: every sale is in cash and of one unit; opening is one step; the way to undo
the document is chosen in every attempt; a credit note is drafted and sent in one step; the counted
cash and its difference are left out.

### Fiscal

One row per document, as the code keeps it (`status`, `sendAttempts` > 0, the age of `lastAttemptAt`,
`voidRequestedAt`, the last audit of its void), the calls in progress, what the PSE knows of the document
(`known`) and of its void (`baja`). A call is a request in steps, one for each transaction and one for
what the PSE does with it; the job (`Sweep`) is one that goes on from document to document. In any step
the process may die, the request may not arrive, or the answer may be lost (`MaxFaults` bounds how many
times). The answers of the PSE are those `nubefact.provider.ts` reads.

| Action | Code |
|---|---|
| `Send`, `Retry`, `Sweep` | `send`, `retry`, `sendPending` |
| `Read`, `Claim`, `Apply` | `deliver`, `claimAttempt`, `applyResult` |
| `Refresh`, `Settle`, `Reconcile` | `refreshStatus` of a document, of its void, of an accepted document whose void may be at the PSE |
| `Void`, `Mark`, `Confirm`, `ReleaseMark` | `voidDocument` in its two transactions |
| `Pay`, `Unpay`, `Note`, `Offline`, `Online` | what happens around it |
| `Provider`, `Unreachable`, `Crash`, `Sunat` | the outside |

History variables say why a document may depart from a rule: `erred` those that were `SEND_ERROR` or
were not found by a consultation, `lost` those of which the answer to a void was lost, `undone` those whose
void was given back by what SUNAT had said of an earlier one (run `fiscal_void`), `late` those paid
while their void was in progress. `RejectedThereToo`, `VoidIsRegistered` and `VoidedOwesNothing` are stated of the others,
because the code does depart from them there, and says so: a lost answer becomes `SEND_ERROR`, the
document is sent again, comes back as a duplicate and ends rejected (the comment of `SEND_ERROR`, "el
envío nunca entró. Se reenvía", is what a lost answer contradicts). Others that the states explored
showed: a failed consultation, or the contingency, is written over a document that the PSE has; a call
that dies between its claim and its request leaves a document that will be asked for, not found, and
rejected without having been sent; a void that the PSE answers as in progress may be `VOIDED` here
before SUNAT has refused it; a payment registered during a void leaves a voided document with a
payment; and the oldest `Limit` documents may keep the others from being retried while the PSE fails.

Two assumptions about time: a delivery ends before its lease of ninety seconds (`LeaseEnds`), and a void
call before the five minutes of `VOID_IN_FLIGHT_MS` (`Ages`). Nothing orders a void and the consultations
of its document: `Settle` asks for the status and not for the mark, so a consultation that was slow to
write confirms or undoes a void that is not the one it read. When what it writes is the
confirmation, SUNAT has the document voided all the same, and nothing is lost; when it is a refusal, the
document is given back while the new void is on its way, and that is `undone`. `NeverGivenBack` is what
the comment of `refreshStatus` says, without that exception.

### Billing

The documents of an order of one line. A transaction begins when nobody holds the rows it locks, reads
and decides; it commits later, and what it read without a lock may have changed. So the module says for
every operation exactly what it locks (`LocksOf`): a new invoice its order, a note the document it
affects, the assignment of a number its document and the affected one but not the order. Drafts consume
nothing until they take their number, which is where the order is asked again (`StillAvailable`).
Corrections are copies of rejected documents that nothing is asked of, and by two of them at once the
run `billing_drafts` invoices a line twice; with one worker, or without corrections, nothing does.
`"undo-note"` (SUNAT rejects a credit note, or the note is voided, after its quantity was invoiced
again) breaks `NotOverInvoiced` even one operation at a time, so the runs leave it out. Abstractions:
notes for returned goods, price notes, the replacement note (02), imported documents, a manual note as
one step (it is a draft and its registration), one line per order.

## The runs

| Run | Instance | What it shows |
|---|---|---|
| `lock_gates` | 2 transactions, an invoice, an order, 2 coils, a balance of one, a product; 2 calls of up to 2 rows | waits in order, memory exact, coils before balances, no deadlock, everybody ends |
| `lock_callers` | `FileOrder` and `HistoricRounds` | finding 1: a wait out of order |
| `selling` | a till with 2 calls and 2 faults, or with 2 attempts; 2 transactions in each world of promises: 2 overlapping aggregates promised by an order and a quotation; an aggregate of 2 coils, one of them sold whole, the other arrives; 3 lines over one product; 2 tabs, 5 tokens, 2 logins; an administrator and a seller, 2 requests, 2 logins, 2 changes | one sale per attempt, what was closed adds up, an undone sale is undone; promises covered at every instant, checks still true at the commit, and every commit is one of the ledger; nobody is thrown out, or taken for a thief but for an answer lost or overtaken; changes end sessions |
| `promises_arrival` | `Quiet` off | finding 2: a promise left uncovered |
| `kardex_items` | a product of 5 rows over 3 days; its values, 4 rows, 2 days, with 2 costs or with recosts; a coil, 5 rows, with a limit of 2 rows per recost; 2 orders over a coil of 3 kg; an order over 2 coils of 2 kg; a coil of 2 kg cut with its pieces mounted, annulled and sealed, another with them scrapped and closed, and 2 coils sent together | no day is ever negative and every operation is one of `DatedStock`; live rows cost what a full replay says, reversals cancel, the balance is the kardex; the custody of coils adds up through closing and reopening; coils that are cut are in one place, and a cut stands whole or is undone whole |
| `kardex_closing` | an adjustment dated where there was no stock | finding 3 |
| `cutting_split` | `ChildrenAtHome` off, a coil of 2 kg | finding 4: an annulled coil comes back from the cutter |
| `auth_tabs` | 2 tabs, 6 tokens, 2 logins | finding 5: a browser that lost no answer is taken for a reuse |
| `invoicing` | 2 documents, 2 calls, one of them the job, one fault; one document voided, paid or credited, and consulted, by 2 calls with one fault and 2 voids; the documents of an order, 3, by two and by one | agreement with SUNAT, one sending at a time, no line invoiced nor credited twice, and everything issued ends |
| `fiscal_held` | a retry of what the PSE holds | finding 6 |
| `fiscal_void` | 2 calls, 2 voids, no fault | finding 8: a void at SUNAT is given back by an old answer |
| `billing_drafts` | two drafts, one a correction, at once | finding 7 |

Bounds. A violation of the order of the locks needs two rows and two calls; a deadlock needs two
transactions, and for the longer cycles the proofs take over. For promises, two kilos let a promise and
its remainder differ, two coils let one leave and one stay, two aggregates let them overlap. (With three
transactions over one aggregate everything holds as well; that instance is too large to keep.) For
the kardex, four rows are an entry, an OUT, a row dated before them and a correction; the fifth lets a
correction be followed by another. Two quantities let an OUT take a part or all, two costs make the
average matter, two days let a row be dated behind another (three for the quantities, where a day in
between is what may go negative). The costs are such that thirds and halves round. For production, seven
rows are two reports (two rows each) and a closing with its adjustment and its undoing, or two reports
undone; two orders let one take what another left, and two coils let a closing empty one and not the
other. Larger ones (two orders and nine rows, an order and eight, two by two and seven: up to 989 000
states) found nothing else. For the cuts, two kilos and a kerf of one let a piece be cut again and a cut
lose a part, four coils and seven rows are a split and a reception of its piece, or two receptions with
the reversal of the first, or a cut with what was done to a piece and undone; a larger one was explored
to 4.7 million states and found nothing else. For the browser, five
tokens are a login and four rotations, or two logins and three: a session that is rotated, replaced and rotated
again while the other tab still has the first token needs three. For the users, two changes let one cross
the other, and two requests let a login, a refresh or a change overlap one that ends sessions. The till,
the promises, the browser and the users make 1.4 million states, in two to four minutes; the documents 0.5
million, in about as much. To stay within that, four worlds leave something to others or to the proofs, which
have none of these restrictions: with two coils of a kilo, two kilos are only asked of the aggregate of both
(`Feasible`); confirmations with a shortfall are in the world of two aggregates and not in that of the coil
(`InFull`); nobody who was deactivated comes back, which would end no session (`NobodyReturns`); in the world
of the void only one of the two documents is issued (`OneDocument`), and it is paid or credited and not both
in one behaviour (`NoteOrPayment`).
For the documents, two are what the oldest-first sweep needs to skip one;
one fault in the sending world is a lost answer, a dead call or a contingency; three documents are two
invoices and a note, or an invoice, its note and the invoice that takes the place of what it gave back.

Deadlock checking is off in every run because the system really stops: a transaction is run once
(`LockOrder`), the stock may be exhausted with nothing left to ask for (`Promises`), the tokens, the
sales or the rows of a bounded instance end.

Fairness. Two properties use it. `EveryTransactionEnds`: weak fairness on the statements of a
transaction (PostgreSQL grants a free row to whoever waits) and on its code going on to a next call or to
its commit, which Node does when the awaited statement returns; nothing obliges an operation to begin,
and the transaction timeout is not relied upon. `IssuedEnds` (`Fiscal!SendsEnd` inside its world):
`SendingFairness` says that the job runs (every fifteen minutes and at the start of a process), that a
request that was begun goes on, that the PSE and SUNAT answer, and that a contingency ends; a lease
ends because time passes, and it is strong fairness (`SF`) because each new attempt takes the lease
again. Faults are finite (`MaxFaults`): a PSE that never answers settles nothing.

## Findings

1. `lock_callers`: the initial inventory import reaches balances in the order of its file, and the
   second and third rounds of a historic recost wait for balances with those of the first in hand,
   where the comment says it has nothing in hand. Either of the two alone is enough.
2. `promises_arrival`: the coils of an aggregate are read, locked and read again; one that enters
   in between is promised without being locked.
3. `kardex_closing`: `adjustCost` asks for stock today and dates its row earlier, so an amount can be
   put where the item had nothing; the replay drops it and the balance keeps it.
4. `cutting_split`: `revertSplit` annuls a child that is at the cutter, because a sending leaves no
   movement; calling off the sending then puts the annulled coil in stock without a kilo.
5. `auth_tabs`: two tabs that refresh at once get two tokens, in order for the server; if their answers
   arrive in the other order the browser keeps the older, and its next refresh closes the session.
6. `fiscal_held`: an answer that says "in progress" leaves a `SEND_ERROR` as it was, so the next retry
   sends again what the PSE holds.
7. `billing_drafts`: a correction is created without the cap of its order, and taking a number does not
   lock the order, so two drafts over one line both take theirs.
8. `fiscal_void`: two consultations of a void that SUNAT refused overlap, and the second writes the
   refusal when a new void of the document is already at SUNAT: the document is accepted here and
   voided there, and the call of the new void registers nothing, until somebody consults it again.

Each is quoted with its lines in `PROJECT.json`. The first makes a deadlock possible between the
operations of the gates, which PostgreSQL then breaks and the API answers with a 409.

Read and not run: reversing a closing with a date before it and recosting the coil gives the reversal
the old cost of the row it reverses (`coil-operations.service.ts:1063`, `recost-engine.ts:32`;
`ReversalsCancel` fails in an instance with `Items <- Reopened`). An order that was closed with scrap,
reopened, had a report undone and another made, and is closed without scrap, cannot be reopened: what
follows on the coil is measured from the reversal of the first scrap, and the order's own report counts
as a later movement (`ClosingCanBeUndone` is for a first closing because of it). A coil that was terminated with an adjustment,
reopened, and terminated again with exactly what it has cannot be reopened: its last row is the reversal
of the first adjustment, which `reverseCloseAdjustment` takes for an adjustment that nobody reversed
(`coil-operations.service.ts:1038-1056` looks at `reversals` and not at `reversalOfId`), and
`reversibleMovement` refuses to reverse a reversal (`inventory.service.ts:1226`). The comment there thinks
of the adjustment that was already reversed and says that it cannot happen; `Cutting!Reopen` is disabled in that
state. `assertNoCloseRecost`
says to undo the dispatches before reopening, but the recosts it looks for are never deleted. The
restoration of a promise of kilos has no ceiling unless the order had a shortfall, so that it may give
back more than was promised. Closing releases what was left of that promise and reopening does not
promise it again. When the last report of a line is undone after the metres of an earlier one were
dispatched, the promise of metres ends as `RELEASED` (`reservation-transfer.ts:130`), and the reversal of
the dispatch restores nothing to a released promise (`reservation-guard.ts:328-366`): the metres come
back with no promise, where `dispatches.service.ts:757-759` says that every such reversal restores it
(`Production!FabricatedIsPromised` fails with one order, one coil of 3 kg and 8 rows). A coil that a second scrap terminated stays so when the first is undone.

## The proofs

`LockOrderProofs` proves, for any number of transactions, rows and calls:

- `TypeCorrect`: `Spec => []TypeOK`, from `ConstantsAssumption` alone;
- under `FileOrder = FALSE` and `HistoricRounds = FALSE`, and with `CanonicalOrder`:
  `WaitsAreOrdered`, `NobodyDeadlocks`, `MemoryIsExact` and `CoilsComeFirst`.

`WaitInOrder` is not inductive: it says nothing of a statement that does not wait yet. The
invariant `IInv` adds to the type invariant that no row has two holders and, for every
transaction, (a) the shape of its statement: what is left is a suffix of what was asked; (b) a row
it holds is remembered or belongs to the statement in progress; (c) a statement that can wait asks
for rows that come after everything held, or is the balance of a coil the transaction holds, which
nobody else can have; (d) the coil of a held or requested balance is held or asked for first; (e)
products follow the products held. The step lemmas go action by action. `NoDeadlock` then follows
without induction on cycles: among the members of a waiting set, the one that waits for the highest
row waits for a transaction that itself waits for a higher one (`OrderedWaitsDoNotCycle`).

`FiscalProofs` proves, for any number of documents, calls, faults and voids, from `FiscalAssumption`
alone:

- `TypeCorrect`. `TypeOK` alone is not inductive: `Typed` adds that a call in progress, and what is
  left of a sweep, is about documents that were issued.
- `NobodySendsTwice`: `OneSendAtATime`. `SendInv` adds that whoever speaks to the PSE about a
  document has its lease, which is what the conditional update of `claimAttempt` gives to one only. It
  rests on the assumption about time of `LeaseEnds`, and says nothing of a lease shorter than a delivery.
- `NothingIsMadeUp`: `AcceptedThereToo`. `TrueInv` adds that an answer still to be written says
  what the PSE knew, and that SUNAT does not go back on it.
- `NothingAliveIsRejected`: `RejectedThereToo`. `RejectInv` follows a document that was never in
  error: if nobody has tried to send it the PSE does not know it; whoever is about to send it without
  asking has read that nobody tried, and either it is still so or the lease is taken; a rejection is
  SUNAT's, or of a document that never arrived.
- `VoidsAreKnown` and `NothingIsOwed`: `VoidIsRegistered` and `VoidedOwesNothing`, with consultations,
  voids and everything else overlapping as they may. A void is two transactions with a call in between, so `VoidInv`
  follows every document that is not `Unseen` through them: a void that was requested and not closed is still
  in the hands of its call (`Requested`), which has the document alone: the mark is its own, and
  SUNAT has heard of it only if its answer says so (`VoidsAlone`); once SUNAT has heard, the document is
  `VOID_PENDING` or `VOIDED` (`Registered`), and from the mark on nothing is paid or credited that is not
  written down as late (`OwesNothing`); a refusal that a consultation heard of the void that is marked
  still stands (`HeardRight`). What makes it inductive is that a mark is of one void: the one a call
  is about to set is in no row and no consultation has seen it (`FreshMarks`), so whoever comes to write
  what SUNAT said of an old void has seen another mark, and a document it gives back is `undone` by definition
  of what it saw and not by what it leaves behind.

`SessionsProofs` proves, for any number of tabs, tokens and logins:

- `TypeCorrect`, from `SessionsAssumption`;
- `NobodyIsAThief`: `ReuseIsExplained`, for any order of the answers and any of them lost. It is not
  inductive: it depends on which tokens can still reach the server. `Followed` says of a steady session that a
  token that was replaced, in the jar or on its way to it, will be overwritten by an answer that was given
  after it and has not been lost; `Forgotten`, that once the grace of a steady session has ended
  nobody carries what it replaced. A refresh then finds the current token, or the previous one in its
  grace, or one that no session knows. A lost or overtaken answer takes out of `Steady` the session whose
  token it carries, and no other.
- `TwoTabsStayIn`: `NobodyIsThrownOut`, for at most two tabs (`TwoTabs`; with three it
  is false, see above). `Kept` says of a steady session that is alive what ties it to the browser: the jar has
  its current token, or the one before with the current one on its way in an answer (`JarHolds`); a token
  that a tab sends is known, and if it is the replaced one the other tab cannot rotate again before it is
  read (`Alone`, `WaitHolds`), which is why a single retry is enough and why two tabs and not three. A lost
  answer to a login leaves a session that nobody has, and the next login another, so more than one may be
  alive; no two of them have a token in common (`OneOwner`).

`CounterProofs` proves, for any number of calls, sessions, sales, attempts and faults, from
`CounterAssumption`: `AttemptsSellOnce` (`SoldOnce`), `SessionsAddUp` (`ClosedAddsUp`) and
`VoidsAreComplete` (`VoidedIsUndone`). None is inductive: `IInv` adds that a key is of one sale or of one
call in progress (`Keyed`), that a locked session is open and locked by one (`Locked`), that a closing in
progress has added up what is still there (`Summed`), and that every call that is undoing a sale has left
to do at least what is not undone, with the documents in an order that allows it (`Voided`): that is what
lets two of them, or one that takes up what a dead one left, go on with what each read before its first
step.

`SessionsProofs` also proves, of `Accounts`, `ChangesAreFelt`: `ChangesEndSessions` for any number of users,
requests and logins, with no assumption on what overlaps. The property is about sessions and changes, so the
rest of the invariant (`IInv`) is little: a session and a request are of one user (`OneUser`), and a request is
about somebody, for a reason, and if it keeps a session keeps one of the user it is about (`Reads`). What the
proof turns on is `Write`: a change that was decided by what is still so ends the sessions that it makes old,
and one decided by what no longer is either ends them all the same or writes down that it spares them.

`KardexProofs` proves, for any item, calendar, quantities, costs and limits, from `KardexAssumption` (of which the
refinement needs that there is a largest quantity, as the width of the column says): `NoDateIsNegativeHolds`
(`NoDateIsNegative`), `BalanceIsTheSumHolds`, `KardexIsAStock` (`StockSpec`, the refinement of `DatedStock`) and,
for items that are not reopened, `ReversalsCancelHolds` (`ReversalsCancel`).

- `NoDateIsNegative` is not inductive: the code never looks at the closings of the days, but at the balance of today
  and, when something is dated later, at the running quantity after each later row. `IInv` adds that the balance
  is the sum of the rows, which covers the days after the last row (`NothingLater`), and what a reversal is
  (`RowsAre`): it comes after what it reverses, with the opposite quantity, and nothing is reversed twice or is
  both.
- The check by date leaves out a row and its reversal when they are of one day (`Counted`, the code's
  `cancelSameDayReversals`), which is only right because of the second: the rows left out are pairs that add
  nothing to any day (`PairsAddNothing`, `CountedIsEnough`). Every later day then closes with what there was after
  its last row, or on the first day when it has none (`Lasting`).
- A step adds one row or two, and each moves the closings from its day on (`DaysAdded`); a recost changes no
  quantity (`RecostForwardKeeps`), so costs do not enter here. One row is then a step of `DatedStock`; the two of a
  replacement are their difference, the two of a re-entry a stutter, and the two of a redating a `MoveBack`
  (`SwapDone`, `RedateDone`).
- `ReversalsCancel` is about costs, which any operation may rewrite from a date on. Its invariant, `CInv`, says that
  a reversal comes after its row along the dates, that an adjustment is reversed by an adjustment, that a row never
  recosted costs what was recorded, and that costs and the average are whole ten-thousandths (`CostsAre`). A replay
  folds the rows one by one; `WalkExists` and `WalkIsOne` say that the fold is the function it is meant to be,
  on a smallest set for which they fail as the sums are, and `AlongWalks` that when it comes to a reversal it
  gives it what the row costs by then. A recost that
  takes a row takes all that comes after it (`Onward`), so it never corrects a row and leaves its reversal
  behind; the other way round, a row before its start keeps its cost and the reversal takes it. What it finds to
  be off by less than a cent it leaves as it was: of the two rows one may be corrected and the other not, and they
  are still within a cent of each other, because both were compared with the same cost, and if neither is, they
  stay as they were (`FixedCosts`). Nothing asks
  that no recost is pending. The assumption is needed: a reopening dates the reversal of its closing without
  looking at the date of the closing, and `Items <- Reopened` refutes the property (see "read and not run").

`KardexProofs` also proves, of `Cutting`, for any number of coils, rows, cuts and sendings and any weights, under
`CuttingAssumption` and `ChildrenAtHome`: `CoilsAreInOnePlace` (`OneCustodian`), `EntriesStand`
(`EntryHolds`), `ClosingsStand` (`ClosedByStands`) and `CutsAreWhole` (`CutIsWhole`). None is inductive, and the
first three are proved together, because each operation rests on the others: `CuttingIInv` says

- of the rows, that one that stands is of a coil that exists, and if it brought kilos in it is the entry of
  the coil or the surplus of a closing; so a coil is `CANCELLED` exactly when nothing of it stands
  (`Entries`), which is what keeps an annulled coil from being reversed, scrapped or cut again;
- of the places, that a coil at the cutter is in exactly one sending that waits for it, that only coils go
  there, and that what an order mounts is an open strip (`Places`): a strip never goes to the cutter, which
  is why a reception can be reversed with no coil of it there, and a child of a split can, which is the
  gap that `ChildrenAtHome` names;
- of the closings, that what closed a coil is of that coil (`Terminations`): the split has it as its mother, the
  reception as the coil it cut, the scrap as the coil of its row. Without it, undoing the operation of one
  coil could leave another closed by nothing.

A step is then a change of rows (`RowsGo`: which stop standing and which are new), a change of coils
(`CoilsKeep`: what they are does not change) and a change of places, with one lemma for each of the three
kinds, and each action says which rows, coils and sendings it changes.

`CutIsWhole` speaks of the cuts there are. Its invariant, `Wholes`, speaks of every cut there may be: one that
does not stand has no row (`WholeOrNot`). That is what makes a second reception of what was reversed a first
one again, and what `CutIsWhole` does not say, as a cut that is undone with a piece left over would satisfy it
as long as its mother's exit is undone. A cut writes its mother's row and then its pieces' (`InOrder`), whose weights
`CutsOf` keeps within hers; it is undone with all its rows at once; and what else is undone of it is the entry of
a piece that is annulled, which only lowers what entered (`Untouched`, `CutStays`).

`PromisesProofs` proves, for any number of transactions, coils, products, aggregates (which may overlap),
lines and kilos, from `PromisesAssumption` and `Quiet`: `StockIsTyped` (`TypeOK`), `EveryPromiseIsCovered`
(`Covered`), `ChecksHoldAtCommit` (`ChecksStayTrue`), `PromisedCoilsStay` (`PromisedCoilsStayOpen`) and
`LedgerIsImplemented` (`LedgerSpec`, the refinement of `PromiseLedger`). `Quiet` is needed:
`promises_arrival` shows what happens without it. The argument:

- An operation reads and writes at one *place*: an item with the lines that promise it, or a line that
  promises an aggregate. What an aggregate has available is the sum of the *shares* of its places, so two
  stocks that differ at one place differ by its share there (`AvailableMoves`), and a write that lowers no
  share keeps every aggregate covered (`OneRaises`).
- `Covered` is not inductive, since it says nothing of what is written and not committed. `IInv` adds, for each
  transaction, that what it read when it asked is still so (`Asked`), and if it has written, that its write is
  the one it would make now and leaves a good stock (`Right`); and for each two transactions (`AreApart`),
  that they hold no row in common and that, if both have written, they do not both take from an aggregate
  that somebody was promised.
- The last part is where the locks matter. A guard looks at an aggregate after locking the coils that cover
  it (`LockSet`); of two transactions that take from it, the second would hold a coil of the first. So of two
  writes at most one lowers the share of its place in an aggregate, and either can commit after the other
  (`Together`).
- A commit is then a step of the ledger: the write is one it could have made at that instant. Asking, waiting
  and writing change nothing that the ledger sees.

The proofs of `Billing`, `Promises`, `Kardex` and `Production` add up quantities, and `Lemmas` says what
`SumFunctionOnSet` of the community modules does: an element adds its value, sums agree where functions agree, a sum of naturals is a
natural. Those are inductions over finite sets, which the provers take as arguments on a smallest
counterexample (`LeastSet`): the set of the subsets for which the claim fails, if it is not empty, has a
minimal member, and taking an element out of it contradicts it.

`FiscalProofs` also proves, of `Billing`, for any number of documents and transactions, from its
`BillingAssumption`:

- `NotesAreCovered` (`NotOverCredited`), from `Invariant`. A step changes one document, and a change of one
  document changes each sum by what that document adds to it (`AmountChanges`, `GivenChanges`). What a
  transaction decided when it began is what it writes later, so `Inv` says that it still holds at each moment
  in between: the document it writes is its own and has not moved, a note that is about to be numbered still
  fits in what is left of its invoice, which nobody voids meanwhile (`InProgress`); and two transactions never
  have the same document, nor two the order's row when both lock it, nor number two notes of one invoice
  (`AreApart`).
- `OrderIsNotOverInvoiced` (`NotOverInvoiced`) and `CancelledIsClear` (`CancelledInvoicesNothing`), under
  `Careful` as well: no note is undone, and an instance with corrections has one transaction at a time. The
  numbering of an invoice reads the order and does not lock it, so what keeps it right is not the check it
  makes but that the drafts of an order already fit together in it: `CarefulInv` says that drafts and
  documents, less the notes, are within the order, and that a draft in progress is too. A correction is a draft
  nothing is asked of, which breaks that, and leaves only the check of the numbering: with one transaction
  at a time it is enough; with two it is the violation of `billing_drafts`. A note that is undone gives back
  room that was used; it is listed among the hazards.

`ProductionProofs` proves, for any number of orders, coils, rows and kilos, from `ProductionAssumption` alone,
every property the runs check of `Production`: `CoilsHaveOneCustodian` (`OneCustodian`), `HeldKilosAreThere`
(`HeldIsThere`), `ConsumptionIsInTheKardex` (`ConsumedIsOut`), `EmptyCoilsAreTerminated` (`EmptyIsTerminated`),
`PromisesAreProduced` (`PromisedIsProduced`) and `ClosingsCanBeUndone` (`ClosingCanBeUndone`), besides its types.
All of them follow from one invariant, `IInv` (`InvariantHolds`), because each operation is undone by another
whose guards look at the rows and not at the orders, so that custody, rows and terminations only stay right
together. It speaks of the rows that *stand*, neither reversals nor reversed, and says of each coil (`CoilOK`):

- `Custody`, `UsedUp`, `InCoil`: one order that goes on has it; what an order used are its rows that stand; its
  stock is what it came with less the rows that stand, and holds what its custodian has left. `OneCustodian` and
  `ConsumedIsOut` are read off these, and so is `HeldIsThere` while nothing is reopened.
- `LeftThen`: what an order gave back when it closed was in the coil at the last row of its closing. Without it
  `HeldIsThere` is not inductive: a reopening takes those kilos again, perhaps after others used the coil, and
  its guard only looks at the rows that came after.
- `Ends`, `Later`, `ScrapLater`: what terminated the coil stands, is the closing of an order that gave it back or a
  scrap that was not undone, and came after every closing that is still to be reopened; and what is left to
  another order does not depend on the rows of a third alone. That is why undoing what terminated a coil
  reopens it, and why no coil is left empty and open (`EmptyIsTerminated`).
- `Closings`, `ClosedWith`: of the closings of an order one at most stands, with a row per item, and while the
  order is closed; so a reopening finds the rows it has to undo, and no others (`ClosingCanBeUndone`).

and of each line (`LineOK`), that what is promised is at most what was made less what was dispatched, and
`Ahead`: when a report was made, no more had been dispatched than the reports before it made. `PromisedIsProduced` is
not inductive without the second: `reverseReport` undoes the last report and looks only at what happened after it,
so what guarantees that the metres are there is what had happened before. `FineRows` says which kinds of rows
can stand, and that a report is a pair of rows, the coil's and the product's.

A step adds rows, some of which reverse older ones, and what it does to every sum follows from two facts about
each item: whether it takes, gives back or rests (`Takes`, `Gives`, `Rests`). A closing and its reopening write a
number of rows that has no bound, one for each coil, and are taken as sequences that are joined (`Joins`). An action
has a lemma for each part of the invariant it disturbs, coil by coil: the coil it acts on, those of the same order, and
the rest.

TLC checked `IInv` on the two instances of `kardex_items` and on larger ones before it was proved, and corrected
it: `Later` and `Ahead` come from the counterexamples to earlier forms of it.

Only model-checked: the liveness properties, out of the prover's reach; the rest of the costs of `Kardex`
(`OutsAtTheirAverage`, `CacheIsKept` and the averages of its types), which need the value of the whole walk and not
just the costs of two of its rows, and bounds on what rounding adds up to along it; and of `Cutting` the
stock that is never negative and the film (`SealedIsUnused`, which only holds when nobody closes by hand).

## The plan

Done: `LockOrder`, `Promises`, `Kardex`, `Sessions`, `Accounts`, `Counter`, `Fiscal`, `Billing`,
`Production`, `Cutting`, and the proofs of all of them. In the order in which they would come next:

1. `Quotations`: the transfer of a temporary promise to the order.
2. `RecostCascade`: a recost that goes on to the output of a production order.
3. Dispatch notes and their links to invoices; returns of goods.
4. Purchases: their own states, payments and documents.

Theorem worth proving next: `OutsAtTheirAverage` of `Kardex`, with the walks of `ReversalsCancelHolds`: what
remains is that a whole replay after one from a date finds nothing else to correct.

## What is not modelled

Masters, reports, audit, health, the web application, the shared schemas and the migrations:
one-row operations, reads, or rendering; they keep no protocol between steps, and a model of them would
repeat them. Imports beyond the locks of the initial inventory. Everything
else in the table of components that has no module yet is in the plan.
