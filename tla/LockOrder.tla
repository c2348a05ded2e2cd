----------------------------- MODULE LockOrder -----------------------------
(***************************************************************************)
(* The row locks of the ERP's transactions (D-386, D-470, D-473).          *)
(*                                                                         *)
(* Every business operation is one PostgreSQL transaction that takes its   *)
(* rows with SELECT ... FOR UPDATE through three gates: lockDocuments      *)
(* (document-locks.ts), lockCoilRows (row-locks.ts) and lockBalance        *)
(* (inventory.service.ts).  The canonical order is documents by class,     *)
(* coils, balances, and by id inside each of them.  A gate waits when the  *)
(* rows it asks for come after everything the transaction already took,    *)
(* and asks with NOWAIT otherwise: a taken row is then an immediate 409.   *)
(*                                                                         *)
(* A row is its position in the canonical order, so "comes before" is <.   *)
(***************************************************************************)
EXTENDS Naturals, FiniteSets

CONSTANTS
  Txs,               \* the transactions
  MaxRow,            \* the last position of the canonical order
  Docs,              \* rows of the seven document tables
  ClassOf,           \* Docs -> rank of the table in DOCUMENT_LOCK_ORDER
  Coils,             \* rows of "coils"
  CoilOf,            \* rows of "inventory_balances" of a coil -> that coil
  ProductBalances,   \* rows of "inventory_balances" of a product
  MaxCalls,          \* bound: calls to a gate per transaction
  MaxAsked,          \* bound: rows of one kind named in one call
  FileOrder,         \* TRUE: record() also reaches products in file order
  HistoricRounds     \* TRUE: a historic recost also needs its later rounds

CoilBalances == DOMAIN CoilOf
Balances     == CoilBalances \cup ProductBalances
Rows         == Docs \cup Coils \cup Balances

ASSUME ConstantsAssumption ==
  /\ MaxRow \in Nat /\ MaxCalls \in Nat /\ MaxAsked \in Nat
  /\ FileOrder \in BOOLEAN /\ HistoricRounds \in BOOLEAN
  /\ Rows \subseteq 1..MaxRow
  /\ ClassOf \in [Docs -> 1..7]
  /\ CoilOf \in [CoilBalances -> Coils]

\* The canonical order: documents by class, coils, coil balances, products.
ASSUME CanonicalOrder ==
  /\ \A d \in Docs, e \in Docs : ClassOf[d] < ClassOf[e] => d < e
  /\ \A d \in Docs, c \in Coils \cup Balances : d < c
  /\ \A c \in Coils, b \in Balances : c < b
  /\ \A b \in CoilBalances, p \in ProductBalances : b < p

VARIABLES
  status,    \* "ready" | "running" | "ended" | "conflict"
  held,      \* the rows the database has locked for each transaction
  memory,    \* TxLockState: what the gates remember of each transaction
  request,   \* what the gate in progress has still to issue
  stmt,      \* the SELECT ... FOR UPDATE in progress: rows left, NOWAIT
  calls      \* calls made to a gate so far

vars == <<status, held, memory, request, stmt, calls>>

Ask(d, c, b, late) == [docs |-> d, coils |-> c, balances |-> b, late |-> late]

NoRequest == Ask({}, {}, {}, FALSE)
NoStmt    == [rows |-> {}, left |-> {}, nowait |-> FALSE]
Forgotten == [documents |-> {}, coils |-> {}, balances |-> FALSE]

Least(S) == CHOOSE x \in S : \A y \in S : x <= y

Init ==
  /\ status  = [t \in Txs |-> "ready"]
  /\ held    = [t \in Txs |-> {}]
  /\ memory  = [t \in Txs |-> Forgotten]
  /\ request = [t \in Txs |-> NoRequest]
  /\ stmt    = [t \in Txs |-> NoStmt]
  /\ calls   = [t \in Txs |-> 0]

-----------------------------------------------------------------------------
(* Calls to the gates.                                                      *)

\* The code of the transaction is running, outside of every gate.
Idle(t) == status[t] = "running" /\ request[t] = NoRequest /\ stmt[t] = NoStmt

Begin(t) ==
  /\ status[t] = "ready"
  /\ status' = [status EXCEPT ![t] = "running"]
  /\ UNCHANGED <<held, memory, request, stmt, calls>>

Call(t, docs, coils, balances, late) ==
  /\ Idle(t) /\ calls[t] < MaxCalls
  /\ request' = [request EXCEPT ![t] = Ask(docs, coils, balances, late)]
  /\ calls' = [calls EXCEPT ![t] = @ + 1]
  /\ UNCHANGED <<status, held, memory, stmt>>

Asked(S) == {A \in SUBSET S : Cardinality(A) <= MaxAsked}

\* Mutant: the balances' own ids are passed where coil ids are expected.
CoilsOfByBalanceId(B) == B \cap CoilBalances

\* The coils a call over these balances has to take first.
CoilsOf(B) == {CoilOf[b] : b \in B \cap CoilBalances}

\* Products a caller may wait for: its other products come before them.  An
\* operation of several items takes them through lockInOrder at its start.
AfterHeldProducts(t, B) ==
  \A p \in (B \cap ProductBalances) \ held[t], q \in held[t] \cap ProductBalances : q < p

LockDocuments(t) ==
  \E D \in Asked(Docs) \ {{}} : Call(t, D, {}, {}, FALSE)

\* lockRawMaterialCoils, assertCoilsNotReserved, assertStripsNotAssigned,
\* lockCoil: the coils and those of their aggregates, whatever they are.
LockCoilRows(t) ==
  \E C \in Asked(Coils) \ {{}} : Call(t, {}, C, {}, FALSE)

\* The coils and the items of an operation, at its start.  The second and third
\* rounds of a historic recost come here too, with the balances of the first.
LockInOrder(t) ==
  \E C \in Asked(Coils), B \in Asked(Balances) \ {{}} :
    /\ HistoricRounds \/ AfterHeldProducts(t, B)
    /\ Call(t, {}, C \cup CoilsOf(B), B, FALSE)

\* Mutant: record() goes to the balance of a coil without taking the coil.
RecordItemWithoutCoils(t) ==
  \E b \in Balances : AfterHeldProducts(t, {b}) /\ Call(t, {}, {}, {b}, FALSE)

\* record, reverse, replaceEntry, adjustCost and lockAvailability on one item:
\* a coil takes its coils first; a product waits for its balance alone.  An IN of
\* a coil has no lock of its own: its callers hold the coil, or just inserted it.
RecordItem(t) ==
  \E b \in Balances :
    /\ FileOrder \/ AfterHeldProducts(t, {b})
    /\ Call(t, {}, CoilsOf({b}), {b}, FALSE)

\* The items of a recost chain, late: balances with NOWAIT.
LockRecostItems(t) ==
  \E B \in Asked(Balances) \ {{}} : Call(t, {}, CoilsOf(B), B, TRUE)

-----------------------------------------------------------------------------
(* The statements of a gate.                                                *)

Some(fresh, known) == \E r \in fresh, h \in known : r < h

\* Mutants of the order check of the documents: each one forgets a case.
IgnoringLaterClasses(t, class, fresh) ==
  \/ memory[t].balances
  \/ memory[t].coils # {}
  \/ Some(fresh, {d \in memory[t].documents : ClassOf[d] = class})
IgnoringCoils(t, class, fresh) ==
  \/ memory[t].balances
  \/ \E d \in memory[t].documents : ClassOf[d] > class
  \/ Some(fresh, {d \in memory[t].documents : ClassOf[d] = class})

DocumentsOutOfOrder(t, class, fresh) ==
  \/ memory[t].balances
  \/ memory[t].coils # {}
  \/ \E d \in memory[t].documents : ClassOf[d] > class
  \/ Some(fresh, {d \in memory[t].documents : ClassOf[d] = class})

\* Mutant: coils asked with a balance in hand are waited for.
CoilsIgnoringBalances(t, fresh) == Some(fresh, memory[t].coils)

CoilsOutOfOrder(t, fresh) ==
  memory[t].balances \/ Some(fresh, memory[t].coils)

\* Starts a SELECT ... FOR UPDATE [NOWAIT], or none when it has no rows.
Issue(t, rows, nowait) ==
  stmt' = [stmt EXCEPT ![t] = IF rows = {} THEN NoStmt
                              ELSE [rows |-> rows, left |-> rows, nowait |-> nowait]]

\* One statement per class, in the order of DOCUMENT_LOCK_ORDER.
IssueDocuments(t) ==
  /\ stmt[t] = NoStmt /\ request[t].docs # {}
  /\ LET class  == ClassOf[Least(request[t].docs)]
         sorted == {d \in request[t].docs : ClassOf[d] = class}
         fresh  == sorted \ memory[t].documents
         late   == DocumentsOutOfOrder(t, class, fresh)
     IN  /\ Issue(t, IF fresh = {} THEN {} ELSE IF late THEN fresh ELSE sorted, late)
         /\ request' = [request EXCEPT ![t] = Ask(@.docs \ sorted, {}, {}, FALSE)]
  /\ UNCHANGED <<status, held, memory, calls>>

\* All the coils of the call in one statement.
IssueCoils(t) ==
  /\ stmt[t] = NoStmt /\ request[t].docs = {} /\ request[t].coils # {}
  /\ LET sorted == request[t].coils
         fresh  == sorted \ memory[t].coils
         late   == CoilsOutOfOrder(t, fresh)
     IN  /\ Issue(t, IF fresh = {} THEN {} ELSE IF late THEN fresh ELSE sorted, late)
         /\ request' = [request EXCEPT ![t] = Ask({}, {}, @.balances, @.late)]
  /\ UNCHANGED <<status, held, memory, calls>>

\* lockBalance, one item at a time by itemType:itemId.
IssueBalance(t) ==
  /\ stmt[t] = NoStmt /\ request[t].docs = {} /\ request[t].coils = {}
  /\ request[t].balances # {}
  /\ LET b == Least(request[t].balances)
     IN  /\ Issue(t, {b}, request[t].late)
         /\ request' = [request EXCEPT
                          ![t] = IF @.balances = {b} THEN NoRequest
                                 ELSE Ask({}, {}, @.balances \ {b}, @.late)]
  /\ UNCHANGED <<status, held, memory, calls>>

-----------------------------------------------------------------------------
(* PostgreSQL: the rows of a statement are locked one by one, in order.     *)

NextRow(t) == Least(stmt[t].left)

Taken(t, r) == \E u \in Txs \ {t} : r \in held[u]

\* Mutant: lockBalance forgets markBalanceHeld.
RememberWithoutBalances(m, rows) ==
  [documents |-> m.documents \cup (rows \cap Docs),
   coils     |-> m.coils \cup (rows \cap Coils),
   balances  |-> m.balances]

\* What the gate writes in TxLockState when its statement returns.
Remember(m, rows) ==
  [documents |-> m.documents \cup (rows \cap Docs),
   coils     |-> m.coils \cup (rows \cap Coils),
   balances  |-> m.balances \/ rows \cap Balances # {}]

LockRow(t) ==
  /\ stmt[t].left # {} /\ ~Taken(t, NextRow(t))
  /\ held' = [held EXCEPT ![t] = @ \cup {NextRow(t)}]
  /\ IF stmt[t].left = {NextRow(t)}
     THEN /\ stmt' = [stmt EXCEPT ![t] = NoStmt]
          /\ memory' = [memory EXCEPT ![t] = Remember(@, stmt[t].rows)]
     ELSE /\ stmt' = [stmt EXCEPT ![t] = [rows |-> @.rows, nowait |-> @.nowait,
                                             left |-> @.left \ {NextRow(t)}]]
          /\ UNCHANGED memory
  /\ UNCHANGED <<status, request, calls>>

\* COMMIT or ROLLBACK: every row is released at once.
End(t, how) ==
  /\ status'  = [status EXCEPT ![t] = how]
  /\ held'    = [held EXCEPT ![t] = {}]
  /\ memory'  = [memory EXCEPT ![t] = Forgotten]
  /\ request' = [request EXCEPT ![t] = NoRequest]
  /\ stmt'    = [stmt EXCEPT ![t] = NoStmt]
  /\ calls'   = [calls EXCEPT ![t] = 0]

\* 55P03 on a NOWAIT statement: LockOrderConflict, answered with a 409.
RefuseRow(t) ==
  /\ stmt[t].left # {} /\ stmt[t].nowait /\ Taken(t, NextRow(t))
  /\ End(t, "conflict")

Commit(t) == Idle(t) /\ End(t, "ended")

\* A business rule rejects the operation, or its transaction times out.
Reject(t) == status[t] = "running" /\ End(t, "ended")

-----------------------------------------------------------------------------

Statement(t) ==
  IssueDocuments(t) \/ IssueCoils(t) \/ IssueBalance(t) \/ LockRow(t) \/ RefuseRow(t)

Gate(t) ==
  LockDocuments(t) \/ LockCoilRows(t) \/ LockInOrder(t) \/ RecordItem(t) \/ LockRecostItems(t)

Tx(t) == Begin(t) \/ Gate(t) \/ Statement(t) \/ Commit(t) \/ Reject(t)

Next == \E t \in Txs : Tx(t)

Spec == Init /\ [][Next]_vars

\* A transaction that can go on does: its code runs to its end and the
\* database grants a free row to the statement that waits for it.  Nothing
\* obliges an operation to begin or to be rejected.
FairSpec == Spec /\ \A t \in Txs : WF_vars(Statement(t)) /\ WF_vars(Gate(t) \/ Commit(t))
-----------------------------------------------------------------------------
(* Properties.                                                              *)

StmtType    == [rows : SUBSET Rows, left : SUBSET Rows, nowait : BOOLEAN]
RequestType == [docs : SUBSET Docs, coils : SUBSET Coils,
                balances : SUBSET Balances, late : BOOLEAN]
MemoryType  == [documents : SUBSET Docs, coils : SUBSET Coils, balances : BOOLEAN]

\* The shape of the state.
TypeOK ==
  /\ status \in [Txs -> {"ready", "running", "ended", "conflict"}]
  /\ held \in [Txs -> SUBSET Rows]
  /\ memory \in [Txs -> MemoryType]
  /\ request \in [Txs -> RequestType]
  /\ stmt \in [Txs -> StmtType]
  /\ calls \in [Txs -> 0..MaxCalls]

\* Between two statements the TxLockState a gate decides with is what the
\* database really holds for the transaction: no row is forgotten (it would be
\* waited for out of order) and none is invented (it would be refused).
MemoryIsHeld ==
  \A t \in Txs : stmt[t] = NoStmt =>
    /\ memory[t].documents = held[t] \cap Docs
    /\ memory[t].coils = held[t] \cap Coils
    /\ memory[t].balances <=> held[t] \cap Balances # {}

\* The balance of a coil is only ever locked by who has the coil: this is why
\* nobody waits for one, and why its place among the balances is free.
CoilBeforeItsBalance ==
  \A t \in Txs : \A b \in held[t] \cap CoilBalances : CoilOf[b] \in held[t]

\* t sleeps on a row another transaction has.
Waits(t) == stmt[t].left # {} /\ ~stmt[t].nowait /\ Taken(t, NextRow(t))

\* D-386: whoever waits, waits for a row that comes after everything it has.
WaitInOrder ==
  \A t \in Txs : Waits(t) => \A r \in held[t] : r < NextRow(t)

\* No set of transactions waits on itself: PostgreSQL never has to break a
\* cycle (40P01) among the operations that go through the gates.
NoDeadlock ==
  \A D \in (SUBSET Txs) \ {{}} :
    ~ \A t \in D : Waits(t) /\ \E u \in D \ {t} : NextRow(t) \in held[u]

\* Every transaction that begins ends, by itself or by a 409: none of them
\* needs its timeout or the deadlock detector.
EveryTransactionEnds ==
  \A t \in Txs : status[t] = "running" ~> status[t] # "running"
=============================================================================
