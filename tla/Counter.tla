------------------------------ MODULE Counter ------------------------------
(* The cash sessions of a cashier and the sales of the counter: opening,    *)
(* selling, closing, and undoing a sale in the chain of reversals that may  *)
(* be cut and taken up again (cash-sessions.service.ts, pos.service.ts,     *)
(* D-099 to D-102).  Every sale is in cash, and of one unit of money; its   *)
(* documents are touched from the counter only.                             *)
EXTENDS Integers, FiniteSets

CONSTANTS
  Requests,     \* calls in progress
  Keys,         \* attempts to sell: each has its idempotency key
  MaxSessions,  \* bound: cash sessions
  MaxSales,     \* bound: sales
  MaxFaults     \* bound: calls that die

CounterAssumption == {MaxSessions, MaxSales, MaxFaults} \subseteq Nat

VARIABLES
  sessions,  \* cash_sessions of the cashier
  sales,     \* pos_sales, with the documents that were born with each
  call,      \* the calls in progress
  faults,    \* faults that are left
  refused    \* history: sales whose credit note SUNAT rejected

vars == <<sessions, sales, call, faults, refused>>

Ids     == 1..MaxSessions
SaleIds == 1..MaxSales

Session(state, expected) == [state |-> state, expected |-> expected]

\* `paid`: its payment is not reversed; `out`: its dispatch is not; `ordered`: its order
\* is not cancelled; `noted`: its document has a credit note that lives.
Sale(status, key, session, document, paid, out, ordered, noted) ==
  [status |-> status, key |-> key, session |-> session, document |-> document,
   paid |-> paid, out |-> out, ordered |-> ordered, noted |-> noted]
NoSale == Sale("none", {}, 0, "none", FALSE, FALSE, FALSE, FALSE)

\* `todo`: what a void has left to undo, as it read the sale before its first step.
Call(step, session, sale, key, expected, todo) ==
  [step |-> step, session |-> session, sale |-> sale, key |-> key, expected |-> expected,
   todo |-> todo]
NoCall == Call("none", 0, 0, {}, 0, {})

Init ==
  /\ sessions = [i \in Ids |-> Session("none", 0)]
  /\ sales = [s \in SaleIds |-> NoSale]
  /\ call = [r \in Requests |-> NoCall]
  /\ faults = MaxFaults
  /\ refused = {}

Goes(r, next) == call' = [call EXCEPT ![r] = next]
Ends(r) == Goes(r, NoCall)
Idle(r) == call[r] = NoCall
Open == {i \in Ids : sessions[i].state = "OPEN"}

\* Mutants: the session is read and not locked.
CloseLocksNothing(i) == {}
ClaimLocksNothing(i) == {}
CloseLocks(i) == {i}
ClaimLocks(i) == {i}

Held(r) ==
  CASE call[r].step = "selling"  -> {call[r].session}
    [] call[r].step = "closing"  -> CloseLocks(call[r].session)
    [] call[r].step = "claiming" -> ClaimLocks(call[r].session)
    [] OTHER                     -> {}

Unlocked(rows) == \A r \in Requests : Held(r) \cap rows = {}

-----------------------------------------------------------------------------
(* Opening, selling, closing.                                               *)

\* open: with the user locked, if they have no session open.
OpenSession ==
  /\ Open = {}
  /\ \E i \in Ids :
       /\ sessions[i].state = "none" /\ \A j \in Ids : j < i => sessions[j].state # "none"
       /\ sessions' = [sessions EXCEPT ![i] = Session("OPEN", 0)]
  /\ UNCHANGED <<sales, call, faults, refused>>

\* Mutant: whether the attempt was served is read, not claimed.
TakenIfServed(k) == \E s \in SaleIds : k \in sales[s].key

\* claimIdempotencyKey: the key of a transaction that has not ended is waited for.
Taken(k) == (\E s \in SaleIds : k \in sales[s].key) \/ \E r \in Requests : k \in call[r].key

\* sell: the key before anything else.
AskSell(r, k) ==
  /\ Idle(r) /\ ~Taken(k)
  /\ Goes(r, Call("keyed", 0, 0, {k}, 0, {}))
  /\ UNCHANGED <<sessions, sales, faults, refused>>

\* lockOpenSession: the one that is open, or the sale is refused.
Enter(r) ==
  /\ call[r].step = "keyed"
  /\ \/ Open = {} /\ Ends(r)
     \/ \E i \in Open :
          Unlocked({i}) /\ Goes(r, Call("selling", i, 0, call[r].key, 0, {}))
  /\ UNCHANGED <<sessions, sales, faults, refused>>

\* The order, the dispatch, the document with its number and the payment, at once.
CommitSell(r) ==
  /\ call[r].step = "selling"
  /\ \E s \in SaleIds :
       /\ sales[s] = NoSale /\ \A t \in SaleIds : t < s => sales[t] # NoSale
       /\ sales' = [sales EXCEPT ![s] = Sale("ACTIVE", call[r].key, call[r].session, "ISSUED",
                                             TRUE, TRUE, TRUE, FALSE)]
  /\ Ends(r)
  /\ UNCHANGED <<sessions, faults, refused>>

\* expectedCash: only what is ACTIVE.
Expected(i) == Cardinality({s \in SaleIds : sales[s].session = i /\ sales[s].status = "ACTIVE"})

\* close: with the session locked, its sales are added up.
AskClose(r, i) ==
  /\ Idle(r) /\ sessions[i].state = "OPEN" /\ Unlocked(CloseLocks(i))
  /\ Goes(r, Call("closing", i, 0, {}, Expected(i), {}))
  /\ UNCHANGED <<sessions, sales, faults, refused>>

CommitClose(r) ==
  /\ call[r].step = "closing"
  /\ sessions' = [sessions EXCEPT ![call[r].session] = Session("CLOSED", call[r].expected)]
  /\ Ends(r)
  /\ UNCHANGED <<sales, faults, refused>>

-----------------------------------------------------------------------------
(* voidSale.  The way to undo the document, its void or a credit note, is   *)
(* chosen in every attempt, by its kind and its age (voidPathFor).          *)

The(r) == sales[call[r].sale]

Writes(r, sale) == sales' = [sales EXCEPT ![call[r].sale] = sale]

\* The document of the sale is undone, or about to be.
AlreadyUndone(sale) == sale.document \in {"VOIDED", "VOID_PENDING"} \/ sale.noted

Todo(sale) ==
  {job \in {"claim", "payment", "document", "confirm", "goods", "order"} :
     CASE job = "claim"    -> sale.status = "ACTIVE"
       [] job = "payment"  -> sale.paid
       [] job = "document" -> ~AlreadyUndone(sale)
       [] job = "confirm"  -> sale.document = "VOID_PENDING"
       [] job = "goods"    -> sale.out
       [] job = "order"    -> sale.ordered}

Rank == [payment |-> 1, document |-> 2, confirm |-> 3, goods |-> 4, order |-> 5]

\* The void goes through what it has to do in order.
Due(r, job) ==
  /\ call[r].step = "undoing" /\ job \in call[r].todo
  /\ \A other \in call[r].todo : Rank[job] <= Rank[other]

Undoing(r, job) == Goes(r, Call("undoing", 0, call[r].sale, {}, 0, call[r].todo \ {job}))

AskVoid(r, s) ==
  /\ Idle(r)
  /\ sales[s].status \in {"ACTIVE", "VOIDING"}
  /\ AlreadyUndone(sales[s]) \/ sales[s].document = "ACCEPTED"
  /\ Goes(r, Call("asking", sales[s].session, s, {}, 0, Todo(sales[s])))
  /\ UNCHANGED <<sessions, sales, faults, refused>>

\* The session is locked; a closed one is not touched.
LockClaim(r) ==
  /\ call[r].step = "asking"
  /\ Unlocked(ClaimLocks(call[r].session))
  /\ IF sessions[call[r].session].state = "OPEN"
     THEN call' = [call EXCEPT ![r].step = "claiming"]
     ELSE Ends(r)
  /\ UNCHANGED <<sessions, sales, faults, refused>>

\* Mutant: the sale counts until it is undone.
ClaimLater(r) == UNCHANGED sales /\ Undoing(r, "claim")

\* ACTIVE to VOIDING, if it is still ACTIVE; who read VOIDING takes it up again.
Claim(r) ==
  IF "claim" \notin call[r].todo THEN UNCHANGED sales /\ Undoing(r, "claim")
  ELSE IF The(r).status # "ACTIVE" THEN UNCHANGED sales /\ Ends(r)
  ELSE Writes(r, [The(r) EXCEPT !.status = "VOIDING"]) /\ Undoing(r, "claim")

CommitClaim(r) ==
  /\ call[r].step = "claiming" /\ Claim(r)
  /\ UNCHANGED <<sessions, faults, refused>>

\* 1. reversePayment.
Unpay(r) ==
  /\ Due(r, "payment")
  /\ IF The(r).paid
     THEN Writes(r, [The(r) EXCEPT !.paid = FALSE]) /\ Undoing(r, "payment")
     ELSE UNCHANGED sales /\ Ends(r)
  /\ UNCHANGED <<sessions, faults, refused>>

\* 2. The void that a previous attempt left in progress is asked for.
Confirm(r) ==
  /\ Due(r, "confirm")
  /\ IF The(r).document = "VOID_PENDING" THEN Ends(r) ELSE Undoing(r, "confirm")
  /\ UNCHANGED <<sessions, sales, faults, refused>>

\* voidDocument, and the consultation that follows: it goes on unless the void is in
\* progress, for it is confirmed or SUNAT has refused it.
VoidDocument(r) ==
  /\ Due(r, "document")
  /\ \/ UNCHANGED sales /\ Ends(r)
     \/ /\ The(r).document = "ACCEPTED" /\ ~The(r).paid /\ ~The(r).noted
        /\ \/ Writes(r, [The(r) EXCEPT !.document = "VOIDED"]) /\ Undoing(r, "document")
           \/ Writes(r, [The(r) EXCEPT !.document = "VOID_PENDING"]) /\ Ends(r)
           \/ UNCHANGED sales /\ Undoing(r, "document")
  /\ UNCHANGED <<sessions, faults, refused>>

\* createCreditNote and send: a note of what is left to credit, which the second checks
\* again; a draft that never takes its number counts for nothing.
CreditNote(r) ==
  /\ Due(r, "document")
  /\ The(r).document = "ACCEPTED" /\ ~The(r).noted
  /\ Writes(r, [The(r) EXCEPT !.noted = TRUE]) /\ Undoing(r, "document")
  /\ UNCHANGED <<sessions, faults, refused>>

\* Mutant: the document is not asked for when the goods come back.
NeverDeclared(sale) == FALSE

\* declaringDocument, commercialCancelBlocks: the document still invoices the sale.
StillDeclared(sale) == sale.document \notin {"VOIDED", "REJECTED"} /\ ~sale.noted

\* 3. The dispatch is reversed.
BringBack(r) ==
  /\ Due(r, "goods")
  /\ IF The(r).out /\ ~StillDeclared(The(r))
     THEN Writes(r, [The(r) EXCEPT !.out = FALSE]) /\ Undoing(r, "goods")
     ELSE UNCHANGED sales /\ Ends(r)
  /\ UNCHANGED <<sessions, faults, refused>>

\* 4. The order is cancelled: nothing of it may be out or invoiced.
CancelOrder(r) ==
  /\ Due(r, "order")
  /\ IF The(r).ordered /\ ~The(r).out /\ ~StillDeclared(The(r))
     THEN Writes(r, [The(r) EXCEPT !.ordered = FALSE]) /\ Undoing(r, "order")
     ELSE UNCHANGED sales /\ Ends(r)
  /\ UNCHANGED <<sessions, faults, refused>>

EndVoid(r) ==
  /\ call[r].step = "undoing" /\ call[r].todo = {}
  /\ Writes(r, [The(r) EXCEPT !.status = "VOIDED"])
  /\ Ends(r)
  /\ UNCHANGED <<sessions, faults, refused>>

-----------------------------------------------------------------------------
(* Around.                                                                  *)

\* What SUNAT says of the document, of its void and of its note (Fiscal).
Answer(s) ==
  LET Becomes(sale) == sales' = [sales EXCEPT ![s] = sale] IN
  /\ \/ /\ sales[s].document = "ISSUED" /\ UNCHANGED refused
        /\ \E to \in {"ACCEPTED", "REJECTED"} : Becomes([sales[s] EXCEPT !.document = to])
     \/ /\ sales[s].document = "VOID_PENDING" /\ UNCHANGED refused
        /\ \E to \in {"VOIDED", "ACCEPTED"} : Becomes([sales[s] EXCEPT !.document = to])
     \/ sales[s].noted /\ Becomes([sales[s] EXCEPT !.noted = FALSE]) /\ refused' = refused \cup {s}
  /\ UNCHANGED <<sessions, call, faults>>

\* The process dies: what its transaction had locked is free, and nothing of it is written.
Crash(r) ==
  /\ ~Idle(r) /\ faults > 0 /\ faults' = faults - 1
  /\ Ends(r)
  /\ UNCHANGED <<sessions, sales, refused>>

Voids(r) ==
  \/ LockClaim(r) \/ CommitClaim(r) \/ Unpay(r) \/ Confirm(r) \/ VoidDocument(r)
  \/ CreditNote(r) \/ BringBack(r) \/ CancelOrder(r) \/ EndVoid(r)

Next ==
  \/ OpenSession
  \/ \E r \in Requests :
       \/ Enter(r) \/ CommitSell(r) \/ CommitClose(r)
       \/ Voids(r) \/ Crash(r)
  \/ \E r \in Requests, k \in Keys : AskSell(r, k)
  \/ \E r \in Requests, i \in Ids : AskClose(r, i)
  \/ \E r \in Requests, s \in SaleIds : AskVoid(r, s)
  \/ \E s \in SaleIds : Answer(s)

Spec == Init /\ [][Next]_vars

-----------------------------------------------------------------------------
(* Properties.                                                              *)

\* What a session was closed with is what its sales add up to, then and ever after:
\* no sale enters it and none that counts is being undone (D-101).
ClosedAddsUp ==
  \A i \in Ids :
    sessions[i].state = "CLOSED" =>
      sessions[i].expected = Cardinality({s \in SaleIds : sales[s].session = i /\ sales[s].paid
                                                            /\ sales[s].status = "ACTIVE"})

\* An attempt that is repeated, at once or after an answer that was lost, sells once (D-666).
SoldOnce == \A s, t \in SaleIds : sales[s].key \cap sales[t].key # {} => s = t

\* A sale that ends undone is undone in its four documents, however often its void was
\* cut and by whom it was taken up (D-100); but SUNAT may reject the note later.
VoidedIsUndone ==
  \A s \in SaleIds \ refused :
    sales[s].status = "VOIDED" =>
      /\ ~sales[s].paid /\ ~sales[s].out /\ ~sales[s].ordered
      /\ sales[s].document = "VOIDED" \/ sales[s].noted
=============================================================================
