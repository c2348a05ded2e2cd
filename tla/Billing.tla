------------------------------- MODULE Billing -------------------------------
(* The invoices of an order, their drafts, corrections and credit notes     *)
(* (invoicing.service.ts), and the cancellation of the order.               *)
(*                                                                          *)
(* Each operation is a transaction in two steps, under READ COMMITTED: it   *)
(* begins when nobody holds the rows it locks, and reads and decides; it    *)
(* commits what it writes.  What it reads without a lock may have changed   *)
(* by then.  The order has one line, and quantities stand for amounts.      *)
EXTENDS Integers, FiniteSets, Functions

CONSTANTS
  Docs,        \* fiscal documents
  Ordered,     \* quantity of the order
  Workers,     \* transactions at a time
  Operations   \* operations of this instance: "correct", "register", "note", "void", "cancel",
               \* and "undo-note", SUNAT rejects a note or a note is voided

BillingAssumption ==
  /\ IsFiniteSet(Docs) /\ Docs \subseteq Nat \ {0}
  /\ Ordered \in Nat \ {0}

VARIABLES
  cancelled,   \* the order is
  doc,         \* fiscal_documents
  tx           \* the transactions in progress

vars == <<cancelled, doc, tx>>

\* A note has an affected document, `of`; a correction the one it replaces, `fixes`.
\* ISSUED stands for SEND_ERROR too (Fiscal).
Document(kind, status, manual, qty, of, fixes) ==
  [kind |-> kind, status |-> status, manual |-> manual, qty |-> qty, of |-> of, fixes |-> fixes]
NoDocument == Document("none", "DRAFT", FALSE, 0, 0, 0)

Tx(op, d, new) == [op |-> op, doc |-> d, new |-> new]
NoTx == Tx("none", 0, NoDocument)

TheOrder == 0   \* its row, among those that are locked

Alive    == {"ISSUED", "ACCEPTED", "VOID_PENDING"}
Standing == {"DRAFT"} \cup Alive

Sum(ds) == SumFunctionOnSet([d \in Docs |-> doc[d].qty], ds)

Of(kind, statuses) == {d \in Docs : doc[d].kind = kind /\ doc[d].status \in statuses}
NotesOf(d, statuses) == {n \in Of("note", statuses) : doc[n].of = d}

\* invoicedByOrderItem: what is invoiced, without what the notes give back.
Invoiced(others) ==
  LET net == Sum(Of("invoice", Alive) \ others) - Sum(Of("note", Alive) \ others)
  IN  IF net < 0 THEN 0 ELSE net

\* Mutant: drafts do not count.
CommittedAlive == Sum(Of("invoice", Alive)) - Sum(Of("note", Alive))

\* exceedsOrderTotal: here drafts count.
Committed == Sum(Of("invoice", Standing)) - Sum(Of("note", Alive))

\* What is left to credit of a document, without a note.
LeftToCredit(d, note) == doc[d].qty - Sum(NotesOf(d, Alive) \ {note})

-----------------------------------------------------------------------------
(* Transactions.                                                            *)

\* Mutant: the order is read and not locked.
CreateLocksNothing == {}

\* createInTx: an order that is being edited, cancelled or invoiced is waited for.
CreateLocks == {TheOrder}

\* lockWithAffected
AndAffected(d) == {d, doc[d].of} \ {0}

\* Mutant: the note alone is locked.
AssignLocksNote(d) == {d}
AssignLocks(d) == AndAffected(d)

LocksOf(op, d, new) ==
  CASE op = "create"               -> CreateLocks
    [] op = "note"                 -> {new.of}
    [] op = "assign"               -> AssignLocks(d)
    [] op = "register"             -> AndAffected(d) \cup {TheOrder}
    [] op \in {"discard", "void"}  -> {d}
    [] op = "cancel"               -> {TheOrder} \cup Of("invoice", {"DRAFT"}) \cup Of("note", {"DRAFT"})
    [] op \in {"none", "correct"}  -> {}

Held(w) == LocksOf(tx[w].op, tx[w].doc, tx[w].new)

Unlocked(rs) == \A w \in Workers : Held(w) \cap rs = {}

Begin(w, op, d, new) ==
  /\ tx[w] = NoTx
  /\ Unlocked(LocksOf(op, d, new))
  /\ tx' = [tx EXCEPT ![w] = Tx(op, d, new)]
  /\ UNCHANGED <<cancelled, doc>>

\* The next row to be inserted.
Free == {d \in Docs : doc[d] = NoDocument /\ \A w \in Workers : tx[w].doc # d}
Row == CHOOSE d \in Free : \A e \in Free : d <= e

-----------------------------------------------------------------------------
(* Drafts.                                                                  *)

\* createInTx, resolveLines: what is left to invoice, and the cap of the order.
Create(w) ==
  \E q \in 1..Ordered :
    /\ Free # {} /\ ~cancelled
    /\ q <= Ordered - Invoiced({})
    /\ Committed + q <= Ordered
    /\ Begin(w, "create", Row, Document("invoice", "DRAFT", FALSE, q, 0, 0))

\* Mutant: what is credited may be a credit note.
NoteOfAny(w, d) ==
  \E q \in 1..Ordered :
    /\ "note" \in Operations /\ Free # {} /\ doc[d].status = "ACCEPTED"
    /\ q <= LeftToCredit(d, 0)
    /\ Begin(w, "note", Row, Document("note", "DRAFT", FALSE, q, d, 0))

\* planCreditNote, writeCreditNote.
Note(w, d) ==
  \E q \in 1..Ordered :
    /\ "note" \in Operations /\ Free # {}
    /\ doc[d].kind = "invoice" /\ doc[d].status = "ACCEPTED"
    /\ q <= LeftToCredit(d, 0)
    /\ Begin(w, "note", Row, Document("note", "DRAFT", FALSE, q, d, 0))

Corrections(d) == {e \in Docs : doc[e].kind # "none" /\ doc[e].fixes = d}

\* correctInner: the copy of a rejected document, which nothing is asked of.
Correct(w, d) ==
  /\ "correct" \in Operations /\ Free # {}
  /\ doc[d].kind # "none" /\ doc[d].status = "REJECTED" /\ Corrections(d) = {}
  /\ Begin(w, "correct", Row, Document(doc[d].kind, "DRAFT", FALSE, doc[d].qty, doc[d].of, d))

Draft(d) == doc[d].kind # "none" /\ doc[d].status = "DRAFT"

Discard(w, d) == Draft(d) /\ Begin(w, "discard", d, NoDocument)

-----------------------------------------------------------------------------
(* A draft becomes a document.                                              *)

\* Mutant: what the notes that were issued meanwhile took is not asked for.
NoteAvailableOnce(d) == doc[doc[d].of].status = "ACCEPTED"

\* assertAffectedStillCreditable and assertStillAvailable of a note.
NoteAvailable(d) ==
  /\ doc[doc[d].of].status = "ACCEPTED"
  /\ doc[d].qty <= LeftToCredit(doc[d].of, d)

\* Mutant: the state of the order is not asked for.
InvoiceAvailableAnyOrder(d) == doc[d].qty <= Ordered - Invoiced({d})

\* assertStillAvailable of an invoice.
InvoiceAvailable(d) == ~cancelled /\ doc[d].qty <= Ordered - Invoiced({d})

StillAvailable(d) == IF doc[d].kind = "note" THEN NoteAvailable(d) ELSE InvoiceAvailable(d)

OfManual(d) == doc[d].kind = "note" /\ doc[doc[d].of].manual
OfIssued(d) == doc[d].kind = "note" /\ ~doc[doc[d].of].manual

\* assignInTx: the number is taken; the order is read, and not locked.
Assign(w, d) ==
  /\ Draft(d) /\ ~OfManual(d)
  /\ StillAvailable(d)
  /\ Begin(w, "assign", d, [doc[d] EXCEPT !.status = "ISSUED"])

\* registerManualInTx: with the number of the paper, and the order locked.
Register(w, d) ==
  /\ "register" \in Operations
  /\ Draft(d) /\ ~OfIssued(d)
  /\ StillAvailable(d)
  /\ Begin(w, "register", d, [doc[d] EXCEPT !.status = "ACCEPTED", !.manual = TRUE])

-----------------------------------------------------------------------------
(* Voids, the cancellation of the order and what SUNAT says.                *)

\* draftCreditNoteBlock and the notes that live.
NoNotes(d) == NotesOf(d, Standing) = {}

\* voidDocument up to its mark.
Void(w, d) ==
  /\ "void" \in Operations
  /\ doc[d].kind = "note" => "undo-note" \in Operations
  /\ doc[d].kind # "none" /\ doc[d].status = "ACCEPTED" /\ ~doc[d].manual /\ NoNotes(d)
  /\ Begin(w, "void", d, [doc[d] EXCEPT !.status = "VOID_PENDING"])

\* commercialCancelBlocks: a draft, or an invoice that no notes give back.
StillSells ==
  \/ Of("invoice", {"DRAFT"}) # {}
  \/ Of("invoice", Alive) # {} /\ Invoiced({}) > 0

\* cancel: the drafts and the order are locked first.
Cancel(w) ==
  /\ "cancel" \in Operations
  /\ ~cancelled /\ ~StillSells
  /\ Begin(w, "cancel", 0, NoDocument)

\* The answers to a sending and to a void (Fiscal).
Answered(d, status) ==
  /\ Unlocked({d})
  /\ doc' = [doc EXCEPT ![d].status = status]
  /\ UNCHANGED <<cancelled, tx>>

Answer(d) ==
  \/ doc[d].kind # "none" /\ doc[d].status = "ISSUED" /\ Answered(d, "ACCEPTED")
  \/ /\ doc[d].kind # "none" /\ doc[d].status = "ISSUED"
     /\ doc[d].kind = "note" => "undo-note" \in Operations
     /\ Answered(d, "REJECTED")
  \/ doc[d].status = "VOID_PENDING" /\ (Answered(d, "VOIDED") \/ Answered(d, "ACCEPTED"))

\* The transaction ends; the index of replaces_document_id lets one correction be.
Commit(w) ==
  /\ tx[w] # NoTx
  /\ tx' = [tx EXCEPT ![w] = NoTx]
  /\ LET t == tx[w]
         fails == t.op = "correct" /\ Corrections(t.new.fixes) # {}
     IN  IF t.op = "cancel" THEN cancelled' = TRUE /\ UNCHANGED doc
         ELSE /\ doc' = IF fails THEN doc ELSE [doc EXCEPT ![t.doc] = t.new]
              /\ UNCHANGED cancelled

-----------------------------------------------------------------------------

Init ==
  /\ cancelled = FALSE
  /\ doc = [d \in Docs |-> NoDocument]
  /\ tx = [w \in Workers |-> NoTx]

Next ==
  \/ \E w \in Workers : Create(w) \/ Cancel(w) \/ Commit(w)
  \/ \E w \in Workers, d \in Docs :
       \/ Note(w, d) \/ Correct(w, d) \/ Discard(w, d) \/ Assign(w, d) \/ Register(w, d)
       \/ Void(w, d)
  \/ \E d \in Docs : Answer(d)

Spec == Init /\ [][Next]_vars

-----------------------------------------------------------------------------
(* Properties.                                                              *)

\* What is invoiced of an order, less what its notes give back, is no more than
\* what was ordered, whoever sends which drafts at the same time (HOTFIX-401, D-346).
NotOverInvoiced == Invoiced({}) <= Ordered

\* The notes of an invoice never give back more than it has, and nothing is given
\* back of a note (cc33 N3).
NotOverCredited ==
  \A d \in Docs :
    Sum(NotesOf(d, Alive)) <= IF doc[d].kind = "invoice" THEN doc[d].qty ELSE 0

\* A cancelled order has nothing invoiced (D-383).
CancelledInvoicesNothing == cancelled => Invoiced({}) = 0
=============================================================================
