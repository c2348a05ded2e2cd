---------------------------- MODULE MCInvoicing ----------------------------
\* The trip of a document to SUNAT, and the documents of an order, in one run:
\* four small instances, each a world of its own, chosen at the start.
EXTENDS Fiscal

VARIABLES cancelled, doc, tx, world

\* Voiding is the module this one extends: one document, of the two, is consulted,
\* voided, and credited or paid, by two persons, with one fault; the job is asleep.
\* In Issuing both are sent, by a person and by the job, with the contingency.
OneDocument == \A d \in Docs \ {1} : status'[d] = "DRAFT"
NoteOrPayment == paid' = {} \/ \A d \in Docs : note'[d] = "none"
Worker      == 1
SendingOps  == {"retry", "offline"}
Issuing == INSTANCE Fiscal WITH Job <- Worker, MaxVoids <- 0, Operations <- SendingOps

\* The invoices of an order, by two persons at once; and by one who corrects, too.
Documents   == 1..3
Two         == 1..2
One         == {1}
ParallelOps == {"register", "note", "void", "cancel"}
SerialOps   == ParallelOps \cup {"correct"}
Parallel == INSTANCE Billing WITH
  Docs <- Documents, Ordered <- 2, Workers <- Two, Operations <- ParallelOps
Serial == INSTANCE Billing WITH
  Docs <- Documents, Ordered <- 2, Workers <- One, Operations <- SerialOps

ASSUME Instances ==
  FiscalAssumption /\ Issuing!FiscalAssumption /\ Parallel!BillingAssumption
  /\ Serial!BillingAssumption

billing == <<cancelled, doc, tx>>
worlds  == <<vars, billing, world>>

WorldInit ==
  /\ Init
  /\ \/ world \in {"sending", "voiding", "serial"} /\ Serial!Init
     \/ world = "parallel" /\ Parallel!Init

InSending(A) == world = "sending" /\ A /\ UNCHANGED <<billing, world>>

WorldNext ==
  \/ world = "voiding" /\ Next /\ OneDocument /\ NoteOrPayment /\ UNCHANGED <<billing, world>>
  \/ InSending(Issuing!Next)
  \/ world = "parallel" /\ Parallel!Next /\ UNCHANGED <<vars, world>>
  \/ world = "serial" /\ Serial!Next /\ UNCHANGED <<vars, world>>

\* Fairness, in its world.
SendingFairness ==
  /\ WF_worlds(InSending(Issuing!Sweep)) /\ WF_worlds(InSending(Issuing!Online))
  /\ \A r \in Requests :
       /\ WF_worlds(InSending(Issuing!Server(r))) /\ WF_worlds(InSending(Issuing!Provider(r)))
  /\ \A d \in Docs :
       /\ SF_worlds(InSending(Issuing!LeaseEnds(d))) /\ WF_worlds(InSending(Issuing!Sunat(d)))

WorldSpec == WorldInit /\ [][WorldNext]_worlds /\ SendingFairness
-----------------------------------------------------------------------------
\* In its world, what was issued ends accepted or rejected.
IssuedEnds ==
  \A d \in Docs :
    (world = "sending" /\ status[d] \in Retryable) ~>
      (world = "sending" /\ status[d] \notin Retryable)

\* What is invoiced of an order is no more than what was ordered.
NotOverInvoiced ==
  /\ world = "parallel" => Parallel!NotOverInvoiced
  /\ world = "serial" => Serial!NotOverInvoiced

\* The notes of a document do not give back more than it has.
NotOverCredited ==
  /\ world = "parallel" => Parallel!NotOverCredited
  /\ world = "serial" => Serial!NotOverCredited

\* A cancelled order has nothing invoiced.
CancelledInvoicesNothing ==
  /\ world = "parallel" => Parallel!CancelledInvoicesNothing
  /\ world = "serial" => Serial!CancelledInvoicesNothing
=============================================================================
