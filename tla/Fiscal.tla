------------------------------- MODULE Fiscal -------------------------------
(* A fiscal document and its trip to SUNAT through the PSE: sending, the    *)
(* retries of persons and of the job, the consultation and the void         *)
(* (invoicing.service.ts, D-072, D-073, RF-75).                             *)
(*                                                                          *)
(* A call is a request in steps, one for each transaction and one for what  *)
(* the PSE does; in between anything may happen, and a call may die.  The   *)
(* PSE (nubefact.provider.ts says how its answers are read) and SUNAT are   *)
(* the environment.                                                         *)
EXTENDS Integers, FiniteSets

CONSTANTS
  Docs,        \* the documents, numbers in the order in which they are issued
  Requests,    \* calls in progress
  Job,         \* the call that is the worker of the queue, if it is one of them
  Limit,       \* documents of one sweep
  MaxFaults,   \* bound: answers lost, requests lost, calls that die, contingencies
  MaxVoids,    \* bound: void calls
  Operations   \* the operations of this instance besides sending: "retry", "refresh",
               \* "void", "note", "pay", "offline"

FiscalAssumption ==
  /\ Docs \subseteq Nat /\ 0 \notin Docs
  /\ Limit \in Nat \ {0} /\ MaxFaults \in Nat /\ MaxVoids \in Nat

VARIABLES
  status,   \* fiscal_documents.status
  tried,    \* sendAttempts > 0
  leased,   \* lastAttemptAt less than SEND_CLAIM_LEASE_MS ago
  mark,     \* voidRequestedAt: the void call that set it, 0 for none
  audit,    \* the last action of VOID_AUDIT
  old,      \* the mark is older than VOID_IN_FLIGHT_MS
  paid,     \* documents with a payment that is not reversed
  note,     \* the credit note that affects the document
  offline,  \* providerOffline: the contingency
  call,     \* the calls in progress
  known,    \* what the PSE knows of a document
  baja,     \* what SUNAT knows of its void
  voids,    \* void calls so far
  faults,   \* faults that are left
  erred,    \* history: documents that were SEND_ERROR, or that a consultation did not find
  held,     \* history: documents that the PSE has answered that it holds
  lost,     \* history: documents of which the answer to a void was lost
  late,     \* history: documents paid while their void was in progress
  undone    \* history: documents whose void was given back by what SUNAT had said of
            \* an earlier one

row     == <<status, tried, leased, mark, audit, old>>
around  == <<paid, note, offline>>
there   == <<known, baja>>
counted == <<voids, faults>>
history == <<erred, held, lost, late, undone>>
vars == <<row, around, call, there, counted, history>>

Retryable == {"ISSUED", "SEND_ERROR"}
Alive     == Retryable \cup {"ACCEPTED", "VOID_PENDING"}

\* `query`: the PSE is asked, not sent; `seen` the mark that was read, `mine` the
\* one this call has set; `rest` what is left of a sweep.
Call(op, step, doc, query, seen, mine, answer, rest) ==
  [op |-> op, step |-> step, doc |-> doc, query |-> query, seen |-> seen, mine |-> mine,
   answer |-> answer, rest |-> rest]
NoCall == Call("none", "none", 0, FALSE, 0, 0, "none", {})

Init ==
  /\ status = [d \in Docs |-> "DRAFT"]
  /\ tried = [d \in Docs |-> FALSE]
  /\ leased = [d \in Docs |-> FALSE]
  /\ mark = [d \in Docs |-> 0]
  /\ audit = [d \in Docs |-> "none"]
  /\ old = [d \in Docs |-> FALSE]
  /\ paid = {} /\ note = [d \in Docs |-> "none"] /\ offline = FALSE
  /\ call = [r \in Requests |-> NoCall]
  /\ known = [d \in Docs |-> "no"]
  /\ baja = [d \in Docs |-> "no"]
  /\ voids = 0 /\ faults = MaxFaults
  /\ erred = {} /\ held = {} /\ lost = {} /\ late = {} /\ undone = {}

Goes(r, next) == call' = [call EXCEPT ![r] = next]

Delivery(d, rest) == Call("deliver", "read", d, FALSE, 0, 0, "none", rest)

\* The call has nothing else to do with its document: a sweep takes the next.
Done(r) ==
  IF call[r].rest = {} THEN Goes(r, NoCall)
  ELSE \E d \in call[r].rest :
         (\A e \in call[r].rest : d <= e) /\ Goes(r, Delivery(d, call[r].rest \ {d}))

\* The call goes on with the next step, or with what it was answered.
Steps(r, step, answer) ==
  Goes(r, Call(call[r].op, step, call[r].doc, call[r].query, call[r].seen, call[r].mine,
               answer, call[r].rest))

Moves(d, to) == status' = [status EXCEPT ![d] = to]

-----------------------------------------------------------------------------
(* Sending.                                                                 *)

Idle(r) == call[r] = NoCall /\ r # Job

\* send: assignInTx takes the number, in a transaction of its own; then deliver.
Send(r, d) ==
  /\ Idle(r)
  /\ status[d] = "DRAFT" /\ \A e \in Docs : e < d => status[e] # "DRAFT"
  /\ Moves(d, "ISSUED")
  /\ Goes(r, Delivery(d, {}))
  /\ UNCHANGED <<tried, leased, mark, audit, old, around, there, counted, history>>

\* retry: a person asks for it; not while a sending may be in flight.
Retry(r, d) ==
  /\ "retry" \in Operations /\ Idle(r)
  /\ status[d] \in Retryable /\ ~leased[d]
  /\ Goes(r, Delivery(d, {}))
  /\ UNCHANGED <<row, around, there, counted, history>>

\* Mutant: what ended in an error is left to persons.
PendingIssued == {d \in Docs : status[d] = "ISSUED"}
Pending == {d \in Docs : status[d] \in Retryable}
Oldest  == {d \in Pending : Cardinality({e \in Pending : e < d}) < Limit}

\* sendPending: the oldest documents, one after the other.
Sweep ==
  /\ Job \in Requests /\ call[Job] = NoCall /\ ~offline
  /\ \E d \in Oldest :
       (\A e \in Oldest : d <= e) /\ Goes(Job, Delivery(d, Oldest \ {d}))
  /\ UNCHANGED <<row, around, there, counted, history>>

\* Mutant: whether the PSE has the document is not asked.
AtProviderNever(d) == FALSE

\* alreadyAtProvider: the last answer was PENDING.
AtProvider(d) == status[d] = "ISSUED" /\ tried[d]

\* deliver: the document and the contingency are read.
Read(r) ==
  /\ call[r].step = "read"
  /\ LET d == call[r].doc IN
     \/ status[d] \notin Retryable /\ Done(r)
     \/ status[d] \in Retryable /\ offline /\ Steps(r, "offline", "ERROR")
     \/ /\ status[d] \in Retryable /\ ~offline
        /\ Goes(r, Call("deliver", "claim", d, AtProvider(d), 0, 0, "none", call[r].rest))
  /\ UNCHANGED <<row, around, there, counted, history>>

\* Mutant: the claim only counts the attempt.
MayClaimAlways(d) == status[d] \in Retryable

\* sendClaimWhere: nobody else can be sending it.
MayClaim(d) == status[d] \in Retryable /\ ~leased[d]

\* claimAttempt: one conditional update; asking is not an attempt to send.
Claim(r) ==
  /\ call[r].step = "claim"
  /\ LET d == call[r].doc IN
     IF MayClaim(d)
     THEN /\ leased' = [leased EXCEPT ![d] = TRUE]
          /\ tried' = [tried EXCEPT ![d] = @ \/ ~call[r].query]
          /\ Steps(r, "calling", "none")
     ELSE Done(r) /\ UNCHANGED <<tried, leased>>
  /\ UNCHANGED <<status, mark, audit, old, around, there, counted, history>>

\* Mutant: received by the PSE is taken for accepted.
OutcomeOptimist(a) ==
  CASE a \in {"ACCEPTED", "PENDING"} -> "ACCEPTED" [] a = "REJECTED" -> "REJECTED"
    [] OTHER -> "SEND_ERROR"

\* Mutant: what the PSE answers is written as it comes.
OutcomeWritten(a) == IF a = "ERROR" THEN "SEND_ERROR" ELSE a

\* applyResult: what an answer makes of a document; PENDING leaves it as it is.
Outcome(a) ==
  CASE a = "ACCEPTED" -> "ACCEPTED" [] a = "REJECTED" -> "REJECTED" [] a = "PENDING" -> "same"
    [] OTHER -> "SEND_ERROR"

ApplyTo(d, a) ==
  status' = IF status[d] \in Retryable /\ Outcome(a) # "same"
            THEN [status EXCEPT ![d] = Outcome(a)] ELSE status

\* It has claimed the document and speaks to the PSE.
Sending(r, d) ==
  /\ call[r].op = "deliver" /\ call[r].doc = d
  /\ call[r].step \in {"calling", "answered"}

Delivering(r, d) == Sending(r, d) \/ (call[r].step = "claim" /\ call[r].doc = d)

\* The answer to a sending or to a consultation of the document is written.
Apply(r) ==
  /\ \/ call[r].op = "deliver" /\ call[r].step \in {"answered", "offline"}
     \/ call[r].op = "refresh" /\ call[r].step = "answered"
  /\ LET d == call[r].doc IN
     /\ ApplyTo(d, call[r].answer)
     /\ erred' = IF status'[d] = "SEND_ERROR" THEN erred \cup {d} ELSE erred
     /\ held' = IF call[r].answer = "PENDING" THEN held \cup {d} ELSE held
  /\ Done(r)
  /\ UNCHANGED <<tried, leased, mark, audit, old, around, there, counted, lost, late, undone>>

\* The lease, ninety seconds, is longer than a delivery takes.
LeaseEnds(d) ==
  /\ leased[d] /\ \A r \in Requests : ~Delivering(r, d)
  /\ leased' = [leased EXCEPT ![d] = FALSE]
  /\ UNCHANGED <<status, tried, mark, audit, old, around, call, there, counted, history>>

-----------------------------------------------------------------------------
(* Consulting.                                                              *)

\* Mutant: the void that is being communicated is consulted too.
InFlightNever(d) == FALSE

\* voidMarkState: what the last audit of the void and the age of its mark say.
InFlight(d) == audit[d] = "REQUESTED" /\ ~old[d]
Orphan(d)   == audit[d] = "REQUESTED" /\ old[d]

Consult(r, d, step) == Goes(r, Call("refresh", step, d, TRUE, mark[d], 0, "none", {}))

\* refreshStatus: the document is read; a void in progress has a query of its own.
Refresh(r, d) ==
  /\ "refresh" \in Operations /\ Idle(r)
  /\ \/ status[d] = "VOID_PENDING" /\ ~InFlight(d) /\ Consult(r, d, "asking-void")
     \/ status[d] = "ACCEPTED" /\ Consult(r, d, "reconciling")
     \/ status[d] \in {"ISSUED", "SEND_ERROR", "REJECTED", "VOIDED"} /\ Consult(r, d, "calling")
  /\ UNCHANGED <<row, around, there, counted, history>>

\* SUNAT confirmed the void, or refused it: the document goes on being accepted.
\* The update asks for the status, not for the mark that was read.
Settle(r) ==
  /\ call[r].step = "settle"
  /\ LET d == call[r].doc IN
     /\ \/ /\ call[r].answer = "ACCEPTED" /\ status[d] = "VOID_PENDING"
           /\ Moves(d, "VOIDED") /\ UNCHANGED <<mark, undone>>
        \/ /\ call[r].answer = "REJECTED" /\ status[d] = "VOID_PENDING"
           /\ Moves(d, "ACCEPTED") /\ mark' = [mark EXCEPT ![d] = 0]
           /\ undone' = IF mark[d] # call[r].seen THEN undone \cup {d} ELSE undone
        \/ /\ call[r].answer \notin {"ACCEPTED", "REJECTED"} \/ status[d] # "VOID_PENDING"
           /\ UNCHANGED <<status, mark, undone>>
  /\ Done(r)
  /\ UNCHANGED <<tried, leased, audit, old, around, there, counted, erred, held, lost, late>>

\* An accepted document whose void the PSE has: the answer to it was lost.  (The
\* consultation of the document that follows otherwise changes nothing.)
Reconcile(r) ==
  /\ call[r].step = "reconcile"
  /\ LET d == call[r].doc IN
     IF call[r].answer = "ACCEPTED" /\ status[d] = "ACCEPTED"
     THEN Moves(d, "VOIDED") ELSE UNCHANGED status
  /\ Done(r)
  /\ UNCHANGED <<tried, leased, mark, audit, old, around, there, counted, history>>

-----------------------------------------------------------------------------
(* Voiding.                                                                 *)

\* A payment that is not reversed, a credit note, even a draft, stop a void.
Free(d) == d \notin paid /\ note[d] = "none"

\* voidDocument: what it reads before its first transaction.
Void(r, d) ==
  /\ "void" \in Operations /\ Idle(r)
  /\ voids < MaxVoids
  /\ status[d] = "ACCEPTED" \/ (status[d] = "VOID_PENDING" /\ Orphan(d))
  /\ Free(d) /\ ~offline
  /\ voids' = voids + 1
  /\ Goes(r, Call("void", "mark", d, status[d] = "VOID_PENDING", mark[d], voids + 1, "none", {}))
  /\ UNCHANGED <<row, around, there, faults, history>>

\* Mutant: what was read before the transaction is not read again.
StillVoidableUnread(r, d) == TRUE

\* The row is locked and everything is asked again; `query`: an orphan is retried.
StillVoidable(r, d) ==
  /\ IF call[r].query THEN status[d] = "VOID_PENDING" /\ mark[d] = call[r].seen
                      ELSE status[d] = "ACCEPTED"
  /\ Free(d)

\* The void is in progress before anybody speaks to the PSE.
Mark(r) ==
  /\ call[r].step = "mark"
  /\ LET d == call[r].doc IN
     IF StillVoidable(r, d)
     THEN /\ Moves(d, "VOID_PENDING")
          /\ mark' = [mark EXCEPT ![d] = call[r].mine]
          /\ audit' = [audit EXCEPT ![d] = "REQUESTED"]
          /\ old' = [old EXCEPT ![d] = FALSE]
          /\ Steps(r, "voiding", "none")
     ELSE Done(r) /\ UNCHANGED <<status, mark, audit, old>>
  /\ UNCHANGED <<tried, leased, around, there, counted, history>>

\* The mark is still the one this call has set.
Owns(r, d) == status[d] = "VOID_PENDING" /\ mark[d] = call[r].mine

\* The PSE refused, or could not be reached: the mark is taken away.
ReleaseMark(r) ==
  /\ call[r].step = "voided" /\ call[r].answer \in {"ERROR", "REJECTED"}
  /\ LET d == call[r].doc IN
     IF Owns(r, d)
     THEN /\ Moves(d, "ACCEPTED")
          /\ mark' = [mark EXCEPT ![d] = IF call[r].query THEN 0 ELSE call[r].seen]
          /\ audit' = [audit EXCEPT ![d] = "RELEASED"]
     ELSE UNCHANGED <<status, mark, audit>>
  /\ Done(r)
  /\ UNCHANGED <<tried, leased, old, around, there, counted, history>>

NothingMeanwhile(d) == d \notin paid /\ note[d] # "live"

\* The PSE has it: voided, or still in progress; a payment or a note that came
\* meanwhile leaves it in progress.
Confirm(r) ==
  /\ call[r].step = "voided" /\ call[r].answer \in {"ACCEPTED", "PENDING"}
  /\ LET d == call[r].doc IN
     \/ ~NothingMeanwhile(d) /\ audit' = [audit EXCEPT ![d] = "CONFLICT"] /\ UNCHANGED status
     \/ /\ NothingMeanwhile(d) /\ Owns(r, d)
        /\ audit' = [audit EXCEPT ![d] = "DONE"]
        /\ IF call[r].answer = "ACCEPTED" THEN Moves(d, "VOIDED") ELSE UNCHANGED status
     \/ NothingMeanwhile(d) /\ ~Owns(r, d) /\ UNCHANGED <<status, audit>>
  /\ Done(r)
  /\ UNCHANGED <<tried, leased, mark, old, around, there, counted, history>>

\* Five minutes, more than any call takes.
Ages(d) ==
  /\ status[d] = "VOID_PENDING" /\ ~old[d]
  /\ \A r \in Requests : call[r].op = "void" => call[r].doc # d
  /\ old' = [old EXCEPT ![d] = TRUE]
  /\ UNCHANGED <<status, tried, leased, mark, audit, around, call, there, counted, history>>

-----------------------------------------------------------------------------
(* The PSE and SUNAT.                                                       *)

\* What the PSE answers to a document it is sent: to one it has, a duplicate.
SendsTo(d, k, a) ==
  \/ known[d] = "no" /\ <<k, a>> \in {<<"pending", "PENDING">>, <<"accepted", "ACCEPTED">>,
                                      <<"rejected", "REJECTED">>}
  \/ known[d] # "no" /\ k = known[d] /\ a = "REJECTED"

\* To a consultation: of one it does not have, an error.
Answers(k) ==
  CASE k = "pending" -> "PENDING" [] k \in {"accepted", "done"} -> "ACCEPTED" [] OTHER -> "REJECTED"

\* To a void: one already communicated is answered as accepted.
VoidsTo(d, b, a) ==
  \/ known[d] # "accepted" /\ b = baja[d] /\ a = "REJECTED"
  \/ /\ known[d] = "accepted" /\ baja[d] \in {"no", "refused"}
     /\ <<b, a>> \in {<<"pending", "PENDING">>, <<"done", "ACCEPTED">>, <<baja[d], "REJECTED">>}
  \/ baja[d] \in {"pending", "done"} /\ b = baja[d] /\ a = "ACCEPTED"

NextStep(r) ==
  CASE call[r].step = "asking-void" -> "settle" [] call[r].step = "reconciling" -> "reconcile"
    [] call[r].step = "voiding" -> "voided" [] OTHER -> "answered"

Calling(r) == call[r].step \in {"calling", "asking-void", "reconciling", "voiding"}

\* What the PSE does with the request of a call and answers.
Serves(r, k, b, a) ==
  LET d == call[r].doc IN
  CASE call[r].step = "calling" /\ ~call[r].query -> SendsTo(d, k, a) /\ b = baja[d]
    [] call[r].step = "calling" /\ call[r].query  -> k = known[d] /\ b = baja[d] /\ a = Answers(k)
    [] call[r].step = "voiding"                   -> k = known[d] /\ VoidsTo(d, b, a)
    [] OTHER                                      -> k = known[d] /\ b = baja[d] /\ a = Answers(b)

Provider(r) ==
  /\ Calling(r)
  /\ \E k \in {"no", "pending", "accepted", "rejected"},
        b \in {"no", "pending", "done", "refused"}, a \in {"PENDING", "ACCEPTED", "REJECTED"} :
       /\ Serves(r, k, b, a)
       /\ known' = [known EXCEPT ![call[r].doc] = k]
       /\ baja' = [baja EXCEPT ![call[r].doc] = b]
       /\ erred' = IF call[r].op = "refresh" /\ k = "no" THEN erred \cup {call[r].doc} ELSE erred
       /\ \/ Steps(r, NextStep(r), a) /\ UNCHANGED <<faults, lost>>
          \/ /\ faults > 0 /\ faults' = faults - 1         \* the answer is lost
             /\ Steps(r, NextStep(r), "ERROR")
             /\ lost' = IF call[r].op = "void" THEN lost \cup {call[r].doc} ELSE lost
  /\ UNCHANGED <<row, around, voids, held, late, undone>>

\* The request does not arrive, or the PSE fails with a 5xx.
Unreachable(r) ==
  /\ Calling(r)
  /\ faults > 0 /\ faults' = faults - 1
  /\ Steps(r, NextStep(r), "ERROR")
  /\ UNCHANGED <<row, around, there, voids, history>>

\* The process that serves a call dies, and its answer dies with it.
Crash(r) ==
  /\ call[r] # NoCall
  /\ faults > 0 /\ faults' = faults - 1
  /\ Goes(r, NoCall)
  /\ lost' = IF call[r].step \in {"voiding", "voided"} THEN lost \cup {call[r].doc} ELSE lost
  /\ UNCHANGED <<row, around, there, voids, erred, held, late, undone>>

\* SUNAT makes up its mind.
Sunat(d) ==
  /\ \/ /\ known[d] = "pending"
        /\ \E k \in {"accepted", "rejected"} : known' = [known EXCEPT ![d] = k]
        /\ UNCHANGED baja
     \/ /\ baja[d] = "pending"
        /\ \E b \in {"done", "refused"} : baja' = [baja EXCEPT ![d] = b]
        /\ UNCHANGED known
  /\ UNCHANGED <<row, around, call, counted, history>>

-----------------------------------------------------------------------------
(* What happens around a document.                                          *)

\* addPaymentInTx: any living document; a void in progress does not stop it.
Pay(d) ==
  /\ "pay" \in Operations
  /\ status[d] \in Alive /\ d \notin paid
  /\ paid' = paid \cup {d}
  /\ late' = IF status[d] = "VOID_PENDING" THEN late \cup {d} ELSE late
  /\ UNCHANGED <<row, note, offline, call, there, counted, erred, held, lost, undone>>

\* reversePaymentInTx.
Unpay(d) ==
  /\ d \in paid
  /\ paid' = paid \ {d} /\ late' = late \ {d}
  /\ UNCHANGED <<row, note, offline, call, there, counted, erred, held, lost, undone>>

\* assertAffectedStillCreditable.
Creditable(d) == status[d] = "ACCEPTED"

\* createCreditNote, discardDraft, assignInTx of a note, and its own end.
Note(d) ==
  /\ "note" \in Operations
  /\ \/ note[d] = "none" /\ status[d] = "ACCEPTED" /\ note' = [note EXCEPT ![d] = "draft"]
     \/ note[d] = "draft" /\ note' = [note EXCEPT ![d] = "none"]
     \/ note[d] = "draft" /\ Creditable(d) /\ note' = [note EXCEPT ![d] = "live"]
     \/ note[d] = "live" /\ note' = [note EXCEPT ![d] = "none"]
  /\ UNCHANGED <<row, paid, offline, call, there, counted, history>>

\* updateSettings: the contingency starts and ends.
Offline ==
  /\ "offline" \in Operations /\ ~offline /\ offline' = TRUE
  /\ faults > 0 /\ faults' = faults - 1
  /\ UNCHANGED <<row, paid, note, call, there, voids, history>>

Online ==
  /\ offline /\ offline' = FALSE
  /\ UNCHANGED <<row, paid, note, call, there, counted, history>>

-----------------------------------------------------------------------------

Server(r) ==
  \/ Read(r) \/ Claim(r) \/ Apply(r) \/ Settle(r) \/ Reconcile(r)
  \/ Mark(r) \/ ReleaseMark(r) \/ Confirm(r)

Starts(r, d) == Send(r, d) \/ Retry(r, d) \/ Refresh(r, d) \/ Void(r, d)

Next ==
  \/ \E r \in Requests : Server(r) \/ Provider(r) \/ Unreachable(r) \/ Crash(r)
  \/ \E r \in Requests, d \in Docs : Starts(r, d)
  \/ \E d \in Docs : LeaseEnds(d) \/ Ages(d) \/ Sunat(d) \/ Pay(d) \/ Unpay(d) \/ Note(d)
  \/ Sweep \/ Offline \/ Online

Spec == Init /\ [][Next]_vars

\* The queue runs its job every fifteen minutes and at the start of a process,
\* leases end, a request ends, the PSE and SUNAT answer, a contingency ends.
Fairness ==
  /\ WF_vars(Sweep) /\ WF_vars(Online)
  /\ \A r \in Requests : WF_vars(Server(r)) /\ WF_vars(Provider(r))
  /\ \A d \in Docs : SF_vars(LeaseEnds(d)) /\ WF_vars(Sunat(d))

FairSpec == Spec /\ Fairness

-----------------------------------------------------------------------------
(* Properties.                                                              *)

Statuses == {"DRAFT", "REJECTED", "VOIDED"} \cup Alive
Ops      == {"none", "deliver", "refresh", "void"}
Phases   == {"none", "read", "offline", "claim", "calling", "answered", "asking-void", "settle",
             "reconciling", "reconcile", "mark", "voiding", "voided"}
Outcomes == {"none", "PENDING", "ACCEPTED", "REJECTED", "ERROR"}

CallType == [op : Ops, step : Phases, doc : Docs \cup {0}, query : BOOLEAN, seen : 0..voids,
             mine : 0..voids, answer : Outcomes, rest : SUBSET Docs]

\* Types; a document that was never issued has left no trace anywhere.
TypeOK ==
  /\ status \in [Docs -> Statuses]
  /\ tried \in [Docs -> BOOLEAN] /\ leased \in [Docs -> BOOLEAN] /\ old \in [Docs -> BOOLEAN]
  /\ mark \in [Docs -> 0..voids]
  /\ audit \in [Docs -> {"none", "REQUESTED", "RELEASED", "CONFLICT", "DONE"}]
  /\ paid \subseteq Docs /\ offline \in BOOLEAN
  /\ note \in [Docs -> {"none", "draft", "live"}]
  /\ call \in [Requests -> CallType]
  /\ known \in [Docs -> {"no", "pending", "accepted", "rejected"}]
  /\ baja \in [Docs -> {"no", "pending", "done", "refused"}]
  /\ voids \in Nat /\ faults \in Nat
  /\ erred \subseteq Docs /\ held \subseteq Docs /\ lost \subseteq Docs
  /\ late \subseteq Docs /\ undone \subseteq Docs
  /\ \A d \in Docs : status[d] = "DRAFT" => ~tried[d] /\ known[d] = "no" /\ mark[d] = 0

\* Two calls never send one document to the PSE at the same time (D-073, B-04).
OneSendAtATime ==
  \A r, s \in Requests, d \in Docs : Sending(r, d) /\ Sending(s, d) => r = s

\* What is accepted here is accepted by SUNAT; what is voided here was voided
\* there, or is being (D-072: nothing is declared that SUNAT did not say).
AcceptedThereToo ==
  \A d \in Docs :
    /\ status[d] \in {"ACCEPTED", "VOID_PENDING", "VOIDED"} => known[d] = "accepted"
    /\ status[d] = "VOIDED" => baja[d] # "no"

\* What the PSE holds is asked for, never sent again, though the process dies
\* between sending it and writing the answer: sent again it comes back as a
\* duplicate, and a document that SUNAT accepts stays rejected here (deliver).  A
\* document that was SEND_ERROR escapes it, and so does one that was consulted, which
\* claims nothing, before the PSE had it.
RejectedThereToo ==
  \A d \in Docs \ erred : status[d] = "REJECTED" => known[d] \notin {"pending", "accepted"}

\* A document that the PSE has answered that it holds is not sent again (deliver).
HeldIsNotSent ==
  \A r \in Requests, d \in held : Sending(r, d) => call[r].query

\* Documents whose void went its way unseen: the answer to it was lost, or what SUNAT
\* had said of an earlier one gave the document back.
Unseen == lost \cup undone

\* No credit note lives on a document that is voided or being voided (cc34), and
\* no payment but one registered while SUNAT was deciding, unless the void went unseen.
VoidedOwesNothing ==
  \A d \in Docs \ Unseen :
    /\ status[d] \in {"VOID_PENDING", "VOIDED"} => note[d] # "live"
    /\ status[d] \in {"VOID_PENDING", "VOIDED"} /\ d \in paid => d \in late

Registered(d) ==
  baja[d] \in {"pending", "done"} => status[d] \in {"VOID_PENDING", "VOIDED"}

\* A void that SUNAT has is in progress or done here, unless the answer to it was
\* lost: no consultation gives back a document whose void is on its way
\* (invoicing.service.ts:3418).
NeverGivenBack == \A d \in Docs \ lost : Registered(d)

\* A void that SUNAT has is in progress or done here (cc34): the only others are one of
\* which the answer was lost, and one given back by a consultation that had asked of
\* an earlier void of the document, refused.
VoidIsRegistered == \A d \in Docs \ Unseen : Registered(d)

\* Every document that was issued ends accepted or rejected (D-073).
SendsEnd == \A d \in Docs : status[d] \in Retryable ~> status[d] \notin Retryable
=============================================================================
