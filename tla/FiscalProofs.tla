---------------------------- MODULE FiscalProofs ----------------------------
(***************************************************************************)
(* The trip of a document to SUNAT, Fiscal.tla, for any number of          *)
(* documents, calls, voids and faults: its types, one sending at a time,   *)
(* nothing accepted, rejected or voided here that SUNAT did not, and no    *)
(* void at SUNAT of a document that is in force, or owed, here.  And the   *)
(* documents of an order, Billing.tla: notes credit no more than their     *)
(* invoice, and an order is invoiced for no more than it asks.             *)
(***************************************************************************)
EXTENDS Fiscal, Lemmas

-----------------------------------------------------------------------------
(* Types.                                                                   *)

\* A call that goes on is about a document that was issued, and so is what is
\* left of a sweep.
CallsOfIssued ==
  /\ \A r \in Requests : call[r].step # "none" => call[r].doc \in Docs
  /\ \A r \in Requests, d \in Docs :
       (call[r].doc = d \/ d \in call[r].rest) => status[d] # "DRAFT"

Typed == TypeOK /\ CallsOfIssued

\* What a call that is done goes on with.
LEMMA DoneShape ==
  ASSUME Typed, NEW r \in Requests, Done(r)
  PROVE  \E c \in CallType :
           /\ Goes(r, c)
           /\ c.step \in {"none", "read"} /\ c.op \in {"none", "deliver"}
           /\ c.answer = "none" /\ c.seen = 0 /\ c.mine = 0
           /\ c.doc \in call[r].rest \/ (c.doc = 0 /\ c.step = "none")
           /\ c.rest \subseteq call[r].rest
<1>1. call[r].rest \subseteq Docs /\ 0 \in 0..voids
  BY DEF Typed, TypeOK, CallType
<1>2. CASE call[r].rest = {}
  <2>1. NoCall \in CallType
    BY <1>1 DEF NoCall, Call, CallType, Ops, Phases, Outcomes
  <2>. QED
    BY <1>2, <2>1 DEF Done, NoCall, Call
<1>3. CASE call[r].rest # {}
  <2>1. PICK d \in call[r].rest : Goes(r, Delivery(d, call[r].rest \ {d}))
    BY <1>3 DEF Done
  <2>2. Delivery(d, call[r].rest \ {d}) \in CallType
    BY <1>1 DEF Delivery, Call, CallType, Ops, Phases, Outcomes
  <2>. QED
    BY <2>1, <2>2 DEF Delivery, Call
<1>. QED
  BY <1>2, <1>3

LEMMA InitTyped == FiscalAssumption /\ Init => Typed
<1>. SUFFICES ASSUME FiscalAssumption, Init PROVE Typed
  OBVIOUS
<1>1. NoCall \in CallType
  BY DEF Init, NoCall, Call, CallType, Ops, Phases, Outcomes
<1>2. TypeOK
  <2>1. voids \in Nat /\ faults \in Nat /\ mark \in [Docs -> 0..voids]
    BY DEF FiscalAssumption, Init
  <2>2. /\ status \in [Docs -> Statuses]
        /\ tried \in [Docs -> BOOLEAN] /\ leased \in [Docs -> BOOLEAN] /\ old \in [Docs -> BOOLEAN]
        /\ audit \in [Docs -> {"none", "REQUESTED", "RELEASED", "CONFLICT", "DONE"}]
        /\ note \in [Docs -> {"none", "draft", "live"}]
    BY DEF Init, Statuses
  <2>3. call \in [Requests -> CallType]
    BY <1>1 DEF Init
  <2>4. /\ known \in [Docs -> {"no", "pending", "accepted", "rejected"}]
        /\ baja \in [Docs -> {"no", "pending", "done", "refused"}]
        /\ paid \subseteq Docs /\ offline \in BOOLEAN
        /\ erred \subseteq Docs /\ held \subseteq Docs /\ lost \subseteq Docs
        /\ late \subseteq Docs /\ undone \subseteq Docs
        /\ \A d \in Docs : status[d] = "DRAFT" => ~tried[d] /\ known[d] = "no" /\ mark[d] = 0
    BY DEF Init
  <2>. QED
    BY <2>1, <2>2, <2>3, <2>4 DEF TypeOK
<1>3. CallsOfIssued
  BY DEF FiscalAssumption, Init, CallsOfIssued, NoCall, Call
<1>. QED
  BY <1>2, <1>3 DEF Typed

\* The types of what a call is, when it goes on with its document or with another.
LEMMA CallStays ==
  ASSUME Typed, NEW r \in Requests, NEW c \in CallType, Goes(r, c), voids' = voids
  PROVE  call' \in [Requests -> CallType]'
BY DEF Typed, TypeOK, Goes, CallType

LEMMA StepsShape ==
  ASSUME Typed, NEW r \in Requests, NEW s \in Phases, NEW a \in Outcomes, Steps(r, s, a)
  PROVE  \E c \in CallType :
           /\ Goes(r, c) /\ c.step = s /\ c.answer = a
           /\ c.op = call[r].op /\ c.doc = call[r].doc /\ c.rest = call[r].rest
           /\ c.query = call[r].query /\ c.mine = call[r].mine /\ c.seen = call[r].seen
<1>. DEFINE c == Call(call[r].op, s, call[r].doc, call[r].query, call[r].seen, call[r].mine, a,
                      call[r].rest)
<1>1. c \in CallType
  BY DEF Typed, TypeOK, Call, CallType
<1>2. Goes(r, c)
  BY DEF Steps
<1>. QED
  BY <1>1, <1>2 DEF Call

LEMMA SendTyped ==
  ASSUME FiscalAssumption, Typed, NEW r \in Requests, NEW d \in Docs, Send(r, d)
  PROVE  Typed'
<1>1. Delivery(d, {}) \in CallType
  BY DEF Typed, TypeOK, Delivery, Call, CallType, Ops, Phases, Outcomes
<1>2. call' \in [Requests -> CallType]'
  BY <1>1, CallStays DEF Send, counted
<1>3. TypeOK'
  BY <1>2 DEF Typed, TypeOK, Send, Moves, Statuses, Alive, Retryable, around, there, counted, history
<1>4. CallsOfIssued'
  BY DEF Typed, TypeOK, CallsOfIssued, Send, Moves, Goes, Delivery, Call
<1>. QED
  BY <1>3, <1>4 DEF Typed

\* A call begins on a document that was issued, and nothing else changes.
LEMMA BeginTyped ==
  ASSUME FiscalAssumption, Typed, NEW r \in Requests, NEW c \in CallType, Goes(r, c),
         c.doc \in Docs, \A d \in Docs : (c.doc = d \/ d \in c.rest) => status[d] # "DRAFT",
         UNCHANGED <<row, around, there, counted, history>>
  PROVE  Typed'
<1>1. call' \in [Requests -> CallType]'
  BY CallStays DEF counted
<1>2. TypeOK'
  BY <1>1 DEF Typed, TypeOK, row, around, there, counted, history, Statuses, Alive, Retryable
<1>3. CallsOfIssued'
  BY DEF Typed, TypeOK, CallsOfIssued, Goes, row
<1>. QED
  BY <1>2, <1>3 DEF Typed

LEMMA RetryTyped ==
  ASSUME FiscalAssumption, Typed, NEW r \in Requests, NEW d \in Docs, Retry(r, d)
  PROVE  Typed'
<1>1. Delivery(d, {}) \in CallType
  BY DEF Typed, TypeOK, Delivery, Call, CallType, Ops, Phases, Outcomes
<1>. QED
  BY <1>1, BeginTyped DEF Retry, Delivery, Call, Retryable

LEMMA SweepTyped ==
  ASSUME FiscalAssumption, Typed, Sweep
  PROVE  Typed'
<1>1. PICK d \in Oldest : Goes(Job, Delivery(d, Oldest \ {d}))
  BY DEF Sweep
<1>2. Oldest \subseteq Docs /\ \A e \in Oldest : status[e] # "DRAFT"
  BY DEF Oldest, Pending, Retryable
<1>3. Delivery(d, Oldest \ {d}) \in CallType
  BY <1>2 DEF Typed, TypeOK, Delivery, Call, CallType, Ops, Phases, Outcomes
<1>. QED
  BY <1>1, <1>2, <1>3, BeginTyped DEF Sweep, Delivery, Call

LEMMA RefreshTyped ==
  ASSUME FiscalAssumption, Typed, NEW r \in Requests, NEW d \in Docs, Refresh(r, d)
  PROVE  Typed'
<1>1. \A s \in Phases : Call("refresh", s, d, TRUE, mark[d], 0, "none", {}) \in CallType
  BY DEF Typed, TypeOK, Call, CallType, Ops, Outcomes
<1>2. PICK s \in Phases : Consult(r, d, s) /\ status[d] # "DRAFT"
  BY DEF Refresh, Phases
<1>. QED
  BY <1>1, <1>2, BeginTyped DEF Refresh, Consult, Call

\* A call ends, or a sweep goes on, and nothing else changes but the row.
LEMMA DoneTyped ==
  ASSUME FiscalAssumption, Typed, NEW r \in Requests, Done(r), UNCHANGED voids,
         \A d \in Docs : status'[d] = "DRAFT" => status[d] = "DRAFT"
  PROVE  /\ call' \in [Requests -> CallType]'
         /\ CallsOfIssued'
<1>1. PICK c \in CallType :
         /\ Goes(r, c)
         /\ c.doc \in call[r].rest \/ (c.doc = 0 /\ c.step = "none")
         /\ c.rest \subseteq call[r].rest
  BY DoneShape
<1>2. call' \in [Requests -> CallType]'
  BY <1>1, CallStays
<1>3. CallsOfIssued'
  BY <1>1 DEF FiscalAssumption, Typed, TypeOK, CallType, CallsOfIssued, Goes
<1>. QED
  BY <1>2, <1>3

\* A call goes on with its document.
LEMMA StepsTyped ==
  ASSUME FiscalAssumption, Typed, NEW r \in Requests, NEW s \in Phases, NEW a \in Outcomes,
         call[r].step # "none", Steps(r, s, a), UNCHANGED voids,
         \A d \in Docs : status'[d] = "DRAFT" => status[d] = "DRAFT"
  PROVE  /\ call' \in [Requests -> CallType]'
         /\ CallsOfIssued'
<1>1. PICK c \in CallType :
         Goes(r, c) /\ c.step = s /\ c.doc = call[r].doc /\ c.rest = call[r].rest
  BY StepsShape
<1>2. call' \in [Requests -> CallType]'
  BY <1>1, CallStays
<1>3. CallsOfIssued'
  BY <1>1 DEF FiscalAssumption, Typed, TypeOK, CallType, CallsOfIssued, Goes
<1>. QED
  BY <1>2, <1>3

LEMMA ReadTyped ==
  ASSUME FiscalAssumption, Typed, NEW r \in Requests, Read(r)
  PROVE  Typed'
<1>. DEFINE d == call[r].doc
<1>1. d \in Docs /\ UNCHANGED <<row, around, there, counted, history>>
  BY DEF Typed, CallsOfIssued, Read
<1>2. CASE status[d] \notin Retryable /\ Done(r)
  <2>1. call' \in [Requests -> CallType]' /\ CallsOfIssued'
    BY <1>1, <1>2, DoneTyped DEF row, counted
  <2>. QED
    BY <1>1, <2>1 DEF Typed, TypeOK, Statuses, Alive, Retryable, Moves, row, around, there, counted, history
<1>3. CASE Steps(r, "offline", "ERROR")
  <2>1. call' \in [Requests -> CallType]' /\ CallsOfIssued'
    BY <1>1, <1>3, StepsTyped DEF row, counted, Phases, Outcomes, Read
  <2>. QED
    BY <1>1, <2>1 DEF Typed, TypeOK, Statuses, Alive, Retryable, Moves, row, around, there, counted, history
<1>4. CASE Goes(r, Call("deliver", "claim", d, AtProvider(d), 0, 0, "none", call[r].rest))
  <2>1. AtProvider(d) \in BOOLEAN
    BY <1>1 DEF AtProvider, Typed, TypeOK
  <2>2. Call("deliver", "claim", d, AtProvider(d), 0, 0, "none", call[r].rest) \in CallType
    BY <1>1, <2>1 DEF Typed, TypeOK, Call, CallType, Ops, Phases, Outcomes
  <2>. QED
    BY <1>1, <1>4, <2>2, BeginTyped DEF Call, Typed, CallsOfIssued
<1>. QED
  BY <1>2, <1>3, <1>4 DEF Read


LEMMA ClaimTyped ==
  ASSUME FiscalAssumption, Typed, NEW r \in Requests, Claim(r)
  PROVE  Typed'
<1>. DEFINE d == call[r].doc
<1>1. d \in Docs /\ call[r].step # "none"
  BY DEF Typed, CallsOfIssued, Claim
<1>2. call' \in [Requests -> CallType]' /\ CallsOfIssued'
  BY <1>1, DoneTyped, StepsTyped DEF Claim, Phases, Outcomes, counted
<1>3. status[d] = "DRAFT" => UNCHANGED tried
  BY DEF Claim, MayClaim, Retryable
<1>4. tried' \in [Docs -> BOOLEAN] /\ leased' \in [Docs -> BOOLEAN]
  BY <1>1 DEF Claim, Typed, TypeOK
<1>5. UNCHANGED <<status, mark, audit, old, around, there, counted, history>>
  BY DEF Claim
<1>6. \A e \in Docs : status[e] = "DRAFT" => tried'[e] = tried[e]
  <2>1. tried \in [Docs -> BOOLEAN] BY DEF Typed, TypeOK
  <2>2. \A e \in Docs \ {d} : tried'[e] = tried[e] BY <2>1 DEF Claim
  <2> QED BY <1>1, <1>3, <2>2
<1>. QED
  BY <1>2, <1>4, <1>5, <1>6 DEF Typed, TypeOK, around, there, counted, history

LEMMA ApplyTyped ==
  ASSUME FiscalAssumption, Typed, NEW r \in Requests, Apply(r)
  PROVE  Typed'
<1>. DEFINE d == call[r].doc
<1>1. d \in Docs /\ d # 0 /\ status[d] # "DRAFT" /\ UNCHANGED voids
  BY DEF FiscalAssumption, Typed, CallsOfIssued, Apply, counted
<1>2. \A e \in Docs : status'[e] = "DRAFT" => status[e] = "DRAFT"
  BY <1>1 DEF Apply, Moves, Typed, TypeOK, ApplyTo, Outcome
<1>3. call' \in [Requests -> CallType]' /\ CallsOfIssued'
  BY <1>1, <1>2, DoneTyped, StepsTyped DEF Apply, Phases, Outcomes
<1>4. call[r] \in CallType
  BY DEF Typed, TypeOK
<1>. QED
  BY <1>1, <1>2, <1>3, <1>4 DEF Apply, CallType, Typed, TypeOK, Statuses, Alive, Retryable, Moves, row, around, there, counted, history, ApplyTo, Outcome


LEMMA SettleTyped ==
  ASSUME FiscalAssumption, Typed, NEW r \in Requests, Settle(r)
  PROVE  Typed'
<1>. DEFINE d == call[r].doc
<1>1. d \in Docs /\ d # 0 /\ status[d] # "DRAFT" /\ UNCHANGED voids
  BY DEF FiscalAssumption, Typed, CallsOfIssued, Settle, counted
<1>2. \A e \in Docs : status'[e] = "DRAFT" => status[e] = "DRAFT"
  BY <1>1 DEF Settle, Moves, Typed, TypeOK
<1>3. call' \in [Requests -> CallType]' /\ CallsOfIssued'
  BY <1>1, <1>2, DoneTyped, StepsTyped DEF Settle, Phases, Outcomes
<1>4. call[r] \in CallType
  BY DEF Typed, TypeOK
<1>5. status' \in [Docs -> Statuses]
  BY <1>1 DEF Settle, Moves, Typed, TypeOK, Statuses, Alive, Retryable
<1>6. mark' \in [Docs -> 0..voids]
  BY <1>1, <1>4 DEF Settle, Typed, TypeOK, CallType
<1>7. \A e \in Docs : status'[e] = "DRAFT" => mark'[e] = 0
  BY <1>1, <1>2 DEF Settle, Typed, TypeOK
<1>8. /\ audit' \in [Docs -> {"none", "REQUESTED", "RELEASED", "CONFLICT", "DONE"}]
      /\ old' \in [Docs -> BOOLEAN]
  BY <1>1 DEF Settle, Typed, TypeOK
<1>9. /\ UNCHANGED <<tried, leased, around, there, counted, erred, held, lost, late>>
      /\ undone' \subseteq Docs
  BY <1>1 DEF Settle, Typed, TypeOK
<1>. QED
  BY <1>1, <1>2, <1>3, <1>5, <1>6, <1>7, <1>8, <1>9 DEF Typed, TypeOK, around, there, counted


LEMMA ReconcileTyped ==
  ASSUME FiscalAssumption, Typed, NEW r \in Requests, Reconcile(r)
  PROVE  Typed'
<1>. DEFINE d == call[r].doc
<1>1. d \in Docs /\ d # 0 /\ status[d] # "DRAFT" /\ UNCHANGED voids
  BY DEF FiscalAssumption, Typed, CallsOfIssued, Reconcile, counted
<1>2. \A e \in Docs : status'[e] = "DRAFT" => status[e] = "DRAFT"
  BY <1>1 DEF Reconcile, Moves, Typed, TypeOK
<1>3. call' \in [Requests -> CallType]' /\ CallsOfIssued'
  BY <1>1, <1>2, DoneTyped, StepsTyped DEF Reconcile, Phases, Outcomes
<1>4. status' \in [Docs -> Statuses]
  BY DEF Reconcile, Moves, Typed, TypeOK, Statuses, Alive, Retryable
<1>5. UNCHANGED <<tried, leased, mark, audit, old, around, there, counted, history>>
  BY DEF Reconcile
<1>. QED
  BY <1>2, <1>3, <1>4, <1>5 DEF Typed, TypeOK, around, there, counted, history


LEMMA MarkTyped ==
  ASSUME FiscalAssumption, Typed, NEW r \in Requests, Mark(r)
  PROVE  Typed'
<1>. DEFINE d == call[r].doc
<1>1. d \in Docs /\ d # 0 /\ status[d] # "DRAFT" /\ UNCHANGED voids
  BY DEF FiscalAssumption, Typed, CallsOfIssued, Mark, counted
<1>2. \A e \in Docs : status'[e] = "DRAFT" => status[e] = "DRAFT"
  BY <1>1 DEF Mark, Moves, Typed, TypeOK
<1>3. call' \in [Requests -> CallType]' /\ CallsOfIssued'
  BY <1>1, <1>2, DoneTyped, StepsTyped DEF Mark, Phases, Outcomes
<1>4. call[r] \in CallType
  BY DEF Typed, TypeOK
<1>5. status' \in [Docs -> Statuses]
  BY <1>1 DEF Mark, Moves, Typed, TypeOK, Statuses, Alive, Retryable
<1>6. mark' \in [Docs -> 0..voids]
  BY <1>1, <1>4 DEF Mark, Typed, TypeOK, CallType
<1>7. \A e \in Docs : status'[e] = "DRAFT" => mark'[e] = 0
  BY <1>1, <1>2 DEF Mark, Typed, TypeOK
<1>8. /\ audit' \in [Docs -> {"none", "REQUESTED", "RELEASED", "CONFLICT", "DONE"}]
      /\ old' \in [Docs -> BOOLEAN]
  BY <1>1 DEF Mark, Typed, TypeOK
<1>9. UNCHANGED <<tried, leased, around, there, counted, history>>
  BY DEF Mark
<1>. QED
  BY <1>1, <1>2, <1>3, <1>5, <1>6, <1>7, <1>8, <1>9 DEF Typed, TypeOK, around, there, counted, history


LEMMA ReleaseMarkTyped ==
  ASSUME FiscalAssumption, Typed, NEW r \in Requests, ReleaseMark(r)
  PROVE  Typed'
<1>. DEFINE d == call[r].doc
<1>1. d \in Docs /\ d # 0 /\ status[d] # "DRAFT" /\ UNCHANGED voids
  BY DEF FiscalAssumption, Typed, CallsOfIssued, ReleaseMark, counted
<1>2. \A e \in Docs : status'[e] = "DRAFT" => status[e] = "DRAFT"
  BY <1>1 DEF ReleaseMark, Moves, Typed, TypeOK, Owns
<1>3. call' \in [Requests -> CallType]' /\ CallsOfIssued'
  BY <1>1, <1>2, DoneTyped, StepsTyped DEF ReleaseMark, Phases, Outcomes
<1>4. call[r] \in CallType
  BY DEF Typed, TypeOK
<1>5. status' \in [Docs -> Statuses]
  BY <1>1 DEF ReleaseMark, Moves, Typed, TypeOK, Statuses, Alive, Retryable
<1>6. mark' \in [Docs -> 0..voids]
  BY <1>1, <1>4 DEF ReleaseMark, Typed, TypeOK, CallType
<1>7. \A e \in Docs : status'[e] = "DRAFT" => mark'[e] = 0
  BY <1>1, <1>2 DEF ReleaseMark, Typed, TypeOK
<1>8. /\ audit' \in [Docs -> {"none", "REQUESTED", "RELEASED", "CONFLICT", "DONE"}]
      /\ old' \in [Docs -> BOOLEAN]
  BY <1>1 DEF ReleaseMark, Typed, TypeOK
<1>9. UNCHANGED <<tried, leased, around, there, counted, history>>
  BY DEF ReleaseMark
<1>. QED
  BY <1>1, <1>2, <1>3, <1>5, <1>6, <1>7, <1>8, <1>9 DEF Typed, TypeOK, around, there, counted, history


LEMMA ConfirmTyped ==
  ASSUME FiscalAssumption, Typed, NEW r \in Requests, Confirm(r)
  PROVE  Typed'
<1>. DEFINE d == call[r].doc
<1>1. d \in Docs /\ d # 0 /\ status[d] # "DRAFT" /\ UNCHANGED voids
  BY DEF FiscalAssumption, Typed, CallsOfIssued, Confirm, counted
<1>2. \A e \in Docs : status'[e] = "DRAFT" => status[e] = "DRAFT"
  BY <1>1 DEF Confirm, Moves, Typed, TypeOK, Owns
<1>3. call' \in [Requests -> CallType]' /\ CallsOfIssued'
  BY <1>1, <1>2, DoneTyped, StepsTyped DEF Confirm, Phases, Outcomes
<1>4. call[r] \in CallType
  BY DEF Typed, TypeOK
<1>5. status' \in [Docs -> Statuses]
  BY <1>1 DEF Confirm, Moves, Typed, TypeOK, Statuses, Alive, Retryable
<1>6. mark' \in [Docs -> 0..voids]
  BY <1>1, <1>4 DEF Confirm, Typed, TypeOK, CallType
<1>7. \A e \in Docs : status'[e] = "DRAFT" => mark'[e] = 0
  BY <1>1, <1>2 DEF Confirm, Typed, TypeOK
<1>8. /\ audit' \in [Docs -> {"none", "REQUESTED", "RELEASED", "CONFLICT", "DONE"}]
      /\ old' \in [Docs -> BOOLEAN]
  BY <1>1 DEF Confirm, Typed, TypeOK
<1>9. UNCHANGED <<tried, leased, around, there, counted, history>>
  BY DEF Confirm
<1>. QED
  BY <1>1, <1>2, <1>3, <1>5, <1>6, <1>7, <1>8, <1>9 DEF Typed, TypeOK, around, there, counted, history


\* The PSE and SUNAT only know documents that were issued.
LEMMA ProviderTyped ==
  ASSUME FiscalAssumption, Typed, NEW r \in Requests, Provider(r)
  PROVE  Typed'
<1>. DEFINE d == call[r].doc
<1>1. d \in Docs /\ status[d] # "DRAFT" /\ call[r].step # "none" /\ UNCHANGED <<voids, row, around>>
  BY DEF Typed, CallsOfIssued, Provider, Calling
<1>2. NextStep(r) \in Phases
  BY DEF NextStep, Phases
<1>3. PICK k \in {"no", "pending", "accepted", "rejected"},
           b \in {"no", "pending", "done", "refused"}, a \in {"PENDING", "ACCEPTED", "REJECTED"} :
        /\ known' = [known EXCEPT ![d] = k]
        /\ baja' = [baja EXCEPT ![d] = b]
        /\ erred' = IF call[r].op = "refresh" /\ k = "no" THEN erred \cup {d} ELSE erred
        /\ \/ Steps(r, NextStep(r), a) /\ UNCHANGED <<faults, lost>>
           \/ /\ faults > 0 /\ faults' = faults - 1
              /\ Steps(r, NextStep(r), "ERROR")
              /\ lost' = IF call[r].op = "void" THEN lost \cup {d} ELSE lost
  BY DEF Provider
<1>4. call' \in [Requests -> CallType]' /\ CallsOfIssued'
  BY <1>1, <1>2, <1>3, StepsTyped DEF Outcomes, row
<1>5. faults' \in Nat /\ lost' \subseteq Docs /\ erred' \subseteq Docs
  BY <1>1, <1>3 DEF Typed, TypeOK
<1>. QED
  BY <1>1, <1>3, <1>4, <1>5 DEF Provider, Typed, TypeOK, row, around, Statuses

LEMMA UnreachableTyped ==
  ASSUME FiscalAssumption, Typed, NEW r \in Requests, Unreachable(r)
  PROVE  Typed'
<1>1. call[r].step # "none" /\ UNCHANGED <<voids, row, around, there, history>>
  BY DEF Unreachable, Calling
<1>2. NextStep(r) \in Phases
  BY DEF NextStep, Phases
<1>3. call' \in [Requests -> CallType]' /\ CallsOfIssued'
  BY <1>1, <1>2, StepsTyped DEF Unreachable, Outcomes, row
<1>. QED
  BY <1>1, <1>3 DEF Unreachable, Typed, TypeOK, row, around, there, history, Statuses

LEMMA CrashTyped ==
  ASSUME FiscalAssumption, Typed, NEW r \in Requests, Crash(r)
  PROVE  Typed'
<1>1. NoCall \in CallType
  BY DEF Typed, TypeOK, NoCall, Call, CallType, Ops, Phases, Outcomes
<1>2. call' \in [Requests -> CallType]'
  BY <1>1, CallStays DEF Crash
<1>3. CallsOfIssued'
  BY DEF FiscalAssumption, Typed, TypeOK, CallsOfIssued, Crash, Goes, NoCall, Call, row
<1>4. lost' \subseteq Docs
  BY DEF Crash, Typed, TypeOK, CallsOfIssued
<1>. QED
  BY <1>2, <1>3, <1>4 DEF Crash, Typed, TypeOK, row, around, there, Statuses

LEMMA VoidTyped ==
  ASSUME FiscalAssumption, Typed, NEW r \in Requests, NEW d \in Docs, Void(r, d)
  PROVE  Typed'
<1>. DEFINE c == Call("void", "mark", d, status[d] = "VOID_PENDING", mark[d], voids + 1, "none", {})
<1>1. voids \in Nat /\ voids' = voids + 1
  BY DEF Typed, TypeOK, Void
<1>2. \A x \in 0..voids : x \in 0..voids'
  BY <1>1
<1>3. CallType \subseteq CallType' /\ c \in CallType'
  <2>1. CallType \subseteq CallType'
    BY <1>2 DEF CallType
  <2>2. voids + 1 \in 0..voids' /\ mark[d] \in 0..voids'
    BY <1>1, <1>2 DEF Typed, TypeOK
  <2>3. (status[d] = "VOID_PENDING") \in BOOLEAN
    OBVIOUS
  <2>4. c \in CallType'
    BY <2>2, <2>3 DEF Call, CallType, Ops, Phases, Outcomes
  <2>. QED
    BY <2>1, <2>4
<1>4. call' = [call EXCEPT ![r] = c]
  BY DEF Void, Goes
<1>5. call' \in [Requests -> CallType']
  BY <1>3, <1>4 DEF Typed, TypeOK
<1>6. CallsOfIssued'
  BY <1>4 DEF Typed, TypeOK, CallsOfIssued, Void, row, Call
<1>7. mark' \in [Docs -> 0..voids']
  BY <1>2 DEF Typed, TypeOK, Void, row
<1>. QED
  BY <1>1, <1>5, <1>6, <1>7 DEF Void, Typed, TypeOK, row, around, there, history, Statuses

\* What happens to a document without any call.
LEMMA AroundTyped ==
  ASSUME FiscalAssumption, Typed, NEW d \in Docs,
         LeaseEnds(d) \/ Ages(d) \/ Sunat(d) \/ Pay(d) \/ Unpay(d) \/ Note(d)
  PROVE  Typed'
<1>1. UNCHANGED <<status, call, voids, mark, tried>>
  BY DEF LeaseEnds, Ages, Sunat, Pay, Unpay, Note, row, counted
<1>2. CallsOfIssued' /\ call' \in [Requests -> CallType]'
  BY <1>1 DEF Typed, TypeOK, CallsOfIssued, CallType
<1>3. CASE LeaseEnds(d) \/ Ages(d)
  BY <1>1, <1>2, <1>3 DEF LeaseEnds, Ages, Typed, TypeOK, around, there, counted, history, Statuses
<1>4. CASE Sunat(d)
  BY <1>1, <1>2, <1>4 DEF Sunat, Typed, TypeOK, row, around, counted, history, Statuses
<1>5. CASE Pay(d) \/ Unpay(d) \/ Note(d)
  BY <1>1, <1>2, <1>5 DEF Pay, Unpay, Note, Typed, TypeOK, row, there, counted, history, Statuses
<1>. QED
  BY <1>3, <1>4, <1>5

LEMMA ContingencyTyped ==
  ASSUME FiscalAssumption, Typed, Offline \/ Online \/ UNCHANGED vars
  PROVE  Typed'
<1>1. UNCHANGED <<row, call, there, voids, history, paid, note>>
  BY DEF Offline, Online, vars, counted, around
<1>2. CallsOfIssued' /\ call' \in [Requests -> CallType]'
  BY <1>1 DEF Typed, TypeOK, CallsOfIssued, CallType, row
<1>3. offline' \in BOOLEAN /\ faults' \in Nat
  <2>1. offline' \in BOOLEAN
    BY DEF Typed, TypeOK, Offline, Online, vars, around
  <2>2. CASE Offline
    BY <2>2 DEF Typed, TypeOK, Offline
  <2>3. CASE Online \/ UNCHANGED vars
    <3>1. faults' = faults
      BY <2>3 DEF Online, vars, counted
    <3>. QED
      BY <2>1, <3>1 DEF Typed, TypeOK
  <2>. QED
    BY <2>1, <2>2, <2>3
<1>. QED
  BY <1>1, <1>2, <1>3 DEF Typed, TypeOK, row, there, history, Statuses

LEMMA StepTyped ==
  ASSUME FiscalAssumption, Typed, [Next]_vars
  PROVE  Typed'
BY SendTyped, RetryTyped, SweepTyped, RefreshTyped, ReadTyped, ClaimTyped, ApplyTyped, SettleTyped,
   ReconcileTyped, MarkTyped, ReleaseMarkTyped, ConfirmTyped, ProviderTyped, UnreachableTyped,
   CrashTyped, VoidTyped, AroundTyped, ContingencyTyped
   DEF Next, Server, Starts

\* Every reachable state has its types, and a document that was never issued has
\* left no trace: neither a number in the PSE, nor an attempt, nor a void.
THEOREM TypeCorrect ==
  ASSUME FiscalAssumption
  PROVE  Spec => []TypeOK
<1>1. Typed => TypeOK
  BY DEF Typed
<1>. QED
  BY <1>1, InitTyped, StepTyped, PTL DEF Spec

-----------------------------------------------------------------------------
(* One sending at a time.                                                   *)

\* Who speaks to the PSE to send a document, or to ask for it in its place, has
\* its lease.
Leased ==
  \A r \in Requests, d \in Docs : Sending(r, d) => leased[d]

SendInv == Typed /\ Leased /\ OneSendAtATime

\* Nobody sends what was not being sent.
NobodyElseSends ==
  \A r \in Requests, d \in Docs : Sending(r, d)' => Sending(r, d)

LEMMA QuietSteps ==
  ASSUME SendInv, NobodyElseSends, UNCHANGED leased
  PROVE  Leased' /\ OneSendAtATime'
BY DEF SendInv, NobodyElseSends, Leased, OneSendAtATime

\* A call whose next step is not one of a sending, or already was.
LEMMA GoesQuietly ==
  ASSUME Typed, NEW r \in Requests, NEW c, Goes(r, c),
         \A d \in Docs : c.op = "deliver" /\ c.doc = d /\ c.step \in {"calling", "answered"}
                          => Sending(r, d)
  PROVE  NobodyElseSends
BY DEF Typed, TypeOK, Goes, NobodyElseSends, Sending

LEMMA DoneQuietly ==
  ASSUME Typed, NEW r \in Requests, Done(r)
  PROVE  NobodyElseSends
<1>1. PICK c \in CallType : Goes(r, c) /\ c.step \in {"none", "read"}
  BY DoneShape
<1>. QED
  BY <1>1, GoesQuietly

LEMMA StepsQuietly ==
  ASSUME Typed, NEW r \in Requests, NEW s \in Phases, NEW a \in Outcomes, Steps(r, s, a),
         s \in {"calling", "answered"} =>
           call[r].op # "deliver" \/ call[r].step \in {"calling", "answered"}
  PROVE  NobodyElseSends
<1>1. PICK c \in CallType :
         Goes(r, c) /\ c.step = s /\ c.op = call[r].op /\ c.doc = call[r].doc
  BY StepsShape
<1>. QED
  BY <1>1, GoesQuietly DEF Sending

LEMMA ServerQuietly ==
  ASSUME Typed, NEW r \in Requests,
         Read(r) \/ Apply(r) \/ Settle(r) \/ Reconcile(r) \/ Mark(r) \/ ReleaseMark(r) \/ Confirm(r)
  PROVE  NobodyElseSends /\ UNCHANGED leased
<1>1. UNCHANGED leased
  BY DEF Read, Apply, Settle, Reconcile, Mark, ReleaseMark, Confirm, row
<1>2. CASE Done(r)
  BY <1>1, <1>2, DoneQuietly
<1>3. CASE Read(r) /\ ~Done(r)
  <2>1. CASE Steps(r, "offline", "ERROR")
    BY <1>1, <2>1, StepsQuietly DEF Phases, Outcomes
  <2>2. CASE Goes(r, Call("deliver", "claim", call[r].doc, AtProvider(call[r].doc), 0, 0, "none",
                          call[r].rest))
    BY <1>1, <2>2, GoesQuietly DEF Call
  <2>. QED
    BY <1>3, <2>1, <2>2 DEF Read
<1>4. CASE Mark(r) /\ ~Done(r)
  BY <1>1, <1>4, StepsQuietly DEF Mark, Phases, Outcomes
<1>. QED
  BY <1>2, <1>3, <1>4 DEF Apply, Settle, Reconcile, Mark, ReleaseMark, Confirm

LEMMA StartsQuietly ==
  ASSUME Typed, NEW r \in Requests, NEW d \in Docs, Starts(r, d)
  PROVE  NobodyElseSends /\ UNCHANGED leased
<1>1. UNCHANGED leased
  BY DEF Starts, Send, Retry, Refresh, Void, row
<1>2. CASE Goes(r, Delivery(d, {}))
  BY <1>1, <1>2, GoesQuietly DEF Delivery, Call
<1>3. CASE \E s \in Phases : Consult(r, d, s)
  BY <1>1, <1>3, GoesQuietly DEF Consult, Call
<1>4. CASE Void(r, d)
  BY <1>1, <1>4, GoesQuietly DEF Void, Call
<1>. QED
  BY <1>2, <1>3, <1>4 DEF Starts, Send, Retry, Refresh, Phases

LEMMA SweepQuietly ==
  ASSUME Typed, Sweep
  PROVE  NobodyElseSends /\ UNCHANGED leased
<1>1. PICK d \in Oldest : Goes(Job, Delivery(d, Oldest \ {d}))
  BY DEF Sweep
<1>. QED
  BY <1>1, GoesQuietly DEF Sweep, Delivery, Call, row

\* The PSE answers who was calling.
LEMMA OutsideQuietly ==
  ASSUME Typed, NEW r \in Requests, Provider(r) \/ Unreachable(r) \/ Crash(r)
  PROVE  NobodyElseSends /\ UNCHANGED leased
<1>1. UNCHANGED leased
  BY DEF Provider, Unreachable, Crash, row
<1>2. CASE Provider(r) \/ Unreachable(r)
  <2>1. PICK a \in Outcomes : Steps(r, NextStep(r), a)
    BY <1>2 DEF Provider, Unreachable, Outcomes
  <2>2. NextStep(r) \in Phases /\ (NextStep(r) \in {"calling", "answered"} => call[r].step = "calling")
    BY <1>2 DEF NextStep, Phases, Provider, Unreachable, Calling
  <2>. QED
    BY <1>1, <2>1, <2>2, StepsQuietly
<1>3. CASE Crash(r)
  BY <1>1, <1>3, GoesQuietly DEF Crash, NoCall, Call
<1>. QED
  BY <1>2, <1>3

\* The lease is taken by whom nobody sends before, and kept while it sends.
LEMMA ClaimSends ==
  ASSUME SendInv, NEW r \in Requests, Claim(r)
  PROVE  Leased' /\ OneSendAtATime'
<1>. DEFINE d == call[r].doc
<1>1. d \in Docs
  BY DEF SendInv, Typed, CallsOfIssued, Claim
<1>2. CASE ~MayClaim(d)
  BY <1>2, DoneQuietly, QuietSteps DEF SendInv, Claim
<1>3. CASE MayClaim(d)
  <2>1. ~leased[d] /\ leased' = [leased EXCEPT ![d] = TRUE]
    BY <1>3 DEF MayClaim, Claim
  <2>2. PICK c \in CallType : Goes(r, c) /\ c.doc = d
    <3>1. Typed /\ Steps(r, "calling", "none")
      BY <1>3 DEF Claim, SendInv
    <3>2. "calling" \in Phases /\ "none" \in Outcomes
      BY DEF Phases, Outcomes
    <3>. QED
      BY <3>1, <3>2, StepsShape
  <2>3. \A q \in Requests \ {r}, e \in Docs : Sending(q, e)' <=> Sending(q, e)
    BY <2>2 DEF SendInv, Typed, TypeOK, Goes, Sending
  <2>4. \A e \in Docs : Sending(r, e)' => e = d
    BY <2>2 DEF SendInv, Typed, TypeOK, Goes, Sending
  <2>5. \A q \in Requests : ~Sending(q, d)
    BY <1>1, <2>1 DEF SendInv, Leased
  <2>6. Leased'
    BY <1>1, <2>1, <2>3, <2>4 DEF SendInv, Typed, TypeOK, Leased
  <2>7. OneSendAtATime'
    BY <1>1, <2>3, <2>4, <2>5 DEF SendInv, OneSendAtATime
  <2>. QED
    BY <2>6, <2>7
<1>. QED
  BY <1>2, <1>3

\* And it ends when nobody sends.
LEMMA LeaseEndsSends ==
  ASSUME SendInv, NEW d \in Docs, LeaseEnds(d)
  PROVE  Leased' /\ OneSendAtATime'
<1>1. \A q \in Requests, e \in Docs : Sending(q, e)' <=> Sending(q, e)
  BY DEF LeaseEnds, Sending
<1>2. \A q \in Requests : ~Sending(q, d)
  BY DEF LeaseEnds, Delivering
<1>3. leased' = [leased EXCEPT ![d] = FALSE]
  BY DEF LeaseEnds
<1>. QED
  BY <1>1, <1>2, <1>3 DEF SendInv, Typed, TypeOK, Leased, OneSendAtATime

LEMMA SendStep ==
  ASSUME FiscalAssumption, SendInv, [Next]_vars
  PROVE  SendInv'
<1>1. Typed'
  BY StepTyped DEF SendInv
<1>2. CASE \E r \in Requests : Claim(r)
  BY <1>1, <1>2, ClaimSends DEF SendInv
<1>3. CASE \E d \in Docs : LeaseEnds(d)
  BY <1>1, <1>3, LeaseEndsSends DEF SendInv
<1>4. CASE \/ \E d \in Docs : Ages(d) \/ Sunat(d) \/ Pay(d) \/ Unpay(d) \/ Note(d)
           \/ Offline \/ Online \/ UNCHANGED vars
  <2>1. UNCHANGED <<call, leased>>
    BY <1>4 DEF Ages, Sunat, Pay, Unpay, Note, Offline, Online, vars, row
  <2>2. NobodyElseSends
    BY <2>1 DEF NobodyElseSends, Sending
  <2>. QED
    BY <1>1, <2>1, <2>2, QuietSteps DEF SendInv
<1>5. CASE \/ \E r \in Requests :
                \/ Read(r) \/ Apply(r) \/ Settle(r) \/ Reconcile(r) \/ Mark(r) \/ ReleaseMark(r)
                \/ Confirm(r) \/ Provider(r) \/ Unreachable(r) \/ Crash(r)
           \/ \E r \in Requests, d \in Docs : Starts(r, d)
           \/ Sweep
  <2>1. NobodyElseSends /\ UNCHANGED leased
    BY <1>5, ServerQuietly, OutsideQuietly, StartsQuietly, SweepQuietly DEF SendInv
  <2>. QED
    BY <1>1, <2>1, QuietSteps DEF SendInv
<1>. QED
  BY <1>2, <1>3, <1>4, <1>5 DEF Next, Server

\* However many persons and jobs retry a document, two never send it at once: who
\* sends has its lease, which nobody takes while it lasts.
THEOREM NobodySendsTwice ==
  ASSUME FiscalAssumption
  PROVE  Spec => []OneSendAtATime
<1>1. Init => SendInv
  <2>1. Init => \A r \in Requests : call[r].step = "none"
    BY DEF Init, NoCall, Call
  <2>. QED
    BY <2>1, InitTyped DEF SendInv, Leased, OneSendAtATime, Sending
<1>2. SendInv => OneSendAtATime
  BY DEF SendInv
<1>. QED
  BY <1>1, <1>2, SendStep, PTL DEF Spec

-----------------------------------------------------------------------------
(* What is accepted or voided here is so at SUNAT.                          *)

\* An answer that is still to be written says what the PSE knew, and SUNAT does
\* not go back on it.
AnswersAreTrue ==
  \A r \in Requests :
    call[r].answer = "ACCEPTED" =>
      /\ call[r].step \in {"answered", "offline"} => known[call[r].doc] = "accepted"
      /\ call[r].step \in {"settle", "reconcile", "voided"} => baja[call[r].doc] # "no"

TrueInv == Typed /\ AnswersAreTrue /\ AcceptedThereToo

SunatStands ==
  \A d \in Docs :
    /\ known[d] = "accepted" => known'[d] = "accepted"
    /\ baja[d] # "no" => baja'[d] # "no"

\* No call has a new answer that accepts.
NothingHeard ==
  \A r \in Requests : call'[r] = call[r] \/ call'[r].answer # "ACCEPTED"

LEMMA AnswersStayTrue ==
  ASSUME TrueInv, SunatStands, NothingHeard
  PROVE  AnswersAreTrue'
<1>. SUFFICES ASSUME NEW r \in Requests, (call[r].answer = "ACCEPTED")'
              PROVE  /\ (call[r].step \in {"answered", "offline"} => known[call[r].doc] = "accepted")'
                     /\ (call[r].step \in {"settle", "reconcile", "voided"} =>
                           baja[call[r].doc] # "no")'
  BY DEF AnswersAreTrue
<1>1. call'[r] = call[r]
  BY DEF NothingHeard
<1>2. call[r].step # "none" => call[r].doc \in Docs
  BY DEF TrueInv, Typed, CallsOfIssued
<1>. QED
  BY <1>1, <1>2 DEF TrueInv, AnswersAreTrue, SunatStands

LEMMA GoesUnheard ==
  ASSUME Typed, NEW r \in Requests, NEW c, Goes(r, c), c.answer # "ACCEPTED"
  PROVE  NothingHeard
BY DEF Typed, TypeOK, Goes, NothingHeard

LEMMA DoneUnheard ==
  ASSUME Typed, NEW r \in Requests, Done(r)
  PROVE  NothingHeard
<1>1. PICK c \in CallType : Goes(r, c) /\ c.answer = "none"
  BY DoneShape
<1>. QED
  BY <1>1, GoesUnheard

LEMMA StepsUnheard ==
  ASSUME Typed, NEW r \in Requests, NEW s \in Phases, NEW a \in Outcomes, Steps(r, s, a),
         a # "ACCEPTED"
  PROVE  NothingHeard
<1>1. PICK c \in CallType : Goes(r, c) /\ c.answer = a
  BY StepsShape
<1>. QED
  BY <1>1, GoesUnheard

\* Nobody hears an acceptance but from the PSE.
LEMMA OnlyTheProviderAccepts ==
  ASSUME FiscalAssumption, TrueInv, [Next]_vars, ~ \E r \in Requests : Provider(r)
  PROVE  NothingHeard
<1>. USE DEF TrueInv
<1>1. ASSUME NEW r \in Requests, Server(r) PROVE NothingHeard
  <2>1. CASE Done(r)
    BY <2>1, DoneUnheard
  <2>2. CASE Read(r) /\ ~Done(r)
    <3>1. CASE Steps(r, "offline", "ERROR")
      BY <3>1, StepsUnheard DEF Phases, Outcomes
    <3>2. CASE Goes(r, Call("deliver", "claim", call[r].doc, AtProvider(call[r].doc), 0, 0, "none",
                            call[r].rest))
      BY <3>2, GoesUnheard DEF Call
    <3>. QED
      BY <2>2, <3>1, <3>2 DEF Read
  <2>3. CASE Claim(r) /\ ~Done(r)
    BY <2>3, StepsUnheard DEF Claim, Phases, Outcomes
  <2>4. CASE Mark(r) /\ ~Done(r)
    BY <2>4, StepsUnheard DEF Mark, Phases, Outcomes
  <2>. QED
    BY <1>1, <2>1, <2>2, <2>3, <2>4 DEF Server, Apply, Settle, Reconcile, ReleaseMark, Confirm
<1>2. ASSUME NEW r \in Requests, NEW d \in Docs, Starts(r, d) PROVE NothingHeard
  <2>1. CASE Goes(r, Delivery(d, {}))
    BY <2>1, GoesUnheard DEF Delivery, Call
  <2>2. CASE \E s \in Phases : Consult(r, d, s)
    BY <2>2, GoesUnheard DEF Consult, Call
  <2>3. CASE Void(r, d)
    BY <2>3, GoesUnheard DEF Void, Call
  <2>. QED
    BY <1>2, <2>1, <2>2, <2>3 DEF Starts, Send, Retry, Refresh, Phases
<1>3. ASSUME NEW r \in Requests, Unreachable(r) \/ Crash(r) PROVE NothingHeard
  <2>1. NextStep(r) \in Phases
    BY DEF NextStep, Phases
  <2>2. CASE Unreachable(r)
    BY <2>1, <2>2, StepsUnheard DEF Unreachable, Outcomes
  <2>3. CASE Crash(r)
    BY <2>3, GoesUnheard DEF Crash, NoCall, Call
  <2>. QED
    BY <1>3, <2>2, <2>3
<1>4. ASSUME Sweep PROVE NothingHeard
  <2>1. PICK d \in Oldest : Goes(Job, Delivery(d, Oldest \ {d}))
    BY <1>4 DEF Sweep
  <2>. QED
    BY <1>4, <2>1, GoesUnheard DEF Sweep, Delivery, Call
<1>5. ASSUME \/ \E d \in Docs : LeaseEnds(d) \/ Ages(d) \/ Sunat(d) \/ Pay(d) \/ Unpay(d) \/ Note(d)
             \/ Offline \/ Online \/ UNCHANGED vars
      PROVE  NothingHeard
  BY <1>5 DEF LeaseEnds, Ages, Sunat, Pay, Unpay, Note, Offline, Online, vars, NothingHeard
<1>. QED
  BY <1>1, <1>2, <1>3, <1>4, <1>5 DEF Next

\* What a request to the PSE does there, and to the call that makes it.
Serving(r, k, b, a) ==
  /\ Serves(r, k, b, a)
  /\ known' = [known EXCEPT ![call[r].doc] = k] /\ baja' = [baja EXCEPT ![call[r].doc] = b]
  /\ erred' = IF call[r].op = "refresh" /\ k = "no" THEN erred \cup {call[r].doc} ELSE erred
  /\ \E x \in {a, "ERROR"} : Steps(r, NextStep(r), x)
  /\ \/ Steps(r, NextStep(r), a) /\ UNCHANGED lost
     \/ /\ Steps(r, NextStep(r), "ERROR")
        /\ lost' = IF call[r].op = "void" THEN lost \cup {call[r].doc} ELSE lost

LEMMA ProviderServes ==
  ASSUME NEW r \in Requests, Provider(r)
  PROVE  \E k \in {"no", "pending", "accepted", "rejected"},
            b \in {"no", "pending", "done", "refused"}, a \in {"PENDING", "ACCEPTED", "REJECTED"} :
           Serving(r, k, b, a)
<1>1. PICK k \in {"no", "pending", "accepted", "rejected"},
           b \in {"no", "pending", "done", "refused"}, a \in {"PENDING", "ACCEPTED", "REJECTED"} :
        /\ Serves(r, k, b, a)
        /\ known' = [known EXCEPT ![call[r].doc] = k]
        /\ baja' = [baja EXCEPT ![call[r].doc] = b]
        /\ erred' = IF call[r].op = "refresh" /\ k = "no" THEN erred \cup {call[r].doc} ELSE erred
        /\ \/ Steps(r, NextStep(r), a) /\ UNCHANGED <<faults, lost>>
           \/ /\ faults > 0 /\ faults' = faults - 1
              /\ Steps(r, NextStep(r), "ERROR")
              /\ lost' = IF call[r].op = "void" THEN lost \cup {call[r].doc} ELSE lost
  BY Zenon DEF Provider
<1>2. Serving(r, k, b, a)
  BY <1>1 DEF Serving
<1>. QED
  BY <1>2

\* SUNAT does not go back on what it accepted, nor the PSE on a void it has taken.
LEMMA NobodyGoesBack ==
  ASSUME FiscalAssumption, Typed, [Next]_vars
  PROVE  SunatStands
<1>1. ASSUME NEW r \in Requests, Provider(r) PROVE SunatStands
  <2>. DEFINE d == call[r].doc
  <2>1. PICK k \in {"no", "pending", "accepted", "rejected"},
           b \in {"no", "pending", "done", "refused"}, a \in {"PENDING", "ACCEPTED", "REJECTED"} :
          Serving(r, k, b, a)
    BY <1>1, ProviderServes
  <2>2. Serves(r, k, b, a) /\ known' = [known EXCEPT ![d] = k] /\ baja' = [baja EXCEPT ![d] = b]
    BY <2>1 DEF Serving
  <2>3. /\ known[d] = "accepted" => k = "accepted"
        /\ baja[d] # "no" => b # "no"
    BY <2>2 DEF Serves, SendsTo, VoidsTo
  <2>. QED
    BY <2>2, <2>3 DEF Typed, TypeOK, SunatStands
<1>2. ASSUME NEW d \in Docs, Sunat(d) PROVE SunatStands
  BY <1>2 DEF Sunat, Typed, TypeOK, SunatStands
<1>3. CASE UNCHANGED there
  BY <1>3 DEF there, SunatStands
<1>4. ASSUME NEW r \in Requests, Server(r) PROVE UNCHANGED there
  BY <1>4 DEF Server, Read, Claim, Apply, Settle, Reconcile, Mark, ReleaseMark, Confirm
<1>5. ASSUME NEW r \in Requests, NEW d \in Docs, Starts(r, d) PROVE UNCHANGED there
  BY <1>5 DEF Starts, Send, Retry, Refresh, Void
<1>6. ASSUME \/ \E r \in Requests : Unreachable(r) \/ Crash(r)
             \/ \E d \in Docs : LeaseEnds(d) \/ Ages(d) \/ Pay(d) \/ Unpay(d) \/ Note(d)
             \/ Sweep \/ Offline \/ Online \/ UNCHANGED vars
      PROVE  UNCHANGED there
  BY <1>6 DEF Unreachable, Crash, LeaseEnds, Ages, Pay, Unpay, Note, Sweep, Offline, Online, vars
<1>. QED
  BY <1>1, <1>2, <1>3, <1>4, <1>5, <1>6 DEF Next

\* What the PSE answers is what it knows.
LEMMA TheProviderTellsTheTruth ==
  ASSUME FiscalAssumption, TrueInv, NEW r \in Requests, Provider(r)
  PROVE  AnswersAreTrue'
<1>. DEFINE d == call[r].doc
<1>. USE DEF TrueInv
<1>1. PICK k \in {"no", "pending", "accepted", "rejected"},
         b \in {"no", "pending", "done", "refused"}, a \in {"PENDING", "ACCEPTED", "REJECTED"} :
        Serving(r, k, b, a)
  BY ProviderServes
<1>2. /\ Serves(r, k, b, a) /\ known' = [known EXCEPT ![d] = k] /\ baja' = [baja EXCEPT ![d] = b]
      /\ \E x \in {a, "ERROR"} : Steps(r, NextStep(r), x)
  BY <1>1 DEF Serving
<1>3. d \in Docs
  BY DEF Provider, Calling, Typed, CallsOfIssued
<1>4. PICK x \in {a, "ERROR"} : Steps(r, NextStep(r), x)
  BY <1>2
<1>5. PICK c \in CallType : Goes(r, c) /\ c.step = NextStep(r) /\ c.answer = x /\ c.doc = d
  <2>1. NextStep(r) \in Phases
    BY DEF NextStep, Phases
  <2>2. x \in Outcomes
    BY DEF Outcomes
  <2>. QED
    BY <1>4, <2>1, <2>2, StepsShape
<1>6. SunatStands
  BY NobodyGoesBack DEF Next
<1>7. a = "ACCEPTED" =>
        /\ NextStep(r) \in {"answered", "offline"} => k = "accepted"
        /\ NextStep(r) \in {"settle", "reconcile", "voided"} => b # "no"
  <2>1. CASE call[r].step = "calling" /\ ~call[r].query
    BY <1>2, <2>1 DEF Serves, SendsTo, NextStep
  <2>2. CASE call[r].step = "calling" /\ call[r].query
    BY <1>2, <2>2 DEF Serves, Answers, NextStep
  <2>3. CASE call[r].step = "voiding"
    BY <1>2, <2>3 DEF Serves, VoidsTo, NextStep
  <2>4. CASE call[r].step \in {"asking-void", "reconciling"}
    BY <1>2, <2>4 DEF Serves, Answers, NextStep
  <2>. QED
    BY <2>1, <2>2, <2>3, <2>4 DEF Provider, Calling
<1>8. known'[d] = k /\ baja'[d] = b
  BY <1>2, <1>3 DEF Typed, TypeOK
<1>9. SUFFICES ASSUME NEW q \in Requests, call'[q].answer = "ACCEPTED"
               PROVE  /\ call'[q].step \in {"answered", "offline"} => known'[call'[q].doc] = "accepted"
                      /\ call'[q].step \in {"settle", "reconcile", "voided"} => baja'[call'[q].doc] # "no"
  BY DEF AnswersAreTrue
<1>10. CASE q = r
  <2>1. call'[q] = c
    BY <1>5, <1>10 DEF Goes, Typed, TypeOK
  <2>. QED
    BY <1>5, <1>7, <1>8, <1>9, <2>1
<1>11. CASE q # r
  <2>1. call'[q] = call[q]
    BY <1>5, <1>11 DEF Goes, Typed, TypeOK
  <2>2. call[q].step # "none" => call[q].doc \in Docs
    BY DEF Typed, CallsOfIssued
  <2>. QED
    BY <1>6, <1>9, <2>1, <2>2 DEF AnswersAreTrue, SunatStands
<1>. QED
  BY <1>10, <1>11

\* A document that did not move, or moved to a status that SUNAT has no say in.
LEMMA StillThere ==
  ASSUME TrueInv, SunatStands,
         \A d \in Docs :
           \/ status'[d] = status[d]
           \/ status'[d] \notin {"ACCEPTED", "VOID_PENDING", "VOIDED"}
           \/ status'[d] \in {"ACCEPTED", "VOID_PENDING"} /\ known[d] = "accepted"
           \/ status'[d] = "VOIDED" /\ known[d] = "accepted" /\ baja[d] # "no"
  PROVE  AcceptedThereToo'
BY DEF TrueInv, AcceptedThereToo, SunatStands

LEMMA ServerWritesTheTruth ==
  ASSUME FiscalAssumption, TrueInv, NEW r \in Requests, Server(r)
  PROVE  AcceptedThereToo'
<1>. DEFINE d == call[r].doc
<1>. USE DEF TrueInv
<1>1. SunatStands
  BY NobodyGoesBack DEF Next
<1>2. d \in Docs
  BY DEF Server, Read, Claim, Apply, Settle, Reconcile, Mark, ReleaseMark, Confirm, Typed, CallsOfIssued
<1>3. \A e \in Docs \ {d} : status'[e] = status[e]
  BY <1>2 DEF Server, Read, Claim, Apply, ApplyTo, Settle, Reconcile, Mark, ReleaseMark, Confirm, Moves,
              row, Typed, TypeOK
<1>4. CASE Read(r) \/ Claim(r)
  <2>1. UNCHANGED status
    BY <1>4 DEF Read, Claim, row
  <2>. QED
    BY <1>1, <2>1, StillThere
<1>5. CASE Apply(r)
  <2>1. CASE call[r].answer = "ACCEPTED"
    <3>1. known[d] = "accepted"
      BY <1>5, <2>1 DEF Apply, AnswersAreTrue
    <3>. QED
      BY <1>1, <1>2, <1>3, <1>5, <2>1, <3>1, StillThere DEF Apply, ApplyTo, Outcome, Typed, TypeOK
  <2>2. CASE call[r].answer # "ACCEPTED"
    BY <1>1, <1>2, <1>3, <1>5, <2>2, StillThere DEF Apply, ApplyTo, Outcome, Typed, TypeOK
  <2>. QED
    BY <2>1, <2>2
<1>6. CASE Settle(r)
  <2>1. known[d] = "accepted" \/ status[d] # "VOID_PENDING"
    BY <1>2 DEF AcceptedThereToo
  <2>. QED
    BY <1>1, <1>2, <1>3, <1>6, <2>1, StillThere DEF Settle, Moves, AnswersAreTrue, Typed, TypeOK
<1>7. CASE Reconcile(r)
  <2>1. known[d] = "accepted" \/ status[d] # "ACCEPTED"
    BY <1>2 DEF AcceptedThereToo
  <2>. QED
    BY <1>1, <1>2, <1>3, <1>7, <2>1, StillThere DEF Reconcile, Moves, AnswersAreTrue, Typed, TypeOK
<1>8. CASE Mark(r)
  <2>1. known[d] = "accepted" \/ status[d] \notin {"ACCEPTED", "VOID_PENDING"}
    BY <1>2 DEF AcceptedThereToo
  <2>. QED
    BY <1>1, <1>2, <1>3, <1>8, <2>1, StillThere DEF Mark, StillVoidable, Moves, Typed, TypeOK
<1>9. CASE ReleaseMark(r)
  <2>1. known[d] = "accepted" \/ status[d] # "VOID_PENDING"
    BY <1>2 DEF AcceptedThereToo
  <2>. QED
    BY <1>1, <1>2, <1>3, <1>9, <2>1, StillThere DEF ReleaseMark, Owns, Moves, Typed, TypeOK
<1>10. CASE Confirm(r)
  <2>1. known[d] = "accepted" \/ status[d] # "VOID_PENDING"
    BY <1>2 DEF AcceptedThereToo
  <2>. QED
    BY <1>1, <1>2, <1>3, <1>10, <2>1, StillThere DEF Confirm, Owns, Moves, AnswersAreTrue, Typed, TypeOK
<1>. QED
  BY <1>4, <1>5, <1>6, <1>7, <1>8, <1>9, <1>10 DEF Server

LEMMA TrueStep ==
  ASSUME FiscalAssumption, TrueInv, [Next]_vars
  PROVE  TrueInv'
<1>. USE DEF TrueInv
<1>1. Typed' /\ SunatStands
  BY StepTyped, NobodyGoesBack
<1>2. AnswersAreTrue'
  BY <1>1, TheProviderTellsTheTruth, OnlyTheProviderAccepts, AnswersStayTrue
<1>3. AcceptedThereToo'
  <2>1. ASSUME NEW r \in Requests, NEW d \in Docs, Send(r, d) PROVE AcceptedThereToo'
    BY <1>1, <2>1, StillThere DEF Send, Moves, Typed, TypeOK
  <2>2. CASE UNCHANGED status
    BY <1>1, <2>2, StillThere
  <2>3. ASSUME NEW r \in Requests, NEW d \in Docs, Retry(r, d) \/ Refresh(r, d) \/ Void(r, d)
        PROVE  UNCHANGED status
    BY <2>3 DEF Retry, Refresh, Void, row
  <2>4. ASSUME NEW r \in Requests, Provider(r) \/ Unreachable(r) \/ Crash(r)
        PROVE  UNCHANGED status
    BY <2>4 DEF Provider, Unreachable, Crash, row
  <2>5. ASSUME \/ \E d \in Docs : LeaseEnds(d) \/ Ages(d) \/ Sunat(d) \/ Pay(d) \/ Unpay(d) \/ Note(d)
               \/ Sweep \/ Offline \/ Online \/ UNCHANGED vars
        PROVE  UNCHANGED status
    BY <2>5 DEF LeaseEnds, Ages, Sunat, Pay, Unpay, Note, Sweep, Offline, Online, vars, row
  <2>. QED
    BY ServerWritesTheTruth, <2>1, <2>2, <2>3, <2>4, <2>5 DEF Next, Starts
<1>. QED
  BY <1>1, <1>2, <1>3

\* Whatever is lost, repeated or late, and whoever dies, no document is accepted
\* here that SUNAT did not accept, nor voided without its void being there.
THEOREM NothingIsMadeUp ==
  ASSUME FiscalAssumption
  PROVE  Spec => []AcceptedThereToo
<1>1. Init => TrueInv
  <2>1. Init => /\ \A r \in Requests : call[r].answer = "none"
                /\ \A d \in Docs : status[d] = "DRAFT"
    BY DEF Init, NoCall, Call
  <2>. QED
    BY <2>1, InitTyped DEF TrueInv, AnswersAreTrue, AcceptedThereToo
<1>2. TrueInv => AcceptedThereToo
  BY DEF TrueInv
<1>. QED
  BY <1>1, <1>2, TrueStep, PTL DEF Spec

-----------------------------------------------------------------------------
(* What is rejected here is not alive at SUNAT.                             *)

\* Who sends without asking is a delivery.
CallsToSend ==
  \A r \in Requests :
    /\ call[r].step = "claim" => call[r].op = "deliver"
    /\ call[r].step = "calling" =>
         call[r].op = "deliver" \/ (call[r].op = "refresh" /\ call[r].query)

\* Whoever is about to send a document without asking has read that nobody had
\* tried, and nobody has since, or has the lease; the PSE does not know it.
SendsTheUnknown(d) ==
  /\ ~tried[d] => known[d] = "no"
  /\ \A r \in Requests :
       call[r].step = "claim" /\ call[r].doc = d /\ ~call[r].query => ~tried[d] \/ leased[d]
  /\ \A r \in Requests :
       call[r].step = "calling" /\ call[r].doc = d /\ ~call[r].query =>
         tried[d] /\ known[d] = "no" /\ status[d] # "REJECTED"

\* A rejection is SUNAT's, or of a document that never arrived, whose call still
\* has the lease or has ended.
RejectsTheDead(d) ==
  /\ status[d] # "SEND_ERROR"
  /\ status[d] = "REJECTED" => known[d] \in {"rejected", "no"}
  /\ \A r \in Requests :
       call[r].step \in {"answered", "offline"} /\ call[r].doc = d /\ call[r].answer = "REJECTED" =>
         known[d] = "rejected" \/ (call[r].op = "deliver" /\ call[r].step = "answered" /\ known[d] = "no")

RejectInv ==
  /\ SendInv /\ CallsToSend
  /\ \A d \in Docs \ erred : SendsTheUnknown(d) /\ RejectsTheDead(d)

\* A call that neither is about to send nor brings a rejection.
Harmless(c) ==
  /\ c.step # "claim"
  /\ c.step = "calling" => c.query /\ c.op = "refresh"
  /\ c.step \in {"answered", "offline"} => c.answer # "REJECTED"

\* A step that begins no sending, brings no rejection and writes none.
HarmlessStep ==
  /\ UNCHANGED <<known, tried, leased>> /\ erred \subseteq erred'
  /\ \A r \in Requests : call'[r] = call[r] \/ Harmless(call'[r])
  /\ \A d \in Docs \ erred' : status'[d] = status[d] \/ status'[d] \notin {"SEND_ERROR", "REJECTED"}

LEMMA HarmlessKeeps ==
  ASSUME RejectInv, HarmlessStep
  PROVE  /\ CallsToSend'
         /\ (\A d \in Docs \ erred : SendsTheUnknown(d) /\ RejectsTheDead(d))'
<1>1. CallsToSend'
  BY DEF RejectInv, CallsToSend, HarmlessStep, Harmless
<1>2. SUFFICES ASSUME NEW d \in Docs \ erred' PROVE SendsTheUnknown(d)' /\ RejectsTheDead(d)'
  BY <1>1
<1>3. SendsTheUnknown(d) /\ RejectsTheDead(d)
  BY DEF RejectInv, HarmlessStep
<1>4. SendsTheUnknown(d)'
  BY <1>3 DEF SendsTheUnknown, RejectsTheDead, HarmlessStep, Harmless
<1>5. RejectsTheDead(d)'
  BY <1>3 DEF RejectsTheDead, HarmlessStep, Harmless
<1>. QED
  BY <1>4, <1>5

LEMMA GoesHarmlessly ==
  ASSUME Typed, NEW r \in Requests, NEW c, Goes(r, c), Harmless(c)
  PROVE  \A q \in Requests : call'[q] = call[q] \/ Harmless(call'[q])
BY DEF Typed, TypeOK, Goes

LEMMA DoneHarmlessly ==
  ASSUME Typed, NEW r \in Requests, Done(r)
  PROVE  \A q \in Requests : call'[q] = call[q] \/ Harmless(call'[q])
<1>1. PICK c \in CallType : Goes(r, c) /\ c.step \in {"none", "read"}
  BY DoneShape
<1>. QED
  BY <1>1, GoesHarmlessly DEF Harmless

LEMMA StepsHarmlessly ==
  ASSUME Typed, NEW r \in Requests, NEW s \in Phases, NEW a \in Outcomes, Steps(r, s, a),
         s \notin {"claim", "calling"}, a # "REJECTED"
  PROVE  \A q \in Requests : call'[q] = call[q] \/ Harmless(call'[q])
<1>1. PICK c \in CallType : Goes(r, c) /\ c.step = s /\ c.answer = a
  BY StepsShape
<1>. QED
  BY <1>1, GoesHarmlessly DEF Harmless

\* What the calls do besides reading, claiming and writing an answer.
LEMMA MostStepsAreHarmless ==
  ASSUME Typed, [Next]_vars,
         ~ \E r \in Requests : Read(r) \/ Claim(r) \/ Apply(r) \/ Provider(r),
         ~ \E d \in Docs : LeaseEnds(d) \/ Sunat(d)
  PROVE  HarmlessStep
<1>1. ASSUME NEW r \in Requests, Settle(r) \/ Reconcile(r) \/ ReleaseMark(r) \/ Confirm(r)
      PROVE  HarmlessStep
  <2>1. Done(r)
    BY <1>1 DEF Settle, Reconcile, ReleaseMark, Confirm
  <2>2. \A d \in Docs : status'[d] = status[d] \/ status'[d] \notin {"SEND_ERROR", "REJECTED"}
    BY <1>1 DEF Settle, Reconcile, ReleaseMark, Confirm, Moves, Typed, TypeOK
  <2>3. UNCHANGED <<known, tried, leased, erred>>
    BY <1>1 DEF Settle, Reconcile, ReleaseMark, Confirm, there, history
  <2>. QED
    BY <2>1, <2>2, <2>3, DoneHarmlessly DEF HarmlessStep
<1>2. ASSUME NEW r \in Requests, Mark(r) PROVE HarmlessStep
  <2>1. \A q \in Requests : call'[q] = call[q] \/ Harmless(call'[q])
    BY <1>2, DoneHarmlessly, StepsHarmlessly DEF Mark, Phases, Outcomes
  <2>2. \A d \in Docs : status'[d] = status[d] \/ status'[d] \notin {"SEND_ERROR", "REJECTED"}
    BY <1>2 DEF Mark, Moves, Typed, TypeOK
  <2>. QED
    BY <1>2, <2>1, <2>2 DEF Mark, HarmlessStep, there, history
<1>3. ASSUME NEW r \in Requests, NEW d \in Docs, Starts(r, d) PROVE HarmlessStep
  <2>1. UNCHANGED <<known, tried, leased, erred>>
    BY <1>3 DEF Starts, Send, Retry, Refresh, Void, row, there, history
  <2>2. \A e \in Docs : status'[e] = status[e] \/ status'[e] \notin {"SEND_ERROR", "REJECTED"}
    BY <1>3 DEF Starts, Send, Retry, Refresh, Void, row, Moves, Typed, TypeOK
  <2>3. CASE Goes(r, Delivery(d, {}))
    BY <2>1, <2>2, <2>3, GoesHarmlessly DEF HarmlessStep, Harmless, Delivery, Call
  <2>4. CASE \E s \in {"asking-void", "reconciling", "calling"} : Consult(r, d, s)
    BY <2>1, <2>2, <2>4, GoesHarmlessly DEF HarmlessStep, Harmless, Consult, Call
  <2>5. CASE Void(r, d)
    <3>1. \A q \in Requests : call'[q] = call[q] \/ Harmless(call'[q])
      BY <2>5, GoesHarmlessly DEF Void, Harmless, Call
    <3>. QED
      BY <2>1, <2>2, <3>1 DEF HarmlessStep
  <2>. QED
    BY <1>3, <2>3, <2>4, <2>5 DEF Starts, Send, Retry, Refresh
<1>4. ASSUME NEW r \in Requests, Unreachable(r) \/ Crash(r) PROVE HarmlessStep
  <2>1. UNCHANGED <<known, tried, leased, erred, status>>
    BY <1>4 DEF Unreachable, Crash, row, there, history
  <2>2. NextStep(r) \in Phases \ {"claim", "calling"}
    BY DEF NextStep, Phases
  <2>3. \A q \in Requests : call'[q] = call[q] \/ Harmless(call'[q])
    <3>1. CASE Unreachable(r)
      BY <2>2, <3>1, StepsHarmlessly DEF Unreachable, Outcomes
    <3>2. CASE Crash(r)
      BY <3>2, GoesHarmlessly DEF Crash, Harmless, NoCall, Call
    <3>. QED
      BY <1>4, <3>1, <3>2
  <2>. QED
    BY <2>1, <2>3 DEF HarmlessStep
<1>5. ASSUME Sweep PROVE HarmlessStep
  <2>1. PICK d \in Oldest : Goes(Job, Delivery(d, Oldest \ {d}))
    BY <1>5 DEF Sweep
  <2>2. \A q \in Requests : call'[q] = call[q] \/ Harmless(call'[q])
    BY <1>5, <2>1, GoesHarmlessly DEF Sweep, Harmless, Delivery, Call
  <2>. QED
    BY <1>5, <2>2 DEF Sweep, HarmlessStep, row, there, history
<1>6. ASSUME \/ \E d \in Docs : Ages(d) \/ Pay(d) \/ Unpay(d) \/ Note(d)
             \/ Offline \/ Online \/ UNCHANGED vars
      PROVE  HarmlessStep
  <2>1. UNCHANGED <<known, tried, leased, erred, status, call>>
    BY <1>6 DEF Ages, Pay, Unpay, Note, Offline, Online, vars, row, there, history
  <2>. QED
    BY <2>1 DEF HarmlessStep
<1>. QED
  BY <1>1, <1>2, <1>3, <1>4, <1>5, <1>6 DEF Next, Server

\* What each step has to keep.
Rejections == CallsToSend /\ \A d \in Docs \ erred : SendsTheUnknown(d) /\ RejectsTheDead(d)

\* Who reads that nobody has tried is about to send what the PSE does not know.
LEMMA ReadRejects ==
  ASSUME RejectInv, NEW r \in Requests, Read(r)
  PROVE  Rejections'
<1>. DEFINE d == call[r].doc
<1>. USE DEF RejectInv, SendInv
<1>1. UNCHANGED <<status, known, tried, leased, erred>>
  BY DEF Read, row, there, history
<1>2. CASE Done(r)
  BY <1>1, <1>2, DoneHarmlessly, HarmlessKeeps DEF HarmlessStep, Rejections
<1>3. CASE Steps(r, "offline", "ERROR")
  BY <1>1, <1>3, StepsHarmlessly, HarmlessKeeps DEF HarmlessStep, Rejections, Phases, Outcomes
<1>4. CASE /\ status[d] \in Retryable
           /\ Goes(r, Call("deliver", "claim", d, AtProvider(d), 0, 0, "none", call[r].rest))
  <2>. DEFINE c == Call("deliver", "claim", d, AtProvider(d), 0, 0, "none", call[r].rest)
  <2>1. \A q \in Requests : call'[q] = IF q = r THEN c ELSE call[q]
    BY <1>4 DEF Goes, Typed, TypeOK
  <2>2. /\ c.op = "deliver" /\ c.step = "claim" /\ c.doc = d
        /\ c.query <=> AtProvider(d)
    BY DEF Call
  <2>. HIDE DEF c
  <2>3. CallsToSend'
    BY <2>1, <2>2 DEF CallsToSend
  <2>4. ASSUME NEW e \in Docs \ erred PROVE SendsTheUnknown(e)' /\ RejectsTheDead(e)'
    <3>1. SendsTheUnknown(e) /\ RejectsTheDead(e)
      OBVIOUS
    <3>2. ~AtProvider(e) /\ status[e] \in Retryable => ~tried[e]
      BY <3>1 DEF RejectsTheDead, AtProvider, Retryable
    <3>3. SendsTheUnknown(e)'
      BY <1>1, <1>4, <2>1, <2>2, <3>1, <3>2 DEF SendsTheUnknown
    <3>4. RejectsTheDead(e)'
      BY <1>1, <2>1, <2>2, <3>1 DEF RejectsTheDead
    <3>. QED
      BY <3>3, <3>4
  <2>. QED
    BY <1>1, <2>3, <2>4 DEF Rejections
<1>. QED
  BY <1>2, <1>3, <1>4 DEF Read

\* Who claims is the first to try, or asks.
LEMMA ClaimRejects ==
  ASSUME RejectInv, NEW r \in Requests, Claim(r)
  PROVE  Rejections'
<1>. DEFINE d == call[r].doc
<1>. USE DEF RejectInv, SendInv
<1>1. UNCHANGED <<status, known, erred>>
  BY DEF Claim, there, history
<1>2. CASE Done(r) /\ UNCHANGED <<tried, leased>>
  BY <1>1, <1>2, DoneHarmlessly, HarmlessKeeps DEF HarmlessStep, Rejections
<1>3. CASE /\ MayClaim(d) /\ leased' = [leased EXCEPT ![d] = TRUE]
           /\ tried' = [tried EXCEPT ![d] = @ \/ ~call[r].query]
           /\ Steps(r, "calling", "none")
  <2>1. d \in Docs /\ call[r].step = "claim"
    BY DEF Claim, Typed, CallsOfIssued
  <2>2. /\ \A e \in Docs : leased'[e] <=> leased[e] \/ e = d
        /\ \A e \in Docs : tried'[e] <=> tried[e] \/ (e = d /\ ~call[r].query)
    BY <1>3, <2>1 DEF Typed, TypeOK
  <2>3. \A q \in Requests \ {r} : call'[q] = call[q]
    BY <1>3 DEF Steps, Goes, Typed, TypeOK
  <2>4. /\ call'[r].op = call[r].op /\ call'[r].step = "calling" /\ call'[r].doc = d
        /\ call'[r].query = call[r].query
    BY <1>3 DEF Steps, Goes, Call, Typed, TypeOK
  <2>5. CallsToSend'
    BY <2>1, <2>3, <2>4 DEF CallsToSend
  <2>6. ASSUME NEW e \in Docs \ erred PROVE SendsTheUnknown(e)' /\ RejectsTheDead(e)'
    <3>1. SendsTheUnknown(e) /\ RejectsTheDead(e)
      OBVIOUS
    <3>2. ~leased[d] /\ status[d] # "REJECTED"
      BY <1>3 DEF MayClaim, Retryable
    <3>3. SendsTheUnknown(e)'
      BY <1>1, <2>1, <2>2, <2>3, <2>4, <3>1, <3>2 DEF SendsTheUnknown
    <3>4. RejectsTheDead(e)'
      BY <1>1, <2>3, <2>4, <3>1 DEF RejectsTheDead
    <3>. QED
      BY <3>3, <3>4
  <2>. QED
    BY <1>1, <2>5, <2>6 DEF Rejections
<1>. QED
  BY <1>2, <1>3 DEF Claim

\* A rejection that is written is SUNAT's, or nobody else is sending the document.
LEMMA ApplyRejects ==
  ASSUME RejectInv, NEW r \in Requests, Apply(r)
  PROVE  Rejections'
<1>. DEFINE d == call[r].doc
<1>. USE DEF RejectInv, SendInv
<1>1. UNCHANGED <<known, tried, leased>>
  BY DEF Apply, there
<1>2. d \in Docs
  BY DEF Apply, Typed, CallsOfIssued
<1>3. /\ \A e \in Docs \ {d} : status'[e] = status[e]
      /\ status'[d] = IF status[d] \in Retryable /\ Outcome(call[r].answer) # "same"
                      THEN Outcome(call[r].answer) ELSE status[d]
      /\ erred' = IF status'[d] = "SEND_ERROR" THEN erred \cup {d} ELSE erred
  BY <1>2 DEF Apply, ApplyTo, Typed, TypeOK
<1>4. PICK c \in CallType : Goes(r, c) /\ c.step \in {"none", "read"}
  BY DoneShape DEF Apply
<1>5. \A q \in Requests : call'[q] = IF q = r THEN c ELSE call[q]
  BY <1>4 DEF Goes, Typed, TypeOK
<1>6. CallsToSend'
  BY <1>4, <1>5 DEF CallsToSend
<1>7. ASSUME NEW e \in Docs \ erred' PROVE SendsTheUnknown(e)' /\ RejectsTheDead(e)'
  <2>1. SendsTheUnknown(e) /\ RejectsTheDead(e)
    BY <1>3
  <2>2. CASE status'[e] # "REJECTED" \/ status'[e] = status[e]
    <3>1. status'[e] # "SEND_ERROR"
      BY <1>3, <2>1 DEF RejectsTheDead
    <3>2. SendsTheUnknown(e)'
      BY <1>1, <1>4, <1>5, <2>1, <2>2 DEF SendsTheUnknown
    <3>3. RejectsTheDead(e)'
      BY <1>1, <1>4, <1>5, <2>1, <2>2, <3>1 DEF RejectsTheDead
    <3>. QED
      BY <3>2, <3>3
  <2>3. CASE status'[e] = "REJECTED" /\ status'[e] # status[e]
    <3>1. e = d /\ call[r].answer = "REJECTED"
      BY <1>3, <2>3 DEF Outcome
    <3>2. known[d] = "rejected" \/ (Sending(r, d) /\ known[d] = "no")
      BY <2>1, <3>1 DEF Apply, RejectsTheDead, Sending
    <3>3. ASSUME NEW q \in Requests \ {r}
          PROVE  ~(call[q].step = "calling" /\ call[q].doc = d /\ ~call[q].query)
      <4>1. SUFFICES ASSUME call[q].step = "calling", call[q].doc = d, ~call[q].query
                     PROVE  FALSE
        OBVIOUS
      <4>2. Sending(q, d) /\ known[d] = "no"
        BY <2>1, <3>1, <4>1 DEF CallsToSend, SendsTheUnknown, Sending
      <4>. QED
        BY <1>2, <3>2, <4>2 DEF OneSendAtATime
    <3>4. SendsTheUnknown(e)'
      BY <1>1, <1>4, <1>5, <2>1, <3>1, <3>3 DEF SendsTheUnknown
    <3>5. RejectsTheDead(e)'
      BY <1>1, <1>4, <1>5, <2>1, <2>3, <3>1, <3>2 DEF RejectsTheDead
    <3>. QED
      BY <3>4, <3>5
  <2>. QED
    BY <2>2, <2>3
<1>. QED
  BY <1>6, <1>7 DEF Rejections

\* The PSE is told of a document by the only one who is sending it.
LEMMA ProviderRejects ==
  ASSUME RejectInv, NEW r \in Requests, Provider(r)
  PROVE  Rejections'
<1>. DEFINE d == call[r].doc
<1>1. PICK k \in {"no", "pending", "accepted", "rejected"},
         b \in {"no", "pending", "done", "refused"}, a \in {"PENDING", "ACCEPTED", "REJECTED"} :
        Serving(r, k, b, a)
  BY ProviderServes
<1>2. /\ Serves(r, k, b, a) /\ known' = [known EXCEPT ![d] = k]
      /\ erred' = IF call[r].op = "refresh" /\ k = "no" THEN erred \cup {d} ELSE erred
      /\ \E x \in {a, "ERROR"} : Steps(r, NextStep(r), x)
  BY <1>1 DEF Serving
<1>. USE DEF RejectInv, SendInv
<1>3. UNCHANGED <<status, tried, leased>>
  BY DEF Provider, row
<1>4. d \in Docs
  BY DEF Provider, Calling, Typed, CallsOfIssued
<1>5. PICK x \in {a, "ERROR"} : Steps(r, NextStep(r), x)
  BY <1>2
<1>6. NextStep(r) \in Phases \ {"claim", "calling"} /\ x \in Outcomes
  BY DEF NextStep, Phases, Outcomes
<1>7. /\ \A q \in Requests \ {r} : call'[q] = call[q]
      /\ call'[r].op = call[r].op /\ call'[r].doc = d /\ call'[r].answer = x
      /\ call'[r].step = NextStep(r)
  BY <1>5 DEF Steps, Goes, Call, Typed, TypeOK
<1>8. known'[d] = k /\ \A e \in Docs \ {d} : known'[e] = known[e]
  BY <1>2, <1>4 DEF Typed, TypeOK
<1>9. CallsToSend'
  BY <1>6, <1>7 DEF CallsToSend
<1>10. ASSUME NEW e \in Docs \ erred' PROVE SendsTheUnknown(e)' /\ RejectsTheDead(e)'
  <2>1. SendsTheUnknown(e) /\ RejectsTheDead(e)
    BY <1>2
  <2>2. CASE e # d
    <3>1. SendsTheUnknown(e)'
      BY <1>3, <1>7, <1>8, <2>1, <2>2 DEF SendsTheUnknown
    <3>2. RejectsTheDead(e)'
      BY <1>3, <1>7, <1>8, <2>1, <2>2 DEF RejectsTheDead
    <3>. QED
      BY <3>1, <3>2
  <2>3. CASE e = d /\ ~(call[r].step = "calling" /\ ~call[r].query)
    <3>1. k = known[d]
      BY <1>2, <2>3 DEF Serves
    <3>2. x = "REJECTED" /\ NextStep(r) \in {"answered", "offline"} =>
            k = "rejected" \/ (k = "no" /\ call[r].op = "deliver" /\ NextStep(r) = "answered")
      <4>1. CASE call[r].step = "calling"
        <5>1. a = Answers(k)
          BY <1>2, <2>3, <4>1 DEF Serves
        <5>2. k = "no" => call[r].op = "deliver"
          BY <1>2, <2>3, <4>1 DEF CallsToSend
        <5>. QED
          BY <4>1, <5>1, <5>2 DEF Answers, NextStep
      <4>2. CASE call[r].step # "calling"
        BY <4>2 DEF Provider, Calling, NextStep
      <4>. QED
        BY <4>1, <4>2
    <3>3. SendsTheUnknown(e)'
      BY <1>3, <1>6, <1>7, <1>8, <2>1, <2>3, <3>1 DEF SendsTheUnknown
    <3>4. RejectsTheDead(e)'
      BY <1>3, <1>7, <1>8, <2>1, <2>3, <3>1, <3>2 DEF RejectsTheDead
    <3>. QED
      BY <3>3, <3>4
  <2>4. CASE e = d /\ call[r].step = "calling" /\ ~call[r].query
    <3>1. tried[d] /\ known[d] = "no" /\ status[d] # "REJECTED"
      BY <2>1, <2>4 DEF SendsTheUnknown
    <3>2. a = "REJECTED" => k = "rejected"
      BY <1>2, <2>4, <3>1 DEF Serves, SendsTo
    <3>3. Sending(r, d)
      BY <2>4 DEF CallsToSend, Sending
    <3>4. \A q \in Requests \ {r} : ~Sending(q, d)
      BY <1>4, <3>3 DEF OneSendAtATime
    <3>5. ASSUME NEW q \in Requests \ {r}, call[q].doc = d
          PROVE  /\ ~(call[q].step = "calling" /\ ~call[q].query)
                 /\ ~(call[q].step \in {"answered", "offline"} /\ call[q].answer = "REJECTED")
      BY <2>1, <2>4, <3>1, <3>4, <3>5 DEF CallsToSend, RejectsTheDead, Sending
    <3>6. SendsTheUnknown(e)'
      BY <1>3, <1>6, <1>7, <1>8, <2>1, <2>4, <3>1, <3>5 DEF SendsTheUnknown
    <3>7. RejectsTheDead(e)'
      BY <1>3, <1>7, <1>8, <2>1, <2>4, <3>1, <3>2, <3>5 DEF RejectsTheDead
    <3>. QED
      BY <3>6, <3>7
  <2>. QED
    BY <2>2, <2>3, <2>4
<1>. QED
  BY <1>9, <1>10 DEF Rejections

\* A lease ends when nobody is about to send, and SUNAT only decides what it has.
LEMMA LeasesAndSunatReject ==
  ASSUME RejectInv, NEW d \in Docs, LeaseEnds(d) \/ Sunat(d)
  PROVE  Rejections'
<1>. USE DEF RejectInv, SendInv
<1>1. UNCHANGED <<status, tried, call, erred>>
  BY DEF LeaseEnds, Sunat, row, counted, history
<1>2. CallsToSend'
  BY <1>1 DEF CallsToSend
<1>3. ASSUME NEW e \in Docs \ erred PROVE SendsTheUnknown(e)' /\ RejectsTheDead(e)'
  <2>1. SendsTheUnknown(e) /\ RejectsTheDead(e)
    OBVIOUS
  <2>2. CASE LeaseEnds(d)
    <3>1. known' = known /\ \A f \in Docs \ {d} : leased'[f] = leased[f]
      BY <2>2 DEF LeaseEnds, there, Typed, TypeOK
    <3>2. \A r \in Requests : ~(call[r].step = "claim" /\ call[r].doc = d)
      BY <2>2 DEF LeaseEnds, Delivering
    <3>3. SendsTheUnknown(e)'
      BY <1>1, <2>1, <3>1, <3>2 DEF SendsTheUnknown
    <3>4. RejectsTheDead(e)'
      BY <1>1, <2>1, <3>1 DEF RejectsTheDead
    <3>. QED
      BY <3>3, <3>4
  <2>3. CASE Sunat(d)
    <3>1. leased' = leased
      BY <2>3 DEF Sunat, row
    <3>2. known'[e] = known[e] \/ known[e] = "pending"
      BY <2>3 DEF Sunat, Typed, TypeOK
    <3>3. SendsTheUnknown(e)'
      BY <1>1, <2>1, <3>1, <3>2 DEF SendsTheUnknown
    <3>4. RejectsTheDead(e)'
      BY <1>1, <2>1, <3>2 DEF RejectsTheDead
    <3>. QED
      BY <3>3, <3>4
  <2>. QED
    BY <2>2, <2>3
<1>. QED
  BY <1>1, <1>2, <1>3 DEF Rejections

LEMMA RejectStep ==
  ASSUME FiscalAssumption, RejectInv, [Next]_vars
  PROVE  RejectInv'
<1>1. SendInv'
  BY SendStep DEF RejectInv
<1>2. ASSUME NEW r \in Requests, Read(r) \/ Claim(r) \/ Apply(r) \/ Provider(r)
      PROVE  Rejections'
  BY <1>2, ReadRejects, ClaimRejects, ApplyRejects, ProviderRejects
<1>3. ASSUME NEW d \in Docs, LeaseEnds(d) \/ Sunat(d) PROVE Rejections'
  BY <1>3, LeasesAndSunatReject
<1>4. ASSUME ~ \E r \in Requests : Read(r) \/ Claim(r) \/ Apply(r) \/ Provider(r),
             ~ \E d \in Docs : LeaseEnds(d) \/ Sunat(d)
      PROVE  Rejections'
  BY <1>4, MostStepsAreHarmless, HarmlessKeeps DEF RejectInv, SendInv, Rejections
<1>5. Rejections'
  BY <1>2, <1>3, <1>4
<1>. QED
  BY <1>1, <1>5 DEF RejectInv, Rejections

\* A document that was never in error is sent once in its life, though whoever sends
\* it dies and another takes it up: so a rejection that is written is SUNAT's own.
THEOREM NothingAliveIsRejected ==
  ASSUME FiscalAssumption
  PROVE  Spec => []RejectedThereToo
<1>1. Init => RejectInv
  <2>1. Init => /\ \A r \in Requests : call[r].step = "none"
                /\ \A d \in Docs : status[d] = "DRAFT" /\ known[d] = "no"
    BY DEF Init, NoCall, Call
  <2>2. Init => SendInv
    BY <2>1, InitTyped DEF SendInv, Leased, OneSendAtATime, Sending
  <2>. QED
    BY <2>1, <2>2 DEF RejectInv, CallsToSend, SendsTheUnknown, RejectsTheDead
<1>2. RejectInv => RejectedThereToo
  BY DEF RejectInv, RejectsTheDead, RejectedThereToo
<1>. QED
  BY <1>1, <1>2, RejectStep, PTL DEF Spec
-----------------------------------------------------------------------------
(* Voids.  A void is marked here, asked of SUNAT, and then confirmed or     *)
(* released; who hears SUNAT's answer to an old one has seen another mark.  *)

AtVoid(r, d)     == call[r].step \in {"voiding", "voided"} /\ call[r].doc = d
AsksOfVoid(r, d) == call[r].step \in {"asking-void", "settle"} /\ call[r].doc = d
Communicated(d)  == baja[d] \in {"pending", "done"}

\* The steps of a void are of a void call, those of a consultation of a consultation.
Sorted(c) ==
  /\ c.step \in {"mark", "voiding", "voided"} => c.op = "void"
  /\ c.step \in {"asking-void", "settle", "reconciling", "reconcile"} => c.op = "refresh"

CallSorts == \A r \in Requests : Sorted(call[r])

\* A void in progress that was requested and not closed is in the hands of its call.
Requested(d) ==
  audit[d] = "REQUESTED" /\ status[d] = "VOID_PENDING" =>
    ~old[d] /\ \E r \in Requests : AtVoid(r, d)

\* Whoever voids a document has it alone: the mark is its own, whoever still asks of
\* a void asks of an earlier one, and SUNAT has heard nothing until the answer says so.
VoidsAlone(r, d) ==
  AtVoid(r, d) =>
    /\ audit[d] = "REQUESTED" /\ status[d] \in {"VOID_PENDING", "VOIDED"} /\ mark[d] = call[r].mine
    /\ \A s \in Requests :
         (AtVoid(s, d) => s = r) /\ (AsksOfVoid(s, d) => call[s].seen # mark[d])
    /\ (call[r].step = "voiding" \/ call[r].answer \in {"ERROR", "REJECTED"}) =>
         status[d] = "VOID_PENDING" /\ ~Communicated(d)

\* No orphan is retried; a refusal of the void that is marked, or the end of a void, that
\* a consultation heard of still stands.
HeardRight(c, d) ==
  /\ (c.step = "mark" /\ c.doc = d) => ~c.query
  /\ (c.step = "settle" /\ c.doc = d /\ c.answer = "REJECTED" /\ c.seen = mark[d]) =>
       ~Communicated(d)
  /\ (c.step \in {"settle", "reconcile"} /\ c.doc = d /\ c.answer = "ACCEPTED") => baja[d] = "done"

OwesNothing(d) ==
  status[d] \in {"VOID_PENDING", "VOIDED"} => note[d] # "live" /\ (d \in paid => d \in late)

VoidFacts(d) ==
  /\ Requested(d) /\ Registered(d) /\ OwesNothing(d)
  /\ \A r \in Requests : VoidsAlone(r, d) /\ HeardRight(call[r], d)

\* The mark that a void call is about to set is nobody else's.
Unused(r) ==
  /\ call[r].mine # 0 /\ \A d \in Docs : mark[d] # call[r].mine
  /\ \A q \in Requests : call[q].seen # call[r].mine /\ (q # r => call[q].mine # call[r].mine)

FreshMarks == \A r \in Requests : call[r].step = "mark" => Unused(r)

VoidInv == TrueInv /\ FreshMarks /\ CallSorts /\ \A d \in Docs \ Unseen : VoidFacts(d)

\* What each step has to keep.
Voids == CallSorts /\ \A d \in Docs \ Unseen : VoidFacts(d)

-----------------------------------------------------------------------------
(* The marks.                                                               *)

\* Only the call r goes on, with c.
OnlyCall(r, c) == \A q \in Requests : call'[q] = IF q = r THEN c ELSE call[q]

LEMMA GoesOnly ==
  ASSUME Typed, NEW r \in Requests, NEW c, Goes(r, c)
  PROVE  OnlyCall(r, c)
BY DEF Typed, TypeOK, Goes, OnlyCall

\* Marks are only taken away, given back to what was read, or set by their call.
MarksFrom(r) ==
  \A d \in Docs : \/ mark'[d] \in {mark[d], 0, call[r].seen}
                  \/ call[r].step = "mark" /\ mark'[d] = call[r].mine

LEMMA FreshKeeps ==
  ASSUME FreshMarks, NEW r \in Requests, NEW c, OnlyCall(r, c), c.step # "mark",
         c.mine \in {0, call[r].mine}, c.seen \in {0, call[r].seen} \cup {mark[d] : d \in Docs},
         MarksFrom(r)
  PROVE  FreshMarks'
<1>. SUFFICES ASSUME NEW q \in Requests, (call[q].step = "mark")' PROVE Unused(q)'
  BY DEF FreshMarks
<1>1. q # r /\ call'[q] = call[q]
  BY DEF OnlyCall
<1>2. Unused(q) /\ call[r].mine # call[q].mine /\ call[r].seen # call[q].mine
  BY <1>1 DEF FreshMarks, Unused
<1>3. \A d \in Docs : mark'[d] # call[q].mine
  BY <1>2 DEF MarksFrom, Unused
<1>4. c.seen # call[q].mine /\ c.mine # call[q].mine
  BY <1>2 DEF Unused
<1>5. \A p \in Requests : call'[p].seen # call[q].mine /\ (p # q => call'[p].mine # call[q].mine)
  BY <1>2, <1>4 DEF OnlyCall, Unused
<1>. QED
  BY <1>1, <1>2, <1>3, <1>5 DEF Unused

LEMMA DoneFresh ==
  ASSUME Typed, FreshMarks, NEW r \in Requests, Done(r), MarksFrom(r)
  PROVE  FreshMarks'
<1>1. PICK c \in CallType :
        Goes(r, c) /\ c.step \in {"none", "read"} /\ c.seen = 0 /\ c.mine = 0
  BY DoneShape
<1>. QED
  BY <1>1, GoesOnly, FreshKeeps

LEMMA StepsFresh ==
  ASSUME Typed, FreshMarks, NEW r \in Requests, NEW s \in Phases \ {"mark"}, NEW a \in Outcomes,
         Steps(r, s, a), MarksFrom(r)
  PROVE  FreshMarks'
<1>1. PICK c \in CallType :
        Goes(r, c) /\ c.step = s /\ c.seen = call[r].seen /\ c.mine = call[r].mine
  BY StepsShape
<1>. QED
  BY <1>1, GoesOnly, FreshKeeps

LEMMA ServerFresh ==
  ASSUME Typed, FreshMarks, NEW r \in Requests, Server(r)
  PROVE  FreshMarks'
<1>. DEFINE d == call[r].doc
<1>1. MarksFrom(r)
  <2>1. CASE Read(r) \/ Claim(r) \/ Apply(r) \/ Reconcile(r) \/ Confirm(r)
    BY <2>1 DEF Read, Claim, Apply, Reconcile, Confirm, row, MarksFrom
  <2>2. CASE Settle(r)
    BY <2>2 DEF Settle, MarksFrom, Typed, TypeOK
  <2>3. CASE Mark(r)
    BY <2>3 DEF Mark, MarksFrom, Typed, TypeOK
  <2>4. CASE ReleaseMark(r)
    BY <2>4 DEF ReleaseMark, MarksFrom, Typed, TypeOK
  <2>. QED
    BY <2>1, <2>2, <2>3, <2>4 DEF Server
<1>2. CASE Done(r)
  BY <1>1, <1>2, DoneFresh
<1>3. CASE \E s \in {"offline", "calling", "voiding"}, a \in {"ERROR", "none"} : Steps(r, s, a)
  BY <1>1, <1>3, StepsFresh DEF Phases, Outcomes
<1>4. CASE Goes(r, Call("deliver", "claim", d, AtProvider(d), 0, 0, "none", call[r].rest))
  <2>1. PICK c : c = Call("deliver", "claim", d, AtProvider(d), 0, 0, "none", call[r].rest)
    OBVIOUS
  <2>2. c.step = "claim" /\ c.seen = 0 /\ c.mine = 0
    BY <2>1 DEF Call
  <2>. QED
    BY <1>1, <1>4, <2>1, <2>2, GoesOnly, FreshKeeps
<1>. QED
  BY <1>2, <1>3, <1>4 DEF Server, Read, Claim, Apply, Settle, Reconcile, Mark, ReleaseMark, Confirm

\* A void call takes a number that was never used.
LEMMA VoidFresh ==
  ASSUME Typed, FreshMarks, NEW r \in Requests, NEW d \in Docs, Void(r, d)
  PROVE  FreshMarks'
<1>1. PICK c : c = Call("void", "mark", d, status[d] = "VOID_PENDING", mark[d], voids + 1, "none", {})
  OBVIOUS
<1>2. c.seen = mark[d] /\ c.mine = voids + 1 /\ Goes(r, c) /\ mark' = mark
  BY <1>1 DEF Call, Void, row
<1>3. OnlyCall(r, c)
  BY <1>2, GoesOnly
<1>4. /\ \A e \in Docs : mark[e] \in 0..voids
      /\ \A q \in Requests : call[q].seen \in 0..voids /\ call[q].mine \in 0..voids
      /\ voids \in Nat
  BY DEF Typed, TypeOK, CallType
<1>5. Unused(r)'
  BY <1>2, <1>3, <1>4 DEF Unused, OnlyCall
<1>6. ASSUME NEW q \in Requests, q # r, (call[q].step = "mark")' PROVE Unused(q)'
  <2>1. call'[q] = call[q] /\ Unused(q)
    BY <1>3, <1>6 DEF OnlyCall, FreshMarks
  <2>2. c.mine # call[q].mine /\ c.seen # call[q].mine
    BY <1>2, <1>4, <2>1 DEF Unused
  <2>. QED
    BY <1>2, <1>3, <2>1, <2>2 DEF Unused, OnlyCall
<1>. QED
  BY <1>5, <1>6 DEF FreshMarks

LEMMA OthersFresh ==
  ASSUME Typed, FreshMarks, NEW r \in Requests,
         \/ Provider(r) \/ Unreachable(r) \/ Crash(r) \/ (r = Job /\ Sweep)
         \/ \E d \in Docs : Send(r, d) \/ Retry(r, d) \/ Refresh(r, d)
  PROVE  FreshMarks'
<1>1. mark' = mark /\ MarksFrom(r)
  BY DEF Provider, Unreachable, Crash, Sweep, Send, Retry, Refresh, row, MarksFrom
<1>2. CASE Provider(r) \/ Unreachable(r)
  <2>1. PICK a \in {"PENDING", "ACCEPTED", "REJECTED", "ERROR"} : Steps(r, NextStep(r), a)
    BY <1>2 DEF Provider, Unreachable
  <2>2. NextStep(r) \in Phases \ {"mark"} /\ a \in Outcomes
    BY DEF NextStep, Phases, Outcomes
  <2>. QED
    BY <1>1, <2>1, <2>2, StepsFresh
<1>3. CASE \E c : /\ Goes(r, c) /\ c.step # "mark" /\ c.mine = 0
                  /\ c.seen \in {0} \cup {mark[d] : d \in Docs}
  <2>1. PICK c : /\ Goes(r, c) /\ c.step # "mark" /\ c.mine = 0
                 /\ c.seen \in {0} \cup {mark[d] : d \in Docs}
    BY <1>3
  <2>. QED
    BY <1>1, <2>1, GoesOnly, FreshKeeps
<1>4. CASE Crash(r)
  BY <1>3, <1>4 DEF Crash, NoCall, Call
<1>5. CASE (r = Job /\ Sweep) \/ \E d \in Docs : Send(r, d) \/ Retry(r, d)
  <2>1. PICK d, ds : Goes(r, Delivery(d, ds))
    BY <1>5 DEF Sweep, Send, Retry
  <2>. QED
    BY <1>3, <2>1 DEF Delivery, Call
<1>6. CASE \E d \in Docs : Refresh(r, d)
  BY <1>3, <1>6 DEF Refresh, Consult, Call
<1>. QED
  BY <1>2, <1>4, <1>5, <1>6

LEMMA FreshStep ==
  ASSUME Typed, FreshMarks, [Next]_vars
  PROVE  FreshMarks'
<1>1. CASE UNCHANGED <<call, mark>>
  BY <1>1 DEF FreshMarks, Unused
<1>2. CASE \/ \E d \in Docs : LeaseEnds(d) \/ Ages(d) \/ Sunat(d) \/ Pay(d) \/ Unpay(d) \/ Note(d)
           \/ Offline \/ Online \/ UNCHANGED vars
  BY <1>1, <1>2 DEF LeaseEnds, Ages, Sunat, Pay, Unpay, Note, Offline, Online, vars, row
<1>3. CASE Sweep
  BY <1>3, OthersFresh DEF Sweep
<1>. QED
  BY <1>2, <1>3, ServerFresh, VoidFresh, OthersFresh DEF Next, Starts

-----------------------------------------------------------------------------
(* The voids.                                                               *)

\* The document is left alone, or is written before it could be voided.
RowStays(d) ==
  /\ mark'[d] = mark[d] /\ audit'[d] = audit[d] /\ old'[d] = old[d]
  /\ note'[d] = note[d] /\ baja'[d] = baja[d]
  /\ (d \in paid' <=> d \in paid) /\ (d \in late' <=> d \in late)
  /\ \/ status'[d] = status[d]
     \/ /\ status[d] \notin {"ACCEPTED", "VOID_PENDING", "VOIDED"}
        /\ status'[d] \notin {"VOID_PENDING", "VOIDED"}

\* The call r goes on with c, which does not touch the void of the document.
GoesBy(r, c, d) ==
  /\ ~AtVoid(r, d) /\ ~(c.step \in {"voiding", "voided"} /\ c.doc = d)
  /\ (c.step \in {"asking-void", "settle"} /\ c.doc = d) =>
       \/ AsksOfVoid(r, d) /\ c.seen = call[r].seen
       \/ \A q \in Requests : ~AtVoid(q, d)
  /\ HeardRight(c, d)

LEMMA SortsStay ==
  ASSUME CallSorts, NEW r \in Requests, NEW c, OnlyCall(r, c), Sorted(c)
  PROVE  CallSorts'
BY DEF CallSorts, OnlyCall, Sorted

LEMMA GoingByKeeps ==
  ASSUME NEW d \in Docs, VoidFacts(d), RowStays(d),
         NEW r \in Requests, NEW c, OnlyCall(r, c), GoesBy(r, c, d)
  PROVE  VoidFacts(d)'
<1>1. Communicated(d)' <=> Communicated(d)
  BY DEF RowStays, Communicated
<1>2. \A q \in Requests : AtVoid(q, d)' <=> AtVoid(q, d)
  BY DEF OnlyCall, GoesBy, AtVoid
<1>3. \A q \in Requests : AtVoid(q, d) => call'[q] = call[q]
  BY DEF OnlyCall, GoesBy
<1>4. Requested(d)'
  BY <1>2 DEF VoidFacts, Requested, RowStays
<1>5. Registered(d)'
  BY <1>1 DEF VoidFacts, Registered, RowStays
<1>6. OwesNothing(d)'
  BY DEF VoidFacts, OwesNothing, RowStays
<1>7. ASSUME NEW q \in Requests PROVE VoidsAlone(q, d)'
  <2>1. SUFFICES ASSUME AtVoid(q, d) PROVE VoidsAlone(q, d)'
    BY <1>2 DEF VoidsAlone
  <2>2. /\ audit[d] = "REQUESTED" /\ status[d] \in {"VOID_PENDING", "VOIDED"}
        /\ mark[d] = call[q].mine
        /\ \A s \in Requests :
             (AtVoid(s, d) => s = q) /\ (AsksOfVoid(s, d) => call[s].seen # mark[d])
        /\ (call[q].step = "voiding" \/ call[q].answer \in {"ERROR", "REJECTED"}) =>
             status[d] = "VOID_PENDING" /\ ~Communicated(d)
    BY <2>1 DEF VoidFacts, VoidsAlone
  <2>3. /\ audit'[d] = "REQUESTED" /\ status'[d] = status[d] /\ mark'[d] = mark[d]
        /\ call'[q] = call[q]
    BY <1>3, <2>1, <2>2 DEF RowStays
  <2>4. ASSUME NEW s \in Requests, AsksOfVoid(s, d)' PROVE call'[s].seen # mark'[d]
    BY <2>1, <2>2, <2>3, <2>4 DEF OnlyCall, GoesBy, AsksOfVoid
  <2>. QED
    BY <1>1, <1>2, <1>3, <2>1, <2>2, <2>3, <2>4 DEF VoidsAlone
<1>8. ASSUME NEW q \in Requests PROVE HeardRight(call[q], d)'
  <2>1. HeardRight(call[q], d) /\ HeardRight(c, d)
    BY DEF VoidFacts, GoesBy
  <2>2. baja'[d] = baja[d] /\ mark'[d] = mark[d] /\ (call'[q] = call[q] \/ call'[q] = c)
    BY DEF RowStays, OnlyCall
  <2>. QED
    BY <1>1, <2>1, <2>2 DEF HeardRight
<1>. QED
  BY <1>4, <1>5, <1>6, <1>7, <1>8 DEF VoidFacts

\* One call goes on beside every void.
LEMMA CallGoesBy ==
  ASSUME VoidInv, NEW r \in Requests, NEW c, OnlyCall(r, c), Sorted(c), Unseen' = Unseen,
         \A d \in Docs \ Unseen : RowStays(d) /\ GoesBy(r, c, d)
  PROVE  Voids'
<1>1. CallSorts'
  BY SortsStay DEF VoidInv
<1>2. \A d \in Docs \ Unseen : VoidFacts(d)'
  BY GoingByKeeps DEF VoidInv
<1>. QED
  BY <1>1, <1>2 DEF Voids

\* A call that is not voiding is done, and its row is as it was.
LEMMA DoneGoesBy ==
  ASSUME VoidInv, NEW r \in Requests, Done(r), call[r].step \notin {"voiding", "voided"},
         Unseen' = Unseen, \A d \in Docs \ Unseen : RowStays(d)
  PROVE  Voids'
<1>1. PICK c \in CallType : Goes(r, c) /\ c.step \in {"none", "read"}
  BY DoneShape DEF VoidInv, TrueInv
<1>2. OnlyCall(r, c) /\ Sorted(c)
  BY <1>1, GoesOnly DEF VoidInv, TrueInv, Sorted
<1>3. \A d \in Docs \ Unseen : GoesBy(r, c, d)
  BY <1>1 DEF GoesBy, HeardRight, AtVoid
<1>. QED
  BY <1>2, <1>3, CallGoesBy

\* The steps of a call that write nothing a void depends on.
LEMMA RowsStay ==
  ASSUME UNCHANGED <<row, around, baja, late>>
  PROVE  \A d \in Docs : RowStays(d)
BY DEF RowStays, row, around

LEMMA DeliveriesGoBy ==
  ASSUME VoidInv, NEW r \in Requests, Read(r) \/ Claim(r)
  PROVE  Voids'
<1>. DEFINE d == call[r].doc
<1>1. Unseen' = Unseen /\ \A e \in Docs : RowStays(e)
  BY DEF Read, Claim, row, around, there, history, Unseen, RowStays
<1>2. CASE Done(r)
  BY <1>1, <1>2, DoneGoesBy DEF Read, Claim
<1>3. CASE \E s \in {"offline", "calling"}, a \in {"ERROR", "none"} : Steps(r, s, a)
  <2>1. PICK s \in {"offline", "calling"}, a \in {"ERROR", "none"} : Steps(r, s, a)
    BY <1>3
  <2>2. PICK c \in CallType : Goes(r, c) /\ c.step = s
    BY <2>1, StepsShape DEF VoidInv, TrueInv, Phases, Outcomes
  <2>3. OnlyCall(r, c) /\ Sorted(c)
    BY <2>2, GoesOnly DEF VoidInv, TrueInv, Sorted
  <2>4. \A e \in Docs \ Unseen : GoesBy(r, c, e)
    BY <2>2 DEF GoesBy, HeardRight, AtVoid, Read, Claim
  <2>. QED
    BY <1>1, <2>3, <2>4, CallGoesBy
<1>4. CASE Goes(r, Call("deliver", "claim", d, AtProvider(d), 0, 0, "none", call[r].rest)) /\ Read(r)
  <2>1. PICK c : c = Call("deliver", "claim", d, AtProvider(d), 0, 0, "none", call[r].rest)
    OBVIOUS
  <2>2. c.step = "claim"
    BY <2>1 DEF Call
  <2>3. OnlyCall(r, c) /\ Sorted(c)
    BY <1>4, <2>1, <2>2, GoesOnly DEF VoidInv, TrueInv, Sorted
  <2>4. \A e \in Docs \ Unseen : GoesBy(r, c, e)
    BY <1>4, <2>2 DEF GoesBy, HeardRight, AtVoid, Read
  <2>. QED
    BY <1>1, <2>3, <2>4, CallGoesBy
<1>. QED
  BY <1>2, <1>3, <1>4 DEF Read, Claim

\* An answer is written on a document that was not yet accepted.
LEMMA ApplyGoesBy ==
  ASSUME VoidInv, NEW r \in Requests, Apply(r)
  PROVE  Voids'
<1>1. Done(r) /\ call[r].step \notin {"voiding", "voided"} /\ Unseen' = Unseen
  BY DEF Apply, Unseen
<1>2. \A e \in Docs : RowStays(e)
  BY DEF Apply, ApplyTo, Outcome, Retryable, RowStays, around, there, VoidInv, TrueInv, Typed, TypeOK
<1>. QED
  BY <1>1, <1>2, DoneGoesBy

LEMMA StartsGoBy ==
  ASSUME FiscalAssumption, VoidInv, NEW r \in Requests, NEW d \in Docs, Starts(r, d)
  PROVE  Voids'
<1>1. ~AtVoid(r, 0) /\ call[r].step = "none"
  BY DEF Starts, Send, Retry, Refresh, Void, Idle, NoCall, Call, AtVoid
<1>2. Unseen' = Unseen /\ \A e \in Docs : RowStays(e)
  BY DEF Starts, Send, Retry, Refresh, Void, row, around, there, history, Unseen, RowStays, Moves,
         VoidInv, TrueInv, Typed, TypeOK
<1>3. CASE Send(r, d) \/ Retry(r, d)
  <2>1. PICK c : c = Delivery(d, {}) /\ Goes(r, c)
    BY <1>3 DEF Send, Retry
  <2>2. c.step = "read"
    BY <2>1 DEF Delivery, Call
  <2>3. OnlyCall(r, c) /\ Sorted(c)
    BY <2>1, <2>2, GoesOnly DEF VoidInv, TrueInv, Sorted
  <2>4. \A e \in Docs \ Unseen : GoesBy(r, c, e)
    BY <1>1, <2>2 DEF GoesBy, HeardRight, AtVoid
  <2>. QED
    BY <1>2, <2>3, <2>4, CallGoesBy
<1>4. CASE Refresh(r, d)
  <2>1. PICK s \in {"asking-void", "reconciling", "calling"} :
          Consult(r, d, s) /\ (s = "asking-void" => status[d] = "VOID_PENDING" /\ ~InFlight(d))
    BY <1>4 DEF Refresh
  <2>2. PICK c : c = Call("refresh", s, d, TRUE, mark[d], 0, "none", {})
    OBVIOUS
  <2>3. c.step = s /\ c.op = "refresh" /\ c.doc = d
    BY <2>2 DEF Call
  <2>4. OnlyCall(r, c) /\ Sorted(c)
    BY <2>1, <2>2, <2>3, GoesOnly DEF VoidInv, TrueInv, Sorted, Consult
  <2>5. ASSUME NEW e \in Docs \ Unseen PROVE GoesBy(r, c, e)
    <3>1. s = "asking-void" /\ e = d => \A q \in Requests : ~AtVoid(q, e)
      BY <2>1 DEF InFlight, VoidInv, VoidFacts, Requested, VoidsAlone
    <3>. QED
      BY <1>1, <2>3, <3>1 DEF GoesBy, HeardRight, AtVoid
  <2>. QED
    BY <1>2, <2>4, <2>5, CallGoesBy
<1>5. CASE Void(r, d)
  <2>1. PICK c : c = Call("void", "mark", d, status[d] = "VOID_PENDING", mark[d], voids + 1, "none", {})
    OBVIOUS
  <2>2. c.step = "mark" /\ c.op = "void" /\ c.doc = d /\ (c.query <=> status[d] = "VOID_PENDING")
    BY <2>1 DEF Call
  <2>3. OnlyCall(r, c) /\ Sorted(c)
    BY <1>5, <2>1, <2>2, GoesOnly DEF VoidInv, TrueInv, Sorted, Void
  <2>4. ASSUME NEW e \in Docs \ Unseen PROVE GoesBy(r, c, e)
    <3>1. e = d => status[d] = "ACCEPTED"
      BY <1>5 DEF Void, Orphan, VoidInv, VoidFacts, Requested
    <3>. QED
      BY <1>1, <2>2, <3>1 DEF GoesBy, HeardRight, AtVoid
  <2>. QED
    BY <1>2, <2>3, <2>4, CallGoesBy
<1>. QED
  BY <1>3, <1>4, <1>5 DEF Starts

LEMMA SweepGoesBy ==
  ASSUME VoidInv, Sweep
  PROVE  Voids'
<1>1. PICK d \in Oldest : Goes(Job, Delivery(d, Oldest \ {d}))
  BY DEF Sweep
<1>2. PICK c : c = Delivery(d, Oldest \ {d})
  OBVIOUS
<1>3. c.step = "read" /\ Job \in Requests /\ call[Job].step = "none"
  BY <1>2 DEF Delivery, Call, Sweep, NoCall
<1>4. OnlyCall(Job, c) /\ Sorted(c)
  BY <1>1, <1>2, <1>3, GoesOnly DEF VoidInv, TrueInv, Sorted
<1>5. \A e \in Docs \ Unseen : GoesBy(Job, c, e)
  BY <1>3 DEF GoesBy, HeardRight, AtVoid
<1>6. Unseen' = Unseen /\ \A e \in Docs : RowStays(e)
  BY DEF Sweep, row, around, there, history, Unseen, RowStays
<1>. QED
  BY <1>3, <1>4, <1>5, <1>6, CallGoesBy

\* What happens around a document leaves the calls alone.
LEMMA CallsStand ==
  ASSUME VoidInv, UNCHANGED <<call, Unseen>>,
         \A d \in Docs \ Unseen :
           /\ mark'[d] = mark[d] /\ audit'[d] = audit[d] /\ status'[d] = status[d]
           /\ (old'[d] <=> old[d]) \/ audit[d] # "REQUESTED"
           /\ baja'[d] = baja[d] \/ (baja[d] = "pending" /\ baja'[d] \in {"done", "refused"})
           /\ OwesNothing(d)'
  PROVE  Voids'
<1>1. CallSorts'
  BY DEF VoidInv, CallSorts, Sorted
<1>2. ASSUME NEW d \in Docs \ Unseen PROVE VoidFacts(d)'
  <2>1. VoidFacts(d) /\ OwesNothing(d)'
    BY DEF VoidInv
  <2>2. Communicated(d)' => Communicated(d)
    BY DEF Communicated
  <2>3. Requested(d)' /\ Registered(d)'
    BY <2>1, <2>2 DEF VoidFacts, Requested, Registered, AtVoid
  <2>4. ASSUME NEW r \in Requests PROVE VoidsAlone(r, d)'
    BY <2>1, <2>2 DEF VoidFacts, VoidsAlone, AtVoid, AsksOfVoid
  <2>5. ASSUME NEW r \in Requests PROVE HeardRight(call[r], d)'
    <3>1. HeardRight(call[r], d)
      BY <2>1 DEF VoidFacts
    <3>. QED
      BY <2>2, <3>1 DEF HeardRight
  <2>. QED
    BY <2>1, <2>3, <2>4, <2>5 DEF VoidFacts
<1>. QED
  BY <1>1, <1>2 DEF Voids

LEMMA AroundVoids ==
  ASSUME VoidInv,
         \/ \E d \in Docs : LeaseEnds(d) \/ Ages(d) \/ Sunat(d) \/ Pay(d) \/ Unpay(d) \/ Note(d)
         \/ Offline \/ Online \/ UNCHANGED vars
  PROVE  Voids'
<1>. USE DEF VoidInv, TrueInv, Typed, TypeOK
<1>1. \A e \in Docs \ Unseen : OwesNothing(e)
  BY DEF VoidFacts
<1>2. ASSUME NEW d \in Docs, LeaseEnds(d) PROVE Voids'
  BY <1>1, <1>2, CallsStand DEF LeaseEnds, OwesNothing, around, there, counted, history, Unseen
<1>3. ASSUME NEW d \in Docs, Ages(d) PROVE Voids'
  <2>1. d \notin Unseen => audit[d] # "REQUESTED"
    BY <1>3 DEF Ages, VoidFacts, Requested, AtVoid, CallSorts, Sorted
  <2>. QED
    BY <1>1, <1>3, <2>1, CallsStand DEF Ages, OwesNothing, around, there, counted, history, Unseen
<1>4. ASSUME NEW d \in Docs, Sunat(d) PROVE Voids'
  BY <1>1, <1>4, CallsStand DEF Sunat, OwesNothing, row, around, counted, history, Unseen
<1>5. ASSUME NEW d \in Docs, Pay(d) \/ Unpay(d) PROVE Voids'
  <2>1. \A e \in Docs \ Unseen : OwesNothing(e)'
    BY <1>1, <1>5 DEF Pay, Unpay, OwesNothing, row, Alive, Retryable
  <2>. QED
    BY <1>5, <2>1, CallsStand DEF Pay, Unpay, row, there, counted, Unseen
<1>6. ASSUME NEW d \in Docs, Note(d) PROVE Voids'
  <2>1. \A e \in Docs \ Unseen : OwesNothing(e)'
    BY <1>1, <1>6 DEF Note, OwesNothing, row, history, Creditable
  <2>. QED
    BY <1>6, <2>1, CallsStand DEF Note, row, there, counted, history, Unseen
<1>7. ASSUME Offline \/ Online \/ UNCHANGED vars PROVE Voids'
  <2>1. UNCHANGED <<row, call, there, history, paid, note>>
    BY <1>7 DEF Offline, Online, vars, counted, around
  <2>. QED
    BY <1>1, <2>1, CallsStand DEF OwesNothing, row, there, history, Unseen
<1>. QED
  BY <1>2, <1>3, <1>4, <1>5, <1>6, <1>7

\* SUNAT's word on the void that is marked is written when nobody is voiding, and its
\* refusal only when SUNAT has nothing.  The end of an earlier void finds the new one
\* already answered.
LEMMA SettleVoids ==
  ASSUME VoidInv, NEW r \in Requests, Settle(r)
  PROVE  Voids'
<1>. USE DEF VoidInv, TrueInv
<1>1. PICK d \in Docs : d = call[r].doc
  BY DEF Settle, Typed, CallsOfIssued
<1>2. call[r].step = "settle" /\ UNCHANGED <<audit, old, note, baja, paid, late, lost>>
  BY DEF Settle, around, there
<1>3. PICK c \in CallType : Goes(r, c) /\ c.step \in {"none", "read"}
  BY DoneShape DEF Settle
<1>4. OnlyCall(r, c) /\ Sorted(c)
  BY <1>3, GoesOnly DEF Sorted
<1>5. CallSorts'
  BY <1>4, SortsStay
<1>6. Unseen \subseteq Unseen'
  BY <1>2 DEF Settle, Unseen
<1>7. ASSUME NEW e \in Docs \ Unseen' PROVE VoidFacts(e)'
  <2>1. VoidFacts(e) /\ GoesBy(r, c, e)
    BY <1>2, <1>3, <1>6, <1>7 DEF GoesBy, HeardRight, AtVoid
  <2>2. CASE RowStays(e)
    BY <1>4, <2>1, <2>2, GoingByKeeps
  <2>3. CASE ~RowStays(e)
    <3>1. /\ e = d /\ status[d] = "VOID_PENDING"
          /\ \/ call[r].answer = "ACCEPTED" /\ status'[d] = "VOIDED" /\ mark' = mark
             \/ /\ call[r].answer = "REJECTED" /\ status'[d] = "ACCEPTED" /\ mark'[d] = 0
                /\ mark[d] # call[r].seen => undone' = undone \cup {d}
      BY <1>1, <1>2, <2>3 DEF RowStays, Settle, Moves, Typed, TypeOK
    <3>2. call[r].answer = "REJECTED" => mark[d] = call[r].seen
      BY <1>7, <3>1 DEF Unseen
    <3>3. AsksOfVoid(r, d)
      BY <1>1, <1>2 DEF AsksOfVoid
    <3>4. call[r].answer = "REJECTED" => ~Communicated(d) /\ \A q \in Requests : ~AtVoid(q, d)
      BY <1>1, <1>2, <2>1, <3>1, <3>2, <3>3 DEF VoidFacts, VoidsAlone, HeardRight
    <3>5. call[r].answer = "ACCEPTED" => Communicated(d)
      BY <1>1, <1>2, <2>1, <3>1 DEF VoidFacts, HeardRight, Communicated
    <3>6. \A q \in Requests : (AtVoid(q, d)' <=> AtVoid(q, d)) /\ (AtVoid(q, d) => call'[q] = call[q])
      BY <1>2, <1>3, <1>4 DEF OnlyCall, AtVoid
    <3>7. Requested(d)' /\ Registered(d)'
      BY <1>2, <3>1, <3>4 DEF Requested, Registered, Communicated
    <3>8. OwesNothing(d)'
      BY <1>2, <2>1, <3>1 DEF VoidFacts, OwesNothing
    <3>9. ASSUME NEW q \in Requests PROVE VoidsAlone(q, d)'
      <4>1. SUFFICES ASSUME AtVoid(q, d) PROVE VoidsAlone(q, d)'
        BY <3>6 DEF VoidsAlone
      <4>2. status'[d] = "VOIDED" /\ mark' = mark /\ Communicated(d)
        BY <3>1, <3>4, <3>5, <4>1
      <4>3. /\ audit[d] = "REQUESTED" /\ mark[d] = call[q].mine
            /\ \A s \in Requests :
                 (AtVoid(s, d) => s = q) /\ (AsksOfVoid(s, d) => call[s].seen # mark[d])
            /\ ~(call[q].step = "voiding" \/ call[q].answer \in {"ERROR", "REJECTED"})
        BY <2>1, <3>1, <4>1, <4>2 DEF VoidFacts, VoidsAlone
      <4>4. ASSUME NEW s \in Requests, AsksOfVoid(s, d)' PROVE call'[s].seen # mark'[d]
        BY <1>3, <1>4, <4>2, <4>3, <4>4 DEF OnlyCall, AsksOfVoid
      <4>. QED
        BY <1>2, <3>6, <4>1, <4>2, <4>3, <4>4 DEF VoidsAlone
    <3>10. ASSUME NEW q \in Requests PROVE HeardRight(call[q], d)'
      <4>1. HeardRight(call[q], d) /\ HeardRight(c, d)
        BY <2>1, <3>1 DEF VoidFacts, GoesBy
      <4>2. call'[q] = call[q] \/ call'[q] = c
        BY <1>4 DEF OnlyCall
      <4>3. mark' = mark \/ ~Communicated(d)'
        BY <1>2, <3>1, <3>4 DEF Communicated
      <4>. QED
        BY <1>2, <4>1, <4>2, <4>3 DEF HeardRight, Communicated
    <3>. QED
      BY <3>1, <3>7, <3>8, <3>9, <3>10 DEF VoidFacts
  <2>. QED
    BY <2>2, <2>3
<1>. QED
  BY <1>5, <1>7 DEF Voids

\* A document whose void SUNAT has is not accepted here, so there is nothing to
\* reconcile: only the documents whose void went unseen leave something.
LEMMA ReconcileVoids ==
  ASSUME VoidInv, NEW r \in Requests, Reconcile(r)
  PROVE  Voids'
<1>. DEFINE d == call[r].doc
<1>. USE DEF VoidInv, TrueInv
<1>1. Done(r) /\ call[r].step \notin {"voiding", "voided"} /\ Unseen' = Unseen
  BY DEF Reconcile, history, Unseen
<1>2. ASSUME NEW e \in Docs \ Unseen PROVE RowStays(e)
  <2>1. e = d => ~(call[r].answer = "ACCEPTED" /\ status[d] = "ACCEPTED")
    BY DEF Reconcile, VoidFacts, HeardRight, Registered, Communicated
  <2>2. status'[e] = status[e]
    BY <2>1 DEF Reconcile, Moves, Typed, TypeOK
  <2>. QED
    BY <2>2 DEF Reconcile, RowStays, around, there, history
<1>. QED
  BY <1>1, <1>2, DoneGoesBy

\* A void is marked on an accepted document: nobody else has it, SUNAT has no void of
\* it, and who is asking SUNAT about one has seen another mark.
LEMMA MarkVoids ==
  ASSUME VoidInv, NEW r \in Requests, Mark(r)
  PROVE  Voids'
<1>1. PICK d \in Docs : d = call[r].doc
  BY DEF Mark, VoidInv, TrueInv, Typed, CallsOfIssued
<1>. USE <1>1
<1>. USE DEF VoidInv, TrueInv
<1>2. /\ d \in Docs /\ call[r].step = "mark" /\ call[r] \in CallType
      /\ UNCHANGED <<note, baja, paid, late, Unseen>>
  <2>1. call[r].step = "mark" /\ UNCHANGED <<note, baja, paid, late, Unseen>>
    BY DEF Mark, around, there, history, Unseen
  <2>2. call[r] \in CallType
    BY DEF Typed, TypeOK
  <2>. QED
    BY <2>1, <2>2 DEF Typed, CallsOfIssued
<1>3. CASE Done(r) /\ UNCHANGED <<status, mark, audit, old>>
  <2>1. \A e \in Docs : RowStays(e)
    BY <1>2, <1>3 DEF RowStays
  <2>. QED
    BY <1>2, <1>3, <2>1, DoneGoesBy
<1>4. CASE /\ StillVoidable(r, d) /\ Moves(d, "VOID_PENDING")
           /\ mark' = [mark EXCEPT ![d] = call[r].mine]
           /\ audit' = [audit EXCEPT ![d] = "REQUESTED"]
           /\ old' = [old EXCEPT ![d] = FALSE]
           /\ Steps(r, "voiding", "none")
  <2>1. PICK c \in CallType :
          Goes(r, c) /\ c.step = "voiding" /\ c.doc = d /\ c.op = call[r].op /\ c.mine = call[r].mine
    <3>1. "voiding" \in Phases /\ "none" \in Outcomes
      BY DEF Phases, Outcomes
    <3>. QED
      BY <1>4, <3>1, StepsShape
  <2>2. OnlyCall(r, c)
    BY <2>1, GoesOnly
  <2>3. CallSorts'
    BY <1>2, <2>1, <2>2, SortsStay DEF CallSorts, Sorted
  <2>4. ASSUME NEW e \in Docs \ Unseen, e # d PROVE VoidFacts(e)'
    <3>1. RowStays(e)
      BY <1>2, <1>4, <2>4 DEF RowStays, Moves, Typed, TypeOK
    <3>2. GoesBy(r, c, e)
      BY <1>2, <2>1, <2>4 DEF GoesBy, HeardRight, AtVoid
    <3>. QED
      BY <2>2, <3>1, <3>2, GoingByKeeps
  <2>5. ASSUME d \notin Unseen PROVE VoidFacts(d)'
    <3>1. VoidFacts(d)
      BY <1>2, <2>5
    <3>2. status[d] = "ACCEPTED" /\ d \notin paid /\ note[d] = "none"
      BY <1>2, <1>4, <3>1 DEF StillVoidable, Free, VoidFacts, HeardRight
    <3>3. \A q \in Requests : ~AtVoid(q, d)
      BY <3>1, <3>2 DEF VoidFacts, VoidsAlone
    <3>4. Unused(r)
      BY <1>2 DEF FreshMarks
    <3>5. \A q \in Requests : call[q].seen # call[r].mine
      BY <3>4 DEF Unused
    <3>6. ~Communicated(d)
      BY <3>1, <3>2 DEF VoidFacts, Registered, Communicated
    <3>7. /\ audit'[d] = "REQUESTED" /\ status'[d] = "VOID_PENDING" /\ mark'[d] = c.mine /\ ~old'[d]
          /\ call'[r] = c /\ \A q \in Requests \ {r} : call'[q] = call[q]
      BY <1>2, <1>4, <2>1, <2>2 DEF Moves, OnlyCall, Typed, TypeOK
    <3>8. \A q \in Requests : AtVoid(q, d)' <=> q = r
      BY <2>1, <3>3, <3>7 DEF AtVoid
    <3>9. \A q \in Requests : AsksOfVoid(q, d)' => call'[q].seen # mark'[d]
      BY <2>1, <3>5, <3>7 DEF AsksOfVoid
    <3>10. ~Communicated(d)'
      BY <1>2, <3>6 DEF Communicated
    <3>11. Requested(d)' /\ Registered(d)' /\ OwesNothing(d)'
      BY <1>2, <3>2, <3>7, <3>8, <3>10 DEF Requested, Registered, OwesNothing
    <3>12. ASSUME NEW q \in Requests PROVE VoidsAlone(q, d)'
      BY <3>7, <3>8, <3>9, <3>10 DEF VoidsAlone
    <3>13. ASSUME NEW q \in Requests PROVE HeardRight(call[q], d)'
      <4>1. CASE q = r
        BY <2>1, <3>7, <4>1 DEF HeardRight
      <4>2. CASE q # r
        <5>1. HeardRight(call[q], d) /\ call'[q] = call[q]
          BY <3>1, <3>7, <4>2 DEF VoidFacts
        <5>. QED
          BY <1>2, <3>6, <3>10, <5>1 DEF HeardRight
      <4>. QED
        BY <4>1, <4>2
    <3>. QED
      BY <3>11, <3>12, <3>13 DEF VoidFacts
  <2>. QED
    BY <1>2, <2>3, <2>4, <2>5 DEF Voids
<1>. QED
  BY <1>3, <1>4 DEF Mark

\* The mark is taken away, or the void is closed, by the call that has it alone; when
\* the end of an earlier void was written meanwhile, nothing is left to close.
LEMMA ClosingVoids ==
  ASSUME VoidInv, NEW r \in Requests, ReleaseMark(r) \/ Confirm(r)
  PROVE  Voids'
<1>. USE DEF VoidInv, TrueInv
<1>1. PICK d \in Docs : d = call[r].doc
  BY DEF ReleaseMark, Confirm, Typed, CallsOfIssued
<1>2. call[r].step = "voided" /\ UNCHANGED <<old, note, baja, paid, late, Unseen>>
  BY DEF ReleaseMark, Confirm, around, there, history, Unseen
<1>3. PICK c \in CallType : Goes(r, c) /\ c.step \in {"none", "read"}
  BY DoneShape DEF ReleaseMark, Confirm
<1>4. OnlyCall(r, c) /\ Sorted(c)
  BY <1>3, GoesOnly DEF Sorted
<1>5. CallSorts'
  BY <1>4, SortsStay
<1>6. ASSUME NEW e \in Docs \ Unseen, e # d PROVE VoidFacts(e)'
  <2>1. RowStays(e)
    BY <1>1, <1>2, <1>6 DEF ReleaseMark, Confirm, RowStays, Moves, Typed, TypeOK
  <2>2. GoesBy(r, c, e)
    BY <1>1, <1>2, <1>3, <1>6 DEF GoesBy, HeardRight, AtVoid
  <2>. QED
    BY <1>4, <2>1, <2>2, GoingByKeeps
<1>7. ASSUME d \notin Unseen PROVE VoidFacts(d)'
  <2>1. VoidFacts(d) /\ AtVoid(r, d)
    BY <1>1, <1>2, <1>7 DEF AtVoid
  <2>2. /\ status[d] \in {"VOID_PENDING", "VOIDED"} /\ mark[d] = call[r].mine
        /\ \A s \in Requests : AtVoid(s, d) => s = r
        /\ call[r].answer \in {"ERROR", "REJECTED"} => status[d] = "VOID_PENDING" /\ ~Communicated(d)
    BY <2>1 DEF VoidFacts, VoidsAlone
  <2>3. status[d] = "VOID_PENDING" <=> Owns(r, d)
    BY <2>2 DEF Owns
  <2>4. audit'[d] \in {"RELEASED", "CONFLICT", "DONE"} \/ status'[d] = "VOIDED"
    BY <1>1, <2>2, <2>3 DEF ReleaseMark, Confirm, Typed, TypeOK
  <2>5. \/ status'[d] \in {"VOID_PENDING", "VOIDED"} /\ mark' = mark
        \/ status'[d] = "ACCEPTED" /\ ~Communicated(d)
    BY <1>1, <2>2, <2>3 DEF ReleaseMark, Confirm, Moves, Typed, TypeOK
  <2>6. \A q \in Requests : ~AtVoid(q, d)'
    BY <1>3, <1>4, <2>2 DEF OnlyCall, AtVoid
  <2>7. Requested(d)'
    BY <2>4 DEF Requested
  <2>8. Registered(d)'
    BY <1>2, <2>5 DEF Registered, Communicated
  <2>9. OwesNothing(d)'
    BY <1>2, <2>1, <2>2 DEF VoidFacts, OwesNothing
  <2>10. ASSUME NEW q \in Requests PROVE HeardRight(call[q], d)'
    <3>1. HeardRight(call[q], d) /\ HeardRight(c, d)
      BY <1>3, <2>1 DEF VoidFacts, HeardRight
    <3>2. call'[q] = call[q] \/ call'[q] = c
      BY <1>4 DEF OnlyCall
    <3>. QED
      BY <1>2, <2>5, <3>1, <3>2 DEF HeardRight, Communicated
  <2>. QED
    BY <2>6, <2>7, <2>8, <2>9, <2>10 DEF VoidFacts, VoidsAlone
<1>. QED
  BY <1>2, <1>5, <1>6, <1>7 DEF Voids

\* What a call goes on with after it has called, whatever it was answered.
LEMMA AfterTheCall ==
  ASSUME VoidInv, NEW r \in Requests, Calling(r), NEW a \in Outcomes, Steps(r, NextStep(r), a)
  PROVE  \E c \in CallType :
           /\ OnlyCall(r, c) /\ Sorted(c)
           /\ c.step = NextStep(r) /\ c.answer = a /\ c.doc = call[r].doc
           /\ c.op = call[r].op /\ c.mine = call[r].mine /\ c.seen = call[r].seen
<1>1. NextStep(r) \in Phases
  BY DEF NextStep, Phases
<1>2. PICK c \in CallType :
        /\ Goes(r, c) /\ c.step = NextStep(r) /\ c.answer = a
        /\ c.op = call[r].op /\ c.doc = call[r].doc
        /\ c.mine = call[r].mine /\ c.seen = call[r].seen
  BY <1>1, StepsShape DEF VoidInv, TrueInv
<1>3. OnlyCall(r, c)
  BY <1>2, GoesOnly DEF VoidInv, TrueInv
<1>4. Sorted(c)
  BY <1>2 DEF VoidInv, CallSorts, Sorted, Calling, NextStep
<1>. QED
  BY <1>2, <1>3, <1>4

\* The call that voids has been answered: a refusal leaves SUNAT without a void.
LEMMA VoidAnswered ==
  ASSUME VoidInv, NEW r \in Requests, NEW d \in Docs, call[r].step = "voiding", call[r].doc = d,
         VoidFacts(d), NEW c, OnlyCall(r, c), c.step = "voided", c.doc = d, c.mine = call[r].mine,
         c.answer \in {"ERROR", "REJECTED"} => ~Communicated(d)',
         UNCHANGED <<row, around, late>>,
         baja'[d] = baja[d] \/ baja[d] \notin {"done"}
  PROVE  VoidFacts(d)'
<1>1. /\ audit[d] = "REQUESTED" /\ status[d] = "VOID_PENDING" /\ mark[d] = call[r].mine
      /\ \A s \in Requests :
           (AtVoid(s, d) => s = r) /\ (AsksOfVoid(s, d) => call[s].seen # mark[d])
      /\ ~old[d]
  BY DEF VoidFacts, VoidsAlone, AtVoid, Requested
<1>2. call'[r] = c /\ \A q \in Requests \ {r} : call'[q] = call[q]
  BY DEF OnlyCall
<1>3. \A q \in Requests : AtVoid(q, d)' <=> q = r
  BY <1>1, <1>2 DEF AtVoid
<1>4. \A q \in Requests : AsksOfVoid(q, d)' => call'[q].seen # mark'[d]
  BY <1>1, <1>2 DEF AsksOfVoid, row
<1>5. Requested(d)' /\ Registered(d)' /\ OwesNothing(d)'
  BY <1>1, <1>3 DEF VoidFacts, Requested, Registered, OwesNothing, row, around
<1>6. ASSUME NEW q \in Requests PROVE VoidsAlone(q, d)'
  BY <1>1, <1>2, <1>3, <1>4 DEF VoidsAlone, row
<1>7. ASSUME NEW q \in Requests PROVE HeardRight(call[q], d)'
  <2>1. CASE q = r
    BY <1>2, <2>1 DEF HeardRight
  <2>2. CASE q # r
    <3>1. HeardRight(call[q], d) /\ call'[q] = call[q] /\ mark' = mark
      BY <1>1, <1>2, <2>2 DEF VoidFacts, row
    <3>2. AsksOfVoid(q, d) => call[q].seen # mark[d]
      BY <1>1
    <3>. QED
      BY <3>1, <3>2 DEF HeardRight, AsksOfVoid
  <2>. QED
    BY <2>1, <2>2
<1>. QED
  BY <1>5, <1>6, <1>7 DEF VoidFacts

LEMMA ProviderVoids ==
  ASSUME VoidInv, NEW r \in Requests, Provider(r)
  PROVE  Voids'
<1>. USE DEF VoidInv, TrueInv
<1>1. PICK d \in Docs : d = call[r].doc
  BY DEF Provider, Calling, VoidInv, TrueInv, Typed, CallsOfIssued
<1>2. PICK k \in {"no", "pending", "accepted", "rejected"},
         b \in {"no", "pending", "done", "refused"}, a \in {"PENDING", "ACCEPTED", "REJECTED"} :
        Serving(r, k, b, a)
  BY ProviderServes
<1>3. /\ Serves(r, k, b, a) /\ baja' = [baja EXCEPT ![d] = b]
      /\ \/ Steps(r, NextStep(r), a) /\ UNCHANGED lost
         \/ /\ Steps(r, NextStep(r), "ERROR")
            /\ lost' = IF call[r].op = "void" THEN lost \cup {d} ELSE lost
  BY <1>2, <1>1 DEF Serving
<1>. USE <1>1
<1>4. PICK x \in {a, "ERROR"} :
        /\ Steps(r, NextStep(r), x)
        /\ lost' = IF x = "ERROR" /\ call[r].op = "void" THEN lost \cup {d} ELSE lost
  <2>1. a # "ERROR"
    OBVIOUS
  <2>. QED
    BY <1>3, <2>1
<1>5. x \in Outcomes /\ Calling(r) /\ UNCHANGED <<row, around, late>>
  BY DEF Outcomes, Provider
<1>6. PICK c \in CallType :
        /\ OnlyCall(r, c) /\ Sorted(c) /\ c.step = NextStep(r) /\ c.answer = x /\ c.doc = d
        /\ c.op = call[r].op /\ c.mine = call[r].mine /\ c.seen = call[r].seen
  BY <1>4, <1>5, AfterTheCall
<1>7. d \in Docs /\ baja'[d] = b /\ \A e \in Docs \ {d} : baja'[e] = baja[e]
  BY <1>3, <1>5 DEF Calling, Typed, TypeOK, CallsOfIssued
<1>8. CallSorts'
  BY <1>6, SortsStay
<1>9. ASSUME NEW e \in Docs \ Unseen, e # d PROVE VoidFacts(e)'
  <2>1. RowStays(e)
    BY <1>5, <1>7, <1>9 DEF RowStays, row, around
  <2>2. GoesBy(r, c, e)
    BY <1>6, <1>9 DEF GoesBy, HeardRight, AtVoid
  <2>. QED
    BY <1>6, <2>1, <2>2, GoingByKeeps
<1>10. Unseen \subseteq Unseen'
  BY <1>4, <1>2 DEF Unseen, Serving, Provider
<1>11. ASSUME d \notin Unseen', call[r].step # "voiding" PROVE VoidFacts(d)'
  <2>1. d \notin Unseen /\ VoidFacts(d)
    BY <1>4, <1>7, <1>11, <1>10
  <2>2. b = baja[d] /\ (call[r].step \in {"asking-void", "reconciling"} => a = Answers(b))
    BY <1>3, <1>11 DEF Serves
  <2>3. RowStays(d)
    BY <1>5, <1>7, <2>2 DEF RowStays, row, around
  <2>4. c.step = "settle" => call[r].step = "asking-void"
    BY <1>5, <1>6 DEF NextStep, Calling
  <2>5. c.step = "reconcile" => call[r].step = "reconciling"
    BY <1>5, <1>6 DEF NextStep, Calling
  <2>6. c.step \in {"settle", "reconcile", "answered"}
    BY <1>5, <1>6, <1>11 DEF NextStep, Calling
  <2>7. HeardRight(c, d)
    <3>1. c.step = "settle" /\ c.answer = "REJECTED" => ~Communicated(d)
      BY <1>6, <2>2, <2>4 DEF Answers, Communicated
    <3>2. c.step \in {"settle", "reconcile"} /\ c.answer = "ACCEPTED" => baja[d] = "done"
      BY <1>6, <2>2, <2>4, <2>5 DEF Answers
    <3>. QED
      BY <2>6, <3>1, <3>2 DEF HeardRight
  <2>8. GoesBy(r, c, d)
    BY <1>5, <1>6, <1>11, <2>4, <2>6, <2>7 DEF GoesBy, AtVoid, AsksOfVoid, Calling
  <2>. QED
    BY <1>6, <1>7, <2>1, <2>3, <2>8, GoingByKeeps
<1>12. ASSUME d \notin Unseen', call[r].step = "voiding" PROVE VoidFacts(d)'
  <2>1. call[r].op = "void"
    BY <1>12 DEF CallSorts, Sorted
  <2>2. x = a /\ d \notin Unseen /\ VoidFacts(d)
    BY <1>4, <1>7, <1>12, <1>10, <2>1 DEF Unseen
  <2>3. c.step = "voided"
    BY <1>6, <1>12 DEF NextStep
  <2>4. status[d] = "VOID_PENDING" /\ baja[d] \notin {"pending", "done"}
    BY <1>12, <2>2 DEF VoidFacts, VoidsAlone, AtVoid, Communicated
  <2>5. VoidsTo(d, b, a)
    BY <1>3, <1>12 DEF Serves
  <2>6. known[d] = "accepted"
    BY <1>7, <2>4 DEF AcceptedThereToo
  <2>7. a = "REJECTED" => b = baja[d]
    BY <2>4, <2>5, <2>6 DEF VoidsTo
  <2>8. c.answer \in {"ERROR", "REJECTED"} => ~Communicated(d)'
    BY <1>6, <1>7, <2>2, <2>4, <2>7 DEF Communicated
  <2>. QED
    BY <1>5, <1>6, <1>7, <1>12, <2>2, <2>3, <2>4, <2>8, VoidAnswered
<1>. QED
  BY <1>8, <1>9, <1>11, <1>12, <1>10 DEF Voids

\* A call that fails before SUNAT hears of it leaves everything where it was.
LEMMA UnreachableVoids ==
  ASSUME VoidInv, NEW r \in Requests, Unreachable(r)
  PROVE  Voids'
<1>1. PICK d \in Docs : d = call[r].doc
  BY DEF Unreachable, Calling, VoidInv, TrueInv, Typed, CallsOfIssued
<1>. USE <1>1
<1>. USE DEF VoidInv, TrueInv
<1>2. Calling(r) /\ UNCHANGED <<row, around, there, history>> /\ d \in Docs
  BY DEF Unreachable, Calling, Typed, CallsOfIssued
<1>3. PICK c \in CallType :
        /\ OnlyCall(r, c) /\ Sorted(c) /\ c.step = NextStep(r) /\ c.answer = "ERROR" /\ c.doc = d
        /\ c.op = call[r].op /\ c.mine = call[r].mine /\ c.seen = call[r].seen
  BY <1>2, AfterTheCall DEF Unreachable, Outcomes
<1>4. CallSorts'
  BY <1>3, SortsStay
<1>5. \A e \in Docs : RowStays(e)
  BY <1>2 DEF RowStays, row, around, there, history
<1>6. ASSUME NEW e \in Docs \ Unseen, ~(e = d /\ call[r].step = "voiding") PROVE VoidFacts(e)'
  <2>1. c.step # "mark" /\ (c.step = "settle" => call[r].step = "asking-void")
        /\ c.step # "asking-void" /\ c.step # "voiding"
        /\ (c.step = "voided" => call[r].step = "voiding")
    BY <1>2, <1>3 DEF NextStep, Calling
  <2>2. GoesBy(r, c, e)
    BY <1>2, <1>3, <1>6, <2>1 DEF GoesBy, HeardRight, AtVoid, AsksOfVoid, Calling
  <2>. QED
    BY <1>3, <1>5, <2>2, GoingByKeeps
<1>7. ASSUME d \notin Unseen, call[r].step = "voiding" PROVE VoidFacts(d)'
  <2>1. VoidFacts(d) /\ ~Communicated(d)
    BY <1>2, <1>7 DEF VoidFacts, VoidsAlone, AtVoid
  <2>2. ~Communicated(d)' /\ baja'[d] = baja[d] /\ c.step = "voided" /\ late' = late
    BY <1>2, <1>3, <1>7, <2>1 DEF Communicated, there, NextStep, history
  <2>. QED
    BY <1>2, <1>3, <1>7, <2>1, <2>2, VoidAnswered
<1>. QED
  BY <1>2, <1>4, <1>6, <1>7 DEF Voids, history, Unseen

\* The answer of a void that dies is lost; nobody else's is.
LEMMA CrashVoids ==
  ASSUME FiscalAssumption, VoidInv, NEW r \in Requests, Crash(r)
  PROVE  Voids'
<1>. USE DEF VoidInv, TrueInv
<1>1. NoCall.step = "none" /\ UNCHANGED <<row, around, there, late>>
  BY DEF NoCall, Call, Crash
<1>2. OnlyCall(r, NoCall) /\ Sorted(NoCall)
  BY <1>1, GoesOnly DEF Crash, Sorted
<1>3. CallSorts'
  BY <1>2, SortsStay
<1>4. ASSUME NEW e \in Docs \ Unseen' PROVE VoidFacts(e)'
  <2>1. e \notin Unseen /\ ~AtVoid(r, e)
    BY DEF Crash, AtVoid, Unseen
  <2>2. RowStays(e) /\ GoesBy(r, NoCall, e)
    BY <1>1, <2>1 DEF RowStays, row, around, there, GoesBy, HeardRight
  <2>. QED
    BY <1>2, <2>1, <2>2, GoingByKeeps
<1>. QED
  BY <1>3, <1>4 DEF Voids

LEMMA VoidStep ==
  ASSUME FiscalAssumption, VoidInv, [Next]_vars
  PROVE  VoidInv'
<1>1. TrueInv'
  BY TrueStep DEF VoidInv
<1>2. Voids'
  BY DeliveriesGoBy, ApplyGoesBy, StartsGoBy, SweepGoesBy, AroundVoids, SettleVoids, ReconcileVoids,
     MarkVoids, ClosingVoids, ProviderVoids, UnreachableVoids, CrashVoids DEF Next, Server
<1>3. FreshMarks'
  BY FreshStep DEF VoidInv, TrueInv
<1>. QED
  BY <1>1, <1>2, <1>3 DEF VoidInv, Voids

LEMMA VoidAlways ==
  ASSUME FiscalAssumption
  PROVE  Spec => []VoidInv
<1>1. Init => VoidInv
  <2>1. Init => /\ \A r \in Requests : call[r].answer = "none" /\ call[r].step = "none"
                /\ \A d \in Docs : /\ status[d] = "DRAFT" /\ audit[d] = "none" /\ baja[d] = "no"
    BY DEF Init, NoCall, Call
  <2>2. Init => TrueInv
    BY <2>1, InitTyped DEF TrueInv, AnswersAreTrue, AcceptedThereToo
  <2>. QED
    BY <2>1, <2>2 DEF VoidInv, FreshMarks, CallSorts, Sorted, VoidFacts, Requested, Registered, OwesNothing,
                      Communicated, VoidsAlone, AtVoid, HeardRight
<1>. QED
  BY <1>1, VoidStep, PTL DEF Spec

\* A void that SUNAT has is in progress or done here, however many calls void, consult
\* and send one document, at once and one after the other: the only others are one of
\* which the answer was lost, and one given back by a consultation that had asked of an
\* earlier void of the document, refused (Fiscal_void.cfg shows one).
THEOREM VoidsAreKnown ==
  ASSUME FiscalAssumption
  PROVE  Spec => []VoidIsRegistered
<1>1. VoidInv => VoidIsRegistered
  BY DEF VoidInv, VoidFacts, Registered, Communicated, VoidIsRegistered
<1>. QED
  BY <1>1, VoidAlways, PTL

\* No credit note lives on a document that is voided or being voided, nor a payment
\* but one registered while SUNAT decided: what is read before the call is read
\* again under the lock, and nothing gets in between, unless the void went unseen.
THEOREM NothingIsOwed ==
  ASSUME FiscalAssumption
  PROVE  Spec => []VoidedOwesNothing
<1>1. VoidInv => VoidedOwesNothing
  BY DEF VoidInv, VoidFacts, OwesNothing, VoidedOwesNothing
<1>. QED
  BY <1>1, VoidAlways, PTL

-----------------------------------------------------------------------------
(* The invoices of an order, Billing.tla.                                    *)
(*                                                                           *)
(* A step changes one document: it inserts a draft, drops it, numbers it or  *)
(* turns its state.  Quantities are sums over finite sets, and a change of   *)
(* one document changes them by what that document adds (QtyChanges).  The   *)
(* invariant says that what a transaction decided when it began still holds  *)
(* when it commits: nobody else has its document, nor numbers another note   *)
(* of the same invoice, nor has the order when it is one that locks it.      *)

CONSTANTS Documents, Ordered, Workers, Transactions
VARIABLES cancelled, doc, tx

Bill == INSTANCE Billing WITH Docs <- Documents, Operations <- Transactions

(* The documents.                                                            *)

\* The quantities of some documents of f, a value of `doc`.
Qty(f, ds) == SumFunctionOnSet([d \in Documents |-> f[d].qty], ds)

In(f, kind, statuses) == {d \in Documents : f[d].kind = kind /\ f[d].status \in statuses}
OfIn(f, i, statuses) == {n \in In(f, "note", statuses) : f[n].of = i}

\* What a document of value x adds to them.
Part(x, kind, statuses) == IF x.kind = kind /\ x.status \in statuses THEN x.qty ELSE 0
PartOf(x, i, statuses) ==
  IF x.kind = "note" /\ x.status \in statuses /\ x.of = i THEN x.qty ELSE 0

\* The document d becomes x.
Changes(f, d, x, g) == g = [f EXCEPT ![d] = x]

Amount(f, kind, statuses) == Qty(f, In(f, kind, statuses))
Given(f, i, statuses) == Qty(f, OfIn(f, i, statuses))

DocumentStatuses == {"DRAFT", "ISSUED", "ACCEPTED", "REJECTED", "VOID_PENDING", "VOIDED"}
DocType ==
  [kind : {"none", "invoice", "note"}, status : DocumentStatuses, manual : BOOLEAN,
   qty : Nat, of : Documents \cup {0}, fixes : Documents \cup {0}]
-----------------------------------------------------------------------------

\* The operators Billing takes from the library are those of this module.
LEMMA FiniteInBilling ==
  ASSUME NEW S
  PROVE  Bill!IsFiniteSet(S) <=> IsFiniteSet(S)
BY DEF Bill!IsFiniteSet, IsFiniteSet

LEMMA DocumentsFinite ==
  ASSUME Bill!BillingAssumption
  PROVE  IsFiniteSet(Documents)
BY FiniteInBilling DEF Bill!BillingAssumption

LEMMA SumInBilling ==
  ASSUME NEW f, NEW S
  PROVE  Bill!SumFunctionOnSet(f, S) = SumFunctionOnSet(f, S)
BY DEF Bill!SumFunctionOnSet, SumFunctionOnSet, Bill!FoldFunctionOnSet, FoldFunctionOnSet,
       Bill!MapThenFoldSet, MapThenFoldSet

LEMMA QtyNat ==
  ASSUME Bill!BillingAssumption, NEW f \in [Documents -> DocType], NEW A \in SUBSET Documents
  PROVE  Qty(f, A) \in Nat
<1>1. IsFiniteSet(A) BY FS_Subset, DocumentsFinite
<1>2. \A d \in A : [e \in Documents |-> f[e].qty][d] \in Nat BY DEF DocType
<1> QED BY <1>1, <1>2, SumNat DEF Qty

LEMMA QtyTakes ==
  ASSUME Bill!BillingAssumption, NEW f \in [Documents -> DocType], NEW A \in SUBSET Documents,
         NEW d \in A
  PROVE  Qty(f, A) = f[d].qty + Qty(f, A \ {d})
<1> DEFINE q == [e \in Documents |-> f[e].qty]
<1>1. IsFiniteSet(A) BY FS_Subset, DocumentsFinite
<1>2. \A e \in A : q[e] \in Int BY DEF DocType
<1>3. SumFunctionOnSet(q, A) = q[d] + SumFunctionOnSet(q, A \ {d})
  <2> HIDE DEF q
  <2> QED BY <1>1, <1>2, SumTakes
<1> QED BY <1>3 DEF Qty

LEMMA QtySame ==
  ASSUME Bill!BillingAssumption, NEW f \in [Documents -> DocType],
         NEW g \in [Documents -> DocType],
         NEW A \in SUBSET Documents, \A d \in A : f[d].qty = g[d].qty
  PROVE  Qty(f, A) = Qty(g, A)
<1> DEFINE q == [e \in Documents |-> f[e].qty]
           r == [e \in Documents |-> g[e].qty]
<1>1. IsFiniteSet(A) BY FS_Subset, DocumentsFinite
<1>2. \A e \in A : q[e] = r[e] OBVIOUS
<1>3. SumFunctionOnSet(q, A) = SumFunctionOnSet(r, A)
  <2> HIDE DEF q, r
  <2> QED BY <1>1, <1>2, SumSame
<1> QED BY <1>3 DEF Qty

LEMMA QtyLess ==
  ASSUME Bill!BillingAssumption, NEW f \in [Documents -> DocType], NEW A \in SUBSET Documents,
         NEW B \in SUBSET A
  PROVE  Qty(f, B) <= Qty(f, A)
<1> DEFINE q == [e \in Documents |-> f[e].qty]
<1>1. IsFiniteSet(A) BY FS_Subset, DocumentsFinite
<1>2. \A e \in A : q[e] \in Nat BY DEF DocType
<1>3. SumFunctionOnSet(q, B) <= SumFunctionOnSet(q, A)
  <2> HIDE DEF q
  <2> QED BY <1>1, <1>2, SumOfSubset
<1> QED BY <1>3 DEF Qty

LEMMA QtyNone ==
  ASSUME NEW f PROVE Qty(f, {}) = 0
BY SumEmpty DEF Qty

\* Without a document, a sum has what the document adds to it less.
LEMMA QtyWithout ==
  ASSUME Bill!BillingAssumption, NEW f \in [Documents -> DocType], NEW A \in SUBSET Documents,
         NEW d \in Documents
  PROVE  Qty(f, A \ {d}) = Qty(f, A) - IF d \in A THEN f[d].qty ELSE 0
<1>1. CASE d \in A
  <2>1. Qty(f, A) = f[d].qty + Qty(f, A \ {d}) BY <1>1, QtyTakes
  <2>2. Qty(f, A \ {d}) \in Nat /\ f[d].qty \in Nat BY QtyNat DEF DocType
  <2> QED BY <1>1, <2>1, <2>2
<1>2. CASE d \notin A
  <2>1. A \ {d} = A BY <1>2
  <2>2. Qty(f, A) \in Nat BY QtyNat
  <2> QED BY <1>2, <2>1, <2>2
<1> QED BY <1>1, <1>2

LEMMA QtyChanges ==
  ASSUME Bill!BillingAssumption, NEW f \in [Documents -> DocType], NEW d \in Documents,
         NEW x \in DocType,
         NEW g, Changes(f, d, x, g),
         NEW A \in SUBSET Documents, NEW B \in SUBSET Documents, A \ {d} = B \ {d}
  PROVE  Qty(g, B) = Qty(f, A) - (IF d \in A THEN f[d].qty ELSE 0)
                               + (IF d \in B THEN x.qty ELSE 0)
<1>1. g \in [Documents -> DocType] BY DEF Changes
<1>2. Qty(f, A \ {d}) = Qty(g, A \ {d})
  <2>1. A \ {d} \in SUBSET Documents /\ \A e \in A \ {d} : f[e].qty = g[e].qty BY DEF Changes
  <2> QED BY <1>1, <2>1, QtySame
<1>3. Qty(f, A \ {d}) = Qty(f, A) - IF d \in A THEN f[d].qty ELSE 0 BY QtyWithout
<1>4. Qty(g, B \ {d}) = Qty(g, B) - IF d \in B THEN g[d].qty ELSE 0 BY <1>1, QtyWithout
<1>5. g[d] = x BY DEF Changes
<1>6. Qty(f, A) \in Nat /\ Qty(g, B) \in Nat /\ f[d].qty \in Nat /\ x.qty \in Nat
  BY <1>1, QtyNat DEF DocType
<1>7. Qty(g, A \ {d}) = Qty(g, B \ {d}) OBVIOUS
<1> QED BY <1>2, <1>3, <1>4, <1>5, <1>6, <1>7

LEMMA AmountChanges ==
  ASSUME Bill!BillingAssumption, NEW f \in [Documents -> DocType], NEW d \in Documents,
         NEW x \in DocType,
         NEW g, Changes(f, d, x, g), NEW kind, NEW statuses
  PROVE  Amount(g, kind, statuses)
           = Amount(f, kind, statuses) - Part(f[d], kind, statuses) + Part(x, kind, statuses)
<1> DEFINE A == In(f, kind, statuses)
           B == In(g, kind, statuses)
<1>1. A \in SUBSET Documents /\ B \in SUBSET Documents /\ A \ {d} = B \ {d} BY DEF In, Changes
<1>2. (d \in A <=> f[d].kind = kind /\ f[d].status \in statuses)
      /\ (d \in B <=> x.kind = kind /\ x.status \in statuses) BY DEF In, Changes
<1>3. Qty(g, B) = Qty(f, A) - (IF d \in A THEN f[d].qty ELSE 0)
                            + (IF d \in B THEN x.qty ELSE 0)
  <2> HIDE DEF A, B
  <2> QED BY <1>1, QtyChanges
<1> QED BY <1>2, <1>3 DEF Amount, Part

LEMMA GivenChanges ==
  ASSUME Bill!BillingAssumption, NEW f \in [Documents -> DocType], NEW d \in Documents,
         NEW x \in DocType,
         NEW g, Changes(f, d, x, g), NEW i, NEW statuses
  PROVE  Given(g, i, statuses)
           = Given(f, i, statuses) - PartOf(f[d], i, statuses) + PartOf(x, i, statuses)
<1> DEFINE A == OfIn(f, i, statuses)
           B == OfIn(g, i, statuses)
<1>1. A \in SUBSET Documents /\ B \in SUBSET Documents /\ A \ {d} = B \ {d}
  BY DEF In, OfIn, Changes
<1>2. (d \in A <=> f[d].kind = "note" /\ f[d].status \in statuses /\ f[d].of = i)
      /\ (d \in B <=> x.kind = "note" /\ x.status \in statuses /\ x.of = i) BY DEF In, OfIn, Changes
<1>3. Qty(g, B) = Qty(f, A) - (IF d \in A THEN f[d].qty ELSE 0)
                            + (IF d \in B THEN x.qty ELSE 0)
  <2> HIDE DEF A, B
  <2> QED BY <1>1, QtyChanges
<1> QED BY <1>2, <1>3 DEF Given, PartOf

LEMMA AmountsNat ==
  ASSUME Bill!BillingAssumption, NEW f \in [Documents -> DocType], NEW i, NEW kind, NEW statuses
  PROVE  Amount(f, kind, statuses) \in Nat /\ Given(f, i, statuses) \in Nat
BY QtyNat DEF Amount, Given, In, OfIn

\* Leaving a document out is taking its part away.
LEMMA AmountWithout ==
  ASSUME Bill!BillingAssumption, NEW f \in [Documents -> DocType], NEW d \in Documents, NEW kind,
         NEW statuses
  PROVE  Qty(f, In(f, kind, statuses) \ {d})
           = Amount(f, kind, statuses) - Part(f[d], kind, statuses)
<1> DEFINE A == In(f, kind, statuses)
<1>1. A \in SUBSET Documents BY DEF In
<1>2. d \in A <=> f[d].kind = kind /\ f[d].status \in statuses BY DEF In
<1>3. Qty(f, A \ {d}) = Qty(f, A) - IF d \in A THEN f[d].qty ELSE 0
  <2> HIDE DEF A
  <2> QED BY <1>1, QtyWithout
<1> QED BY <1>2, <1>3 DEF Amount, Part

LEMMA GivenWithout ==
  ASSUME Bill!BillingAssumption, NEW f \in [Documents -> DocType], NEW d \in Documents, NEW i,
         NEW statuses
  PROVE  Qty(f, OfIn(f, i, statuses) \ {d})
           = Given(f, i, statuses) - PartOf(f[d], i, statuses)
<1> DEFINE A == OfIn(f, i, statuses)
<1>1. A \in SUBSET Documents BY DEF In, OfIn
<1>2. d \in A <=> f[d].kind = "note" /\ f[d].status \in statuses /\ f[d].of = i
  BY DEF In, OfIn
<1>3. Qty(f, A \ {d}) = Qty(f, A) - IF d \in A THEN f[d].qty ELSE 0
  <2> HIDE DEF A
  <2> QED BY <1>1, QtyWithout
<1> QED BY <1>2, <1>3 DEF Given, PartOf

\* The drafts count in what is committed, and not in what is invoiced.
LEMMA AliveIsLess ==
  ASSUME Bill!BillingAssumption, NEW f \in [Documents -> DocType]
  PROVE  Amount(f, "invoice", Bill!Alive) <= Amount(f, "invoice", Bill!Standing)
<1>1. In(f, "invoice", Bill!Standing) \in SUBSET Documents
      /\ In(f, "invoice", Bill!Alive) \in SUBSET In(f, "invoice", Bill!Standing)
  BY DEF In, Bill!Alive, Bill!Standing
<1> QED BY <1>1, QtyLess DEF Amount

\* The next row is one that nobody has.
LEMMA RowIsFree ==
  ASSUME Bill!BillingAssumption, Bill!Free # {}
  PROVE  Bill!Row \in Bill!Free
<1>1. Bill!Free \subseteq Nat BY DEF Bill!Free, Bill!BillingAssumption
<1>2. PICK d \in Bill!Free : \A e \in Bill!Free : ~(<<e, d>> \in OpToRel(<, Nat))
  BY <1>1, NatLessThanWellFounded, WFMin
<1>3. ASSUME NEW e \in Bill!Free PROVE d <= e
  <2>1. ~(e < d) BY <1>1, <1>2 DEF OpToRel
  <2> QED BY <1>1, <2>1
<1> QED BY <1>3 DEF Bill!Row
-----------------------------------------------------------------------------
(* What one document may become: a row that is inserted, a draft that is    *)
(* dropped or takes its number, a document whose state turns.               *)

IsDraft(x) == x.kind # "none" /\ x.status = "DRAFT"

\* i may be credited: an invoice that has been sent.
IsAffected(f, i) == i \in Documents /\ f[i].kind = "invoice" /\ f[i].status # "DRAFT"

IsSame(x, y) == x.kind = y.kind /\ x.qty = y.qty /\ x.of = y.of

Inserts(f, d, x) ==
  f[d] = Bill!NoDocument /\ IsDraft(x) /\ (x.kind = "note" => IsAffected(f, x.of))
Drops(f, d, x) == IsDraft(f[d]) /\ x = Bill!NoDocument
Numbers(f, d, x) == IsDraft(f[d]) /\ IsSame(x, f[d]) /\ x.status \in {"ISSUED", "ACCEPTED"}
Turns(f, d, x) ==
  /\ f[d].kind # "none" /\ f[d].status \in Bill!Alive /\ IsSame(x, f[d]) /\ x.status # "DRAFT"
  /\ f[d].kind = "note" /\ x.status \notin {"ISSUED", "ACCEPTED"} => "undo-note" \in Transactions

MovesOfInvoices(f, d, x) == Inserts(f, d, x) \/ Drops(f, d, x) \/ Numbers(f, d, x) \/ Turns(f, d, x)

\* The documents of f: who is not one is blank; a note has an invoice that was sent, and
\* what the notes give back of it is no more than it has.
Sound(f) ==
  /\ \A d \in Documents : f[d].kind = "none" => f[d] = Bill!NoDocument
  /\ \A n \in Documents : f[n].kind = "note" => IsAffected(f, f[n].of)
  /\ \A n \in Documents :
       f[n].kind = "note" /\ f[n].status = "VOID_PENDING" => "undo-note" \in Transactions
  /\ \A i \in Documents : Given(f, i, Bill!Alive) <= IF IsAffected(f, i) THEN f[i].qty ELSE 0

\* A note that takes its number, of quantity q, has room in the document i.
HasRoom(f, i, q) == IsAffected(f, i) /\ Given(f, i, Bill!Alive) + q <= f[i].qty

LEMMA DocFacts ==
  ASSUME NEW f \in [Documents -> DocType], NEW d \in Documents
  PROVE  /\ f[d] \in DocType
         /\ f[d].kind \in {"none", "invoice", "note"} /\ f[d].status \in DocumentStatuses
         /\ f[d].qty \in Nat /\ f[d].of \in Documents \cup {0}
BY DEF DocType

LEMMA NoDocumentFacts ==
  /\ Bill!NoDocument \in DocType
  /\ Bill!NoDocument.kind = "none" /\ Bill!NoDocument.status = "DRAFT" /\ Bill!NoDocument.qty = 0
  /\ Bill!NoDocument.of = 0
BY DEF Bill!NoDocument, Bill!Document, DocType, DocumentStatuses

LEMMA ChangeFacts ==
  ASSUME NEW f \in [Documents -> DocType], NEW d \in Documents, NEW x \in DocType, NEW g,
         Changes(f, d, x, g)
  PROVE  /\ g \in [Documents -> DocType] /\ g[d] = x
         /\ \A e \in Documents : e # d => g[e] = f[e]
BY DEF Changes

\* What may be credited stays so, with its quantity.
LEMMA AffectedStays ==
  ASSUME NEW f \in [Documents -> DocType], NEW d \in Documents, NEW x \in DocType, NEW g,
         Changes(f, d, x, g), MovesOfInvoices(f, d, x), NEW i, IsAffected(f, i)
  PROVE  IsAffected(g, i) /\ g[i].qty = f[i].qty
<1>1. g[d] = x /\ \A e \in Documents : e # d => g[e] = f[e] BY ChangeFacts
<1>2. CASE i # d BY <1>1, <1>2 DEF IsAffected
<1>3. CASE i = d
  <2>1. f[d].kind = "invoice" /\ f[d].status # "DRAFT" BY <1>3 DEF IsAffected
  <2>2. Turns(f, d, x)
    BY <2>1, NoDocumentFacts DEF MovesOfInvoices, Inserts, Drops, Numbers, IsDraft
  <2> QED BY <1>1, <1>3, <2>1, <2>2 DEF Turns, IsSame, IsAffected
<1> QED BY <1>2, <1>3

\* How much what is given back of i grows.
LEMMA GivenMoves ==
  ASSUME Bill!BillingAssumption, NEW f \in [Documents -> DocType], NEW d \in Documents,
         NEW x \in DocType,
         NEW g, Changes(f, d, x, g), MovesOfInvoices(f, d, x), NEW i
  PROVE  /\ Given(f, i, Bill!Alive) \in Nat /\ Given(g, i, Bill!Alive) \in Nat
         /\ \/ Given(g, i, Bill!Alive) <= Given(f, i, Bill!Alive)
            \/ /\ Numbers(f, d, x) /\ f[d].kind = "note" /\ f[d].of = i
               /\ Given(g, i, Bill!Alive) = Given(f, i, Bill!Alive) + f[d].qty
<1>1. Given(g, i, Bill!Alive) = Given(f, i, Bill!Alive) - PartOf(f[d], i, Bill!Alive) + PartOf(x, i, Bill!Alive)
  BY GivenChanges
<1>2. Given(f, i, Bill!Alive) \in Nat /\ Given(g, i, Bill!Alive) \in Nat
  BY AmountsNat, ChangeFacts
<1>3. f[d].qty \in Nat /\ x.qty \in Nat BY DEF DocType
<1>4. CASE Inserts(f, d, x) \/ Drops(f, d, x)
  <2>1. PartOf(x, i, Bill!Alive) = 0
    BY <1>4, NoDocumentFacts DEF Inserts, Drops, IsDraft, PartOf, Bill!Alive
  <2>2. PartOf(f[d], i, Bill!Alive) \in Nat BY <1>3 DEF PartOf
  <2> QED BY <1>1, <1>2, <2>1, <2>2
<1>5. CASE Turns(f, d, x)
  <2>1. PartOf(x, i, Bill!Alive) <= PartOf(f[d], i, Bill!Alive)
    BY <1>3, <1>5 DEF Turns, IsSame, PartOf
  <2>2. PartOf(f[d], i, Bill!Alive) \in Nat /\ PartOf(x, i, Bill!Alive) \in Nat
    BY <1>3 DEF PartOf
  <2> QED BY <1>1, <1>2, <2>1, <2>2
<1>6. CASE Numbers(f, d, x)
  <2>1. PartOf(f[d], i, Bill!Alive) = 0 BY <1>6 DEF Numbers, IsDraft, PartOf, Bill!Alive
  <2>2. CASE f[d].kind = "note" /\ f[d].of = i
    <3>1. PartOf(x, i, Bill!Alive) = f[d].qty
      BY <1>6, <2>2 DEF Numbers, IsSame, PartOf, Bill!Alive
    <3> QED BY <1>1, <1>2, <1>3, <1>6, <2>1, <2>2, <3>1
  <2>3. CASE ~(f[d].kind = "note" /\ f[d].of = i)
    <3>1. PartOf(x, i, Bill!Alive) = 0 BY <1>6, <2>3 DEF Numbers, IsSame, PartOf
    <3> QED BY <1>1, <1>2, <2>1, <3>1
  <2> QED BY <2>2, <2>3
<1> QED BY <1>2, <1>4, <1>5, <1>6 DEF MovesOfInvoices

LEMMA SoundStays ==
  ASSUME Bill!BillingAssumption, NEW f \in [Documents -> DocType], NEW d \in Documents,
         NEW x \in DocType,
         NEW g, Changes(f, d, x, g), MovesOfInvoices(f, d, x), Sound(f),
         Numbers(f, d, x) /\ f[d].kind = "note" => HasRoom(f, f[d].of, f[d].qty)
  PROVE  Sound(g)
<1>1. /\ g \in [Documents -> DocType] /\ g[d] = x
      /\ \A e \in Documents : e # d => g[e] = f[e]
  BY ChangeFacts
<1>2. ASSUME NEW e \in Documents, g[e].kind = "none" PROVE g[e] = Bill!NoDocument
  <2>1. CASE e = d
    <3>1. x.kind = "none" => Drops(f, d, x)
      BY DEF MovesOfInvoices, Inserts, Numbers, Turns, IsDraft, IsSame
    <3> QED BY <1>1, <1>2, <2>1, <3>1 DEF Drops
  <2>2. CASE e # d BY <1>1, <1>2, <2>2 DEF Sound
  <2> QED BY <2>1, <2>2
<1>3. ASSUME NEW n \in Documents, g[n].kind = "note" PROVE IsAffected(g, g[n].of)
  <2>1. IsAffected(f, g[n].of)
    <3>1. CASE n = d
      <4>1. x.kind = "note" BY <1>1, <1>3, <3>1
      <4>2. CASE Inserts(f, d, x) BY <1>1, <3>1, <4>1, <4>2 DEF Inserts
      <4>3. CASE Drops(f, d, x) BY <4>1, <4>3, NoDocumentFacts DEF Drops
      <4>4. CASE Numbers(f, d, x) \/ Turns(f, d, x)
        BY <1>1, <3>1, <4>1, <4>4 DEF Numbers, Turns, IsSame, Sound
      <4> QED BY <4>2, <4>3, <4>4 DEF MovesOfInvoices
    <3>2. CASE n # d BY <1>1, <1>3, <3>2 DEF Sound
    <3> QED BY <3>1, <3>2
  <2> QED BY <2>1, AffectedStays
<1>4. ASSUME NEW n \in Documents, g[n].kind = "note", g[n].status = "VOID_PENDING"
      PROVE  "undo-note" \in Transactions
  <2>1. CASE n = d
    <3>1. Turns(f, d, x)
      BY <1>1, <1>4, <2>1, NoDocumentFacts DEF MovesOfInvoices, Inserts, Drops, Numbers, IsDraft
    <3> QED BY <1>1, <1>4, <2>1, <3>1 DEF Turns, IsSame
  <2>2. CASE n # d BY <1>1, <1>4, <2>2 DEF Sound
  <2> QED BY <2>1, <2>2
<1>5. ASSUME NEW i \in Documents
      PROVE  Given(g, i, Bill!Alive) <= IF IsAffected(g, i) THEN g[i].qty ELSE 0
  <2>1. /\ Given(f, i, Bill!Alive) \in Nat /\ Given(g, i, Bill!Alive) \in Nat
        /\ \/ Given(g, i, Bill!Alive) <= Given(f, i, Bill!Alive)
           \/ /\ Numbers(f, d, x) /\ f[d].kind = "note" /\ f[d].of = i
              /\ Given(g, i, Bill!Alive) = Given(f, i, Bill!Alive) + f[d].qty
    BY GivenMoves
  <2>2. Given(f, i, Bill!Alive) <= IF IsAffected(f, i) THEN f[i].qty ELSE 0 BY DEF Sound
  <2>3. IsAffected(f, i) => IsAffected(g, i) /\ g[i].qty = f[i].qty BY AffectedStays
  <2>4. f[i].qty \in Nat /\ g[i].qty \in Nat BY <1>1 DEF DocType
  <2>5. CASE Given(g, i, Bill!Alive) <= Given(f, i, Bill!Alive)
    BY <2>1, <2>2, <2>3, <2>4, <2>5
  <2>6. CASE /\ Numbers(f, d, x) /\ f[d].kind = "note" /\ f[d].of = i
             /\ Given(g, i, Bill!Alive) = Given(f, i, Bill!Alive) + f[d].qty
    BY <2>3, <2>6 DEF HasRoom
  <2> QED BY <2>1, <2>5, <2>6
<1> QED BY <1>2, <1>3, <1>4, <1>5 DEF Sound
-----------------------------------------------------------------------------
(* The transactions in progress.                                            *)

LEMMA Locks ==
  ASSUME NEW d, NEW new
  PROVE  /\ Bill!LocksOf("create", d, new) = {Bill!TheOrder}
         /\ Bill!LocksOf("note", d, new) = {new.of}
         /\ Bill!LocksOf("assign", d, new) = Bill!AndAffected(d)
         /\ Bill!LocksOf("register", d, new) = Bill!AndAffected(d) \cup {Bill!TheOrder}
         /\ Bill!LocksOf("discard", d, new) = {d}
         /\ Bill!LocksOf("void", d, new) = {d}
         /\ Bill!TheOrder \in Bill!LocksOf("cancel", d, new)
BY DEF Bill!LocksOf, Bill!CreateLocks, Bill!AssignLocks
Adding     == {"create", "note", "correct"}
Issuing    == {"assign", "register"}
WithOrder  == {"create", "register", "cancel"}
OpsOfInvoices        == Adding \cup Issuing \cup {"none", "discard", "void", "cancel"}
TxType     == [op : OpsOfInvoices, doc : Documents \cup {0}, new : DocType]

\* What the transaction t decided still holds of the documents f.
InProgress(t, f) ==
  /\ t.op \in Adding =>
       /\ t.doc \in Documents /\ Inserts(f, t.doc, t.new)
       /\ t.op = "create" => t.new.kind = "invoice"
       /\ t.op = "note" => t.new.kind = "note"
       /\ t.op = "correct" => "correct" \in Transactions
  /\ t.op \in Issuing =>
       /\ t.doc \in Documents /\ Numbers(f, t.doc, t.new)
       /\ f[t.doc].kind = "note" => HasRoom(f, f[t.doc].of, f[t.doc].qty)
  /\ t.op = "discard" => t.doc \in Documents /\ Drops(f, t.doc, t.new)
  /\ t.op = "void" => t.doc \in Documents /\ Turns(f, t.doc, t.new)
  /\ t.op \in {"none", "cancel"} => t.doc = 0
  /\ t.op = "none" => t = Bill!NoTx

\* Two transactions have a document each; one of them has the order; and they do not give
\* numbers to two notes of one document.
AreApart(s, t, f) ==
  /\ s.doc = t.doc => s.doc = 0
  /\ s.op \in WithOrder => t.op \notin WithOrder
  /\ s.op \in Issuing /\ t.op \in Issuing
     /\ f[s.doc].kind = "note" /\ f[t.doc].kind = "note" => f[s.doc].of # f[t.doc].of

BillingTyped ==
  /\ cancelled \in BOOLEAN
  /\ doc \in [Documents -> DocType]
  /\ tx \in [Workers -> TxType]

Inv ==
  /\ BillingTyped /\ Sound(doc)
  /\ \A w \in Workers : InProgress(tx[w], doc)
  /\ \A v, w \in Workers : v # w => AreApart(tx[v], tx[w], doc)

LEMMA OpIsOne ==
  ASSUME NEW t \in TxType
  PROVE  /\ t.op \in OpsOfInvoices /\ t.doc \in Documents \cup {0} /\ t.new \in DocType
         /\ \/ t.op \in Adding \/ t.op \in Issuing
            \/ t.op = "none" \/ t.op = "discard" \/ t.op = "void" \/ t.op = "cancel"
BY DEF TxType, OpsOfInvoices

\* What is in progress commits a move.
LEMMA InProgressMoves ==
  ASSUME NEW t \in TxType, NEW f, InProgress(t, f), t.op \notin {"none", "cancel"}
  PROVE  /\ t.doc \in Documents /\ MovesOfInvoices(f, t.doc, t.new)
         /\ Numbers(f, t.doc, t.new) /\ f[t.doc].kind = "note"
              => HasRoom(f, f[t.doc].of, f[t.doc].qty)
<1>1. CASE t.op \in Adding
  <2>1. t.doc \in Documents /\ Inserts(f, t.doc, t.new) BY <1>1 DEF InProgress
  <2>2. ~Numbers(f, t.doc, t.new) BY <2>1, NoDocumentFacts DEF Inserts, Numbers, IsDraft
  <2> QED BY <2>1, <2>2 DEF MovesOfInvoices
<1>2. CASE t.op \in Issuing BY <1>2 DEF InProgress, MovesOfInvoices
<1>3. CASE t.op = "discard"
  <2>1. t.doc \in Documents /\ Drops(f, t.doc, t.new) BY <1>3 DEF InProgress
  <2>2. ~Numbers(f, t.doc, t.new) BY <2>1, NoDocumentFacts DEF Drops, Numbers
  <2> QED BY <2>1, <2>2 DEF MovesOfInvoices
<1>4. CASE t.op = "void"
  <2>1. t.doc \in Documents /\ Turns(f, t.doc, t.new) BY <1>4 DEF InProgress
  <2>2. ~Numbers(f, t.doc, t.new) BY <2>1 DEF Turns, Numbers, IsDraft, Bill!Alive
  <2> QED BY <2>1, <2>2 DEF MovesOfInvoices
<1> QED BY <1>1, <1>2, <1>3, <1>4, OpIsOne

\* A move of another document leaves what is in progress as it was, when it does not take
\* the room of the note that is.
LEMMA InProgressStays ==
  ASSUME Bill!BillingAssumption, NEW f \in [Documents -> DocType], NEW d \in Documents,
         NEW x \in DocType,
         NEW g, Changes(f, d, x, g), MovesOfInvoices(f, d, x),
         NEW t \in TxType, t.doc # d, InProgress(t, f),
         Numbers(f, d, x) /\ f[d].kind = "note" /\ t.op \in Issuing /\ f[t.doc].kind = "note"
           => f[t.doc].of # f[d].of
  PROVE  InProgress(t, g)
<1>1. /\ g \in [Documents -> DocType] /\ g[d] = x
      /\ \A e \in Documents : e # d => g[e] = f[e]
  BY ChangeFacts
<1>2. t.doc \in Documents => g[t.doc] = f[t.doc] BY <1>1
<1>3. CASE t.op \in Adding
  <2>1. /\ t.doc \in Documents /\ Inserts(f, t.doc, t.new)
        /\ t.op = "create" => t.new.kind = "invoice"
        /\ t.op = "note" => t.new.kind = "note"
        /\ t.op = "correct" => "correct" \in Transactions
    BY <1>3 DEF InProgress
  <2>2. t.new.kind = "note" => IsAffected(g, t.new.of) BY <2>1, AffectedStays DEF Inserts
  <2>3. Inserts(g, t.doc, t.new) BY <1>2, <2>1, <2>2 DEF Inserts
  <2> QED BY <1>3, <2>1, <2>3 DEF InProgress, Adding, Issuing
<1>4. CASE t.op \in Issuing
  <2>1. /\ t.doc \in Documents /\ Numbers(f, t.doc, t.new)
        /\ f[t.doc].kind = "note" => HasRoom(f, f[t.doc].of, f[t.doc].qty)
    BY <1>4 DEF InProgress
  <2>2. Numbers(g, t.doc, t.new) BY <1>2, <2>1 DEF Numbers
  <2>3. ASSUME g[t.doc].kind = "note" PROVE HasRoom(g, g[t.doc].of, g[t.doc].qty)
    <3> DEFINE i == f[t.doc].of
               q == f[t.doc].qty
    <3>1. f[t.doc].kind = "note" /\ g[t.doc].of = i /\ g[t.doc].qty = q BY <1>2, <2>1, <2>3
    <3>2. IsAffected(f, i) /\ Given(f, i, Bill!Alive) + q <= f[i].qty BY <2>1, <3>1 DEF HasRoom
    <3>3. IsAffected(g, i) /\ g[i].qty = f[i].qty BY <3>2, AffectedStays
    <3>4. /\ Given(f, i, Bill!Alive) \in Nat /\ Given(g, i, Bill!Alive) \in Nat
          /\ \/ Given(g, i, Bill!Alive) <= Given(f, i, Bill!Alive)
             \/ Numbers(f, d, x) /\ f[d].kind = "note" /\ f[d].of = i
      BY GivenMoves
    <3>5. Given(g, i, Bill!Alive) <= Given(f, i, Bill!Alive) BY <1>4, <3>1, <3>4
    <3>6. f[i].qty \in Nat /\ q \in Nat BY <2>1, <3>2, DocFacts DEF IsAffected
    <3> HIDE DEF i, q
    <3> QED BY <3>1, <3>2, <3>3, <3>4, <3>5, <3>6 DEF HasRoom
  <2> QED BY <1>4, <2>1, <2>2, <2>3 DEF InProgress, Adding, Issuing
<1>5. CASE t.op = "discard" BY <1>2, <1>5 DEF InProgress, Drops, Adding, Issuing
<1>6. CASE t.op = "void" BY <1>2, <1>6 DEF InProgress, Turns, Adding, Issuing
<1>7. CASE t.op = "none" \/ t.op = "cancel" BY <1>7 DEF InProgress, Adding, Issuing
<1> QED BY <1>3, <1>4, <1>5, <1>6, <1>7, OpIsOne

LEMMA ApartStays ==
  ASSUME NEW f \in [Documents -> DocType], NEW d \in Documents, NEW x \in DocType,
         NEW g, Changes(f, d, x, g), NEW s \in TxType, NEW t \in TxType,
         s.doc # d, t.doc # d, InProgress(s, f), InProgress(t, f), AreApart(s, t, f)
  PROVE  AreApart(s, t, g)
<1>1. \A e \in Documents : e # d => g[e] = f[e] BY ChangeFacts
<1>2. s.op \in Issuing => s.doc \in Documents BY DEF InProgress
<1>3. t.op \in Issuing => t.doc \in Documents BY DEF InProgress
<1> QED BY <1>1, <1>2, <1>3 DEF AreApart
-----------------------------------------------------------------------------
(* The steps.                                                               *)

\* A transaction holds the document it takes, and the one a note gives back of.
LEMMA HeldRows ==
  ASSUME NEW op, NEW d, NEW new
  PROVE  /\ op \in WithOrder => Bill!TheOrder \in Bill!LocksOf(op, d, new)
         /\ op \in Issuing => Bill!AndAffected(d) \subseteq Bill!LocksOf(op, d, new)
         /\ op \in {"discard", "void"} => d \in Bill!LocksOf(op, d, new)
BY Locks DEF WithOrder, Issuing

LEMMA NoTxFacts ==
  /\ Bill!NoTx \in TxType /\ Bill!NoTx.op = "none" /\ Bill!NoTx.doc = 0
  /\ \A f : InProgress(Bill!NoTx, f)
  /\ \A t, f : AreApart(Bill!NoTx, t, f) /\ AreApart(t, Bill!NoTx, f)
<1>1. Bill!NoTx = [op |-> "none", doc |-> 0, new |-> Bill!NoDocument] BY DEF Bill!NoTx, Bill!Tx
<1>2. Bill!NoTx \in TxType /\ Bill!NoTx.op = "none" /\ Bill!NoTx.doc = 0
  BY <1>1, NoDocumentFacts DEF TxType, OpsOfInvoices
<1>3. \A f : InProgress(Bill!NoTx, f) BY <1>2 DEF InProgress, Adding, Issuing
<1>4. \A t, f : AreApart(Bill!NoTx, t, f) /\ AreApart(t, Bill!NoTx, f)
  BY <1>2 DEF AreApart, WithOrder, Issuing
<1> QED BY <1>2, <1>3, <1>4

LEMMA BeginKeeps ==
  ASSUME Bill!BillingAssumption, Inv, NEW w \in Workers, NEW op \in OpsOfInvoices,
         NEW d \in Documents \cup {0},
         NEW new \in DocType, Bill!Begin(w, op, d, new), InProgress(Bill!Tx(op, d, new), doc),
         op \in Adding => d \in Bill!Free
  PROVE  Inv'
<1> USE DEF BillingTyped
<1>1. PICK t \in TxType : t = Bill!Tx(op, d, new) BY DEF Bill!Tx, TxType
<1>2. t.op = op /\ t.doc = d /\ t.new = new BY <1>1 DEF Bill!Tx
<1>3. /\ tx' = [tx EXCEPT ![w] = t] /\ UNCHANGED <<cancelled, doc>>
      /\ Bill!Unlocked(Bill!LocksOf(op, d, new))
  BY <1>1 DEF Bill!Begin
<1>4. tx' \in [Workers -> TxType] /\ tx'[w] = t /\ \A v \in Workers : v # w => tx'[v] = tx[v]
  BY <1>3 DEF Inv
<1>5. InProgress(t, doc) BY <1>1
<1>6. ASSUME NEW v \in Workers, v # w PROVE AreApart(t, tx[v], doc) /\ AreApart(tx[v], t, doc)
  <2>1. tx[v] \in TxType /\ InProgress(tx[v], doc) BY DEF Inv
  <2>2. Bill!LocksOf(tx[v].op, tx[v].doc, tx[v].new) \cap Bill!LocksOf(op, d, new) = {}
    BY <1>3 DEF Bill!Unlocked, Bill!Held
  <2>3. ~(op \in WithOrder /\ tx[v].op \in WithOrder) BY <2>2, HeldRows
  <2>4. ASSUME tx[v].doc = d, d # 0 PROVE FALSE
    <3>1. d \in Documents /\ tx[v].op \notin {"none", "cancel"} BY <2>1, <2>4 DEF InProgress
    <3>2. op \notin Adding BY <2>4 DEF Bill!Free
    <3>3. doc[d].kind # "none" /\ op \notin {"none", "cancel"}
      <4>1. op \in Issuing \/ op = "discard" \/ op = "void" \/ op \in {"none", "cancel"}
        BY <3>2 DEF OpsOfInvoices
      <4> QED BY <1>2, <1>5, <2>4, <4>1 DEF InProgress, Numbers, Drops, Turns, IsDraft
    <3>4. d \in Bill!LocksOf(op, d, new)
      <4>1. op \in Issuing \/ op \in {"discard", "void"} BY <3>2, <3>3 DEF OpsOfInvoices
      <4>2. d \in Bill!AndAffected(d) BY <2>4 DEF Bill!AndAffected
      <4> QED BY <4>1, <4>2, HeldRows
    <3>5. tx[v].op \notin Adding
      BY <2>1, <2>4, <3>3, NoDocumentFacts DEF InProgress, Inserts
    <3>6. d \in Bill!LocksOf(tx[v].op, tx[v].doc, tx[v].new)
      <4>1. tx[v].op \in Issuing \/ tx[v].op \in {"discard", "void"}
        BY <2>1, <3>1, <3>5, OpIsOne
      <4>2. d \in Bill!AndAffected(d) BY <2>4 DEF Bill!AndAffected
      <4> QED BY <2>4, <4>1, <4>2, HeldRows
    <3> QED BY <2>2, <3>4, <3>6
  <2>5. ASSUME op \in Issuing, tx[v].op \in Issuing, doc[d].kind = "note",
               doc[tx[v].doc].kind = "note", doc[d].of = doc[tx[v].doc].of
        PROVE  FALSE
    <3>1. HasRoom(doc, doc[d].of, doc[d].qty) BY <1>2, <1>5, <2>5 DEF InProgress
    <3>2. doc[d].of # 0 BY <3>1 DEF HasRoom, IsAffected, Bill!BillingAssumption
    <3>3. doc[d].of \in Bill!AndAffected(d) /\ doc[d].of \in Bill!AndAffected(tx[v].doc)
      BY <2>5, <3>2 DEF Bill!AndAffected
    <3> QED BY <2>2, <2>5, <3>3, HeldRows
  <2> QED BY <1>2, <2>3, <2>4, <2>5 DEF AreApart
<1>7. BillingTyped' BY <1>3, <1>4 DEF Inv
<1>8. Sound(doc') BY <1>3 DEF Inv
<1>9. \A v \in Workers : InProgress(tx'[v], doc') BY <1>3, <1>4, <1>5 DEF Inv
<1>10. \A u, v \in Workers : u # v => AreApart(tx'[u], tx'[v], doc')
  BY <1>3, <1>4, <1>6 DEF Inv
<1> QED BY <1>7, <1>8, <1>9, <1>10 DEF Inv

LEMMA CommitKeeps ==
  ASSUME Bill!BillingAssumption, Inv, NEW w \in Workers, Bill!Commit(w)
  PROVE  Inv'
<1> USE DEF BillingTyped
<1>1. PICK t \in TxType : t = tx[w] BY DEF Inv
<1>2. InProgress(t, doc) /\ t.op # "none" BY <1>1 DEF Inv, Bill!Commit, InProgress
<1>3. tx' \in [Workers -> TxType] /\ tx'[w] = Bill!NoTx /\ \A v \in Workers : v # w => tx'[v] = tx[v]
  BY NoTxFacts DEF Inv, Bill!Commit
<1>4. \A v \in Workers : v # w => tx[v] \in TxType /\ InProgress(tx[v], doc) BY DEF Inv
<1>5. CASE UNCHANGED doc
  <2>1. cancelled' \in BOOLEAN BY DEF Inv, Bill!Commit
  <2>2. \A v \in Workers : InProgress(tx'[v], doc') BY <1>3, <1>4, <1>5, NoTxFacts
  <2>3. \A u, v \in Workers : u # v => AreApart(tx'[u], tx'[v], doc')
    BY <1>3, <1>5, NoTxFacts DEF Inv
  <2> QED BY <1>3, <1>5, <2>1, <2>2, <2>3 DEF Inv
<1>6. CASE t.op # "cancel" /\ doc' = [doc EXCEPT ![t.doc] = t.new]
  <2>1. /\ t.doc \in Documents /\ t.doc # 0 /\ t.new \in DocType /\ MovesOfInvoices(doc, t.doc, t.new)
        /\ Numbers(doc, t.doc, t.new) /\ doc[t.doc].kind = "note"
             => HasRoom(doc, doc[t.doc].of, doc[t.doc].qty)
    BY <1>2, <1>6, InProgressMoves, OpIsOne DEF Bill!BillingAssumption
  <2>2. Changes(doc, t.doc, t.new, doc') BY <1>6 DEF Changes
  <2>3. doc' \in [Documents -> DocType] BY <2>1, <2>2, ChangeFacts DEF Inv
  <2>4. Sound(doc') BY <2>1, <2>2, SoundStays DEF Inv
  <2>5. ASSUME NEW v \in Workers, v # w PROVE InProgress(tx[v], doc') /\ tx[v].doc # t.doc
    <3>1. AreApart(tx[v], t, doc) BY <1>1, <2>5 DEF Inv
    <3>2. tx[v].doc # t.doc BY <2>1, <3>1 DEF AreApart
    <3>3. ASSUME Numbers(doc, t.doc, t.new), doc[t.doc].kind = "note",
                 tx[v].op \in Issuing, doc[tx[v].doc].kind = "note"
          PROVE  doc[tx[v].doc].of # doc[t.doc].of
      <4>1. t.op \in Issuing
        <5>1. t.op \notin Adding
          BY <1>2, <3>3, NoDocumentFacts DEF InProgress, Inserts
        <5>2. t.op # "discard"
          BY <1>2, <3>3, NoDocumentFacts DEF InProgress, Drops, Numbers
        <5>3. t.op # "void"
          BY <1>2, <3>3 DEF InProgress, Turns, Numbers, IsDraft, Bill!Alive
        <5> QED BY <1>2, <1>6, <5>1, <5>2, <5>3, OpIsOne
      <4> QED BY <3>1, <3>3, <4>1 DEF AreApart
    <3> QED BY <1>4, <2>1, <2>2, <2>5, <3>2, <3>3, InProgressStays DEF Inv
  <2>6. \A v \in Workers : InProgress(tx'[v], doc') BY <1>3, <2>5, NoTxFacts
  <2>7. ASSUME NEW u \in Workers, NEW v \in Workers, u # v PROVE AreApart(tx'[u], tx'[v], doc')
    <3>1. CASE u = w \/ v = w BY <1>3, <3>1, NoTxFacts
    <3>2. CASE u # w /\ v # w
      <4>1. AreApart(tx[u], tx[v], doc) BY <2>7 DEF Inv
      <4>2. AreApart(tx[u], tx[v], doc')
        BY <1>4, <2>1, <2>2, <2>5, <3>2, <4>1, ApartStays DEF Inv
      <4> QED BY <1>3, <3>2, <4>2
    <3> QED BY <3>1, <3>2
  <2>8. cancelled' \in BOOLEAN BY DEF Inv, Bill!Commit
  <2> QED BY <1>3, <2>3, <2>4, <2>6, <2>7, <2>8 DEF Inv
<1>7. UNCHANGED doc \/ (t.op # "cancel" /\ doc' = [doc EXCEPT ![t.doc] = t.new])
  <2>1. CASE tx[w].op = "cancel" BY <2>1 DEF Bill!Commit
  <2>2. CASE tx[w].op = "correct" /\ Bill!Corrections(tx[w].new.fixes) # {}
    BY <2>2 DEF Bill!Commit
  <2>3. CASE tx[w].op # "cancel" /\ ~(tx[w].op = "correct" /\ Bill!Corrections(tx[w].new.fixes) # {})
    <3>1. doc' = [doc EXCEPT ![tx[w].doc] = tx[w].new] BY <2>3 DEF Bill!Commit
    <3> QED BY <1>1, <2>3, <3>1
  <2> QED BY <2>1, <2>2, <2>3
<1> QED BY <1>5, <1>6, <1>7
\* What SUNAT answers turns a document that nobody holds.
LEMMA AnswerTurns ==
  ASSUME Bill!BillingAssumption, Inv, NEW d \in Documents, Bill!Answer(d)
  PROVE  /\ UNCHANGED <<cancelled, tx>>
         /\ \A w \in Workers : tx[w].doc # d
         /\ \E x \in DocType : Changes(doc, d, x, doc') /\ Turns(doc, d, x)
<1>1. PICK answer \in {"ACCEPTED", "REJECTED", "VOIDED"} :
        /\ Bill!Answered(d, answer)
        /\ doc[d].status \in {"ISSUED", "VOID_PENDING"}
        /\ doc[d].status = "ISSUED" => doc[d].kind # "none"
        /\ doc[d].kind = "note" /\ answer # "ACCEPTED" =>
             "undo-note" \in Transactions \/ doc[d].status = "VOID_PENDING"
  BY DEF Bill!Answer
<1>2. PICK x \in DocType : x = [doc[d] EXCEPT !.status = answer]
  BY DEF Inv, BillingTyped, DocType, DocumentStatuses
<1>3. IsSame(x, doc[d]) /\ x.status = answer
  BY <1>2 DEF Inv, BillingTyped, DocType, IsSame
<1>4. Changes(doc, d, x, doc') BY <1>1, <1>2 DEF Bill!Answered, Changes
<1>5. doc[d].kind # "none" BY <1>1, NoDocumentFacts DEF Inv, Sound
<1>6. doc[d].kind = "note" /\ answer # "ACCEPTED" => "undo-note" \in Transactions
  BY <1>1 DEF Inv, Sound
<1>7. Turns(doc, d, x) BY <1>1, <1>3, <1>5, <1>6 DEF Turns, Bill!Alive
<1>8. ASSUME NEW w \in Workers, tx[w].doc = d PROVE FALSE
  <2>1. tx[w] \in TxType /\ InProgress(tx[w], doc) BY DEF Inv, BillingTyped
  <2>2. d \notin Bill!LocksOf(tx[w].op, tx[w].doc, tx[w].new)
    BY <1>1 DEF Bill!Answered, Bill!Unlocked, Bill!Held
  <2>3. tx[w].op \notin Adding
    BY <1>5, <1>8, <2>1, NoDocumentFacts DEF InProgress, Inserts
  <2>4. CASE tx[w].op \in Issuing \/ tx[w].op = "discard"
    BY <1>1, <1>8, <2>1, <2>4 DEF InProgress, Numbers, Drops, IsDraft
  <2>5. CASE tx[w].op = "void" BY <1>8, <2>2, <2>5, HeldRows
  <2>6. CASE tx[w].op = "none" \/ tx[w].op = "cancel"
    BY <1>8, <2>1, <2>6 DEF InProgress, Bill!BillingAssumption
  <2> QED BY <2>1, <2>3, <2>4, <2>5, <2>6, OpIsOne
<1> QED BY <1>1, <1>4, <1>7, <1>8 DEF Bill!Answered

LEMMA AnswerKeeps ==
  ASSUME Bill!BillingAssumption, Inv, NEW d \in Documents, Bill!Answer(d)
  PROVE  Inv'
<1>1. /\ UNCHANGED <<cancelled, tx>>
      /\ \A w \in Workers : tx[w].doc # d
      /\ \E x \in DocType : Changes(doc, d, x, doc') /\ Turns(doc, d, x)
  BY AnswerTurns
<1>2. PICK x \in DocType : Changes(doc, d, x, doc') /\ Turns(doc, d, x) BY <1>1
<1>3. MovesOfInvoices(doc, d, x) /\ ~Numbers(doc, d, x)
  BY <1>2 DEF MovesOfInvoices, Turns, Numbers, IsDraft, Bill!Alive
<1>4. doc \in [Documents -> DocType] /\ \A w \in Workers : tx[w] \in TxType
  BY DEF Inv, BillingTyped
<1>5. doc' \in [Documents -> DocType] BY <1>2, <1>4, ChangeFacts
<1>6. Sound(doc') BY <1>2, <1>3, <1>4, SoundStays DEF Inv
<1>7. \A w \in Workers : InProgress(tx[w], doc')
  BY <1>1, <1>2, <1>3, <1>4, InProgressStays DEF Inv
<1>8. ASSUME NEW u \in Workers, NEW v \in Workers, u # v
      PROVE  AreApart(tx[u], tx[v], doc')
  BY <1>1, <1>2, <1>4, <1>8, ApartStays DEF Inv
<1> QED BY <1>1, <1>5, <1>6, <1>7, <1>8 DEF Inv, BillingTyped
-----------------------------------------------------------------------------
(* What each operation has decided when it begins.                          *)

LEMMA TxFields ==
  ASSUME NEW op, NEW d, NEW new
  PROVE  Bill!Tx(op, d, new).op = op /\ Bill!Tx(op, d, new).doc = d /\ Bill!Tx(op, d, new).new = new
BY DEF Bill!Tx

LEMMA CreateBegins ==
  ASSUME Bill!BillingAssumption, Inv, NEW w \in Workers, Bill!Create(w)
  PROVE  \E d \in Documents, x \in DocType :
           /\ Bill!Begin(w, "create", d, x) /\ d \in Bill!Free
           /\ InProgress(Bill!Tx("create", d, x), doc)
           /\ ~cancelled /\ Bill!Committed + x.qty <= Ordered
           /\ x.kind = "invoice" /\ x.status = "DRAFT"
<1>1. PICK q \in 1..Ordered :
        /\ Bill!Free # {} /\ ~cancelled
        /\ q <= Ordered - Bill!Invoiced({})
        /\ Bill!Committed + q <= Ordered
        /\ Bill!Begin(w, "create", Bill!Row, Bill!Document("invoice", "DRAFT", FALSE, q, 0, 0))
  BY DEF Bill!Create
<1>2. PICK x \in DocType : x = Bill!Document("invoice", "DRAFT", FALSE, q, 0, 0)
  <2>1. q \in Nat BY DEF Bill!BillingAssumption
  <2>2. Bill!Document("invoice", "DRAFT", FALSE, q, 0, 0) \in DocType
    BY <2>1 DEF Bill!Document, DocType, DocumentStatuses
  <2> QED BY <2>2
<1>3. x.kind = "invoice" /\ x.status = "DRAFT" /\ x.qty = q BY <1>2 DEF Bill!Document
<1>4. PICK d \in Documents : d = Bill!Row /\ d \in Bill!Free BY <1>1, RowIsFree DEF Bill!Free
<1>5. Inserts(doc, d, x) BY <1>3, <1>4 DEF Inserts, IsDraft, Bill!Free
<1>6. InProgress(Bill!Tx("create", d, x), doc)
  BY <1>3, <1>5, TxFields DEF InProgress, Adding, Issuing
<1> QED BY <1>1, <1>2, <1>3, <1>4, <1>6

LEMMA NoteBegins ==
  ASSUME Bill!BillingAssumption, Inv, NEW w \in Workers, NEW i \in Documents, Bill!Note(w, i)
  PROVE  \E d \in Documents, x \in DocType :
           /\ Bill!Begin(w, "note", d, x) /\ d \in Bill!Free
           /\ InProgress(Bill!Tx("note", d, x), doc)
<1>1. PICK q \in 1..Ordered :
        /\ Bill!Free # {} /\ doc[i].kind = "invoice" /\ doc[i].status = "ACCEPTED"
        /\ Bill!Begin(w, "note", Bill!Row, Bill!Document("note", "DRAFT", FALSE, q, i, 0))
  BY DEF Bill!Note
<1>2. PICK x \in DocType : x = Bill!Document("note", "DRAFT", FALSE, q, i, 0)
  <2>1. q \in Nat BY DEF Bill!BillingAssumption
  <2>2. Bill!Document("note", "DRAFT", FALSE, q, i, 0) \in DocType
    BY <2>1 DEF Bill!Document, DocType, DocumentStatuses
  <2> QED BY <2>2
<1>3. x.kind = "note" /\ x.status = "DRAFT" /\ x.of = i BY <1>2 DEF Bill!Document
<1>4. PICK d \in Documents : d = Bill!Row /\ d \in Bill!Free BY <1>1, RowIsFree DEF Bill!Free
<1>5. Inserts(doc, d, x) BY <1>1, <1>3, <1>4 DEF Inserts, IsDraft, IsAffected, Bill!Free
<1>6. InProgress(Bill!Tx("note", d, x), doc)
  BY <1>3, <1>5, TxFields DEF InProgress, Adding, Issuing
<1> QED BY <1>1, <1>2, <1>4, <1>6

LEMMA CorrectBegins ==
  ASSUME Bill!BillingAssumption, Inv, NEW w \in Workers, NEW i \in Documents, Bill!Correct(w, i)
  PROVE  \E d \in Documents, x \in DocType :
           /\ Bill!Begin(w, "correct", d, x) /\ d \in Bill!Free
           /\ InProgress(Bill!Tx("correct", d, x), doc)
           /\ "correct" \in Transactions
<1>1. /\ "correct" \in Transactions /\ Bill!Free # {} /\ doc[i].kind # "none"
      /\ Bill!Begin(w, "correct", Bill!Row, Bill!Document(doc[i].kind, "DRAFT", FALSE, doc[i].qty, doc[i].of, i))
  BY DEF Bill!Correct
<1>2. PICK x \in DocType : x = Bill!Document(doc[i].kind, "DRAFT", FALSE, doc[i].qty, doc[i].of, i)
  BY DEF Inv, BillingTyped, Bill!Document, DocType, DocumentStatuses
<1>3. x.kind = doc[i].kind /\ x.status = "DRAFT" /\ x.of = doc[i].of BY <1>2 DEF Bill!Document
<1>4. PICK d \in Documents : d = Bill!Row /\ d \in Bill!Free BY <1>1, RowIsFree DEF Bill!Free
<1>5. x.kind = "note" => IsAffected(doc, x.of) BY <1>3 DEF Inv, Sound
<1>6. Inserts(doc, d, x) BY <1>1, <1>3, <1>4, <1>5 DEF Inserts, IsDraft, Bill!Free
<1>7. InProgress(Bill!Tx("correct", d, x), doc)
  BY <1>1, <1>3, <1>6, TxFields DEF InProgress, Adding, Issuing
<1> QED BY <1>1, <1>2, <1>4, <1>7

LEMMA DiscardBegins ==
  ASSUME NEW w \in Workers, NEW d \in Documents, Bill!Discard(w, d)
  PROVE  Bill!Begin(w, "discard", d, Bill!NoDocument) /\ InProgress(Bill!Tx("discard", d, Bill!NoDocument), doc)
<1>1. Drops(doc, d, Bill!NoDocument) BY DEF Bill!Discard, Bill!Draft, Drops, IsDraft
<1>2. InProgress(Bill!Tx("discard", d, Bill!NoDocument), doc)
  BY <1>1, TxFields DEF InProgress, Adding, Issuing
<1> QED BY <1>2 DEF Bill!Discard

\* A note that may be numbered has room: what is credited without it is what is credited.
LEMMA DraftHasRoom ==
  ASSUME Bill!BillingAssumption, Inv,
         NEW d \in Documents, Bill!Draft(d), Bill!StillAvailable(d),
         doc[d].kind = "note"
  PROVE  HasRoom(doc, doc[d].of, doc[d].qty)
<1> DEFINE i == doc[d].of
<1>1. doc \in [Documents -> DocType] BY DEF Inv, BillingTyped
<1>2. IsAffected(doc, i) BY DEF Inv, Sound
<1>3. doc[d].qty <= doc[i].qty - Qty(doc, OfIn(doc, i, Bill!Alive) \ {d})
  BY SumInBilling DEF Bill!StillAvailable, Bill!NoteAvailable, Bill!LeftToCredit, Bill!NotesOf,
       Bill!Of, Bill!Sum, Qty, OfIn, In
<1>4. Qty(doc, OfIn(doc, i, Bill!Alive) \ {d}) = Given(doc, i, Bill!Alive) - PartOf(doc[d], i, Bill!Alive)
  BY <1>1, GivenWithout
<1>5. PartOf(doc[d], i, Bill!Alive) = 0 BY DEF Bill!Draft, PartOf, Bill!Alive
<1>6. Given(doc, i, Bill!Alive) \in Nat BY <1>1, AmountsNat
<1>7. doc[i].qty \in Nat /\ doc[d].qty \in Nat BY <1>1, <1>2, DocFacts DEF IsAffected
<1> HIDE DEF i
<1>8. Given(doc, i, Bill!Alive) + doc[d].qty <= doc[i].qty BY <1>3, <1>4, <1>5, <1>6, <1>7
<1> QED BY <1>2, <1>8 DEF HasRoom, i

LEMMA AssignBegins ==
  ASSUME Bill!BillingAssumption, Inv, NEW w \in Workers, NEW d \in Documents, Bill!Assign(w, d)
  PROVE  \E x \in DocType :
           Bill!Begin(w, "assign", d, x) /\ InProgress(Bill!Tx("assign", d, x), doc)
<1>1. PICK x \in DocType : x = [doc[d] EXCEPT !.status = "ISSUED"]
  BY DEF Inv, BillingTyped, DocType, DocumentStatuses
<1>2. IsSame(x, doc[d]) /\ x.status = "ISSUED" BY <1>1 DEF Inv, BillingTyped, DocType, IsSame
<1>3. Numbers(doc, d, x) BY <1>2 DEF Bill!Assign, Bill!Draft, Numbers, IsDraft
<1>4. doc[d].kind = "note" => HasRoom(doc, doc[d].of, doc[d].qty)
  BY DraftHasRoom DEF Bill!Assign
<1>5. InProgress(Bill!Tx("assign", d, x), doc)
  BY <1>3, <1>4, TxFields DEF InProgress, Adding, Issuing
<1> QED BY <1>1, <1>5 DEF Bill!Assign

LEMMA RegisterBegins ==
  ASSUME Bill!BillingAssumption, Inv, NEW w \in Workers,
         NEW d \in Documents, Bill!Register(w, d)
  PROVE  \E x \in DocType :
           Bill!Begin(w, "register", d, x) /\ InProgress(Bill!Tx("register", d, x), doc)
<1>1. PICK x \in DocType : x = [doc[d] EXCEPT !.status = "ACCEPTED", !.manual = TRUE]
  BY DEF Inv, BillingTyped, DocType, DocumentStatuses
<1>2. IsSame(x, doc[d]) /\ x.status = "ACCEPTED" BY <1>1 DEF Inv, BillingTyped, DocType, IsSame
<1>3. Numbers(doc, d, x) BY <1>2 DEF Bill!Register, Bill!Draft, Numbers, IsDraft
<1>4. doc[d].kind = "note" => HasRoom(doc, doc[d].of, doc[d].qty)
  BY DraftHasRoom DEF Bill!Register
<1>5. InProgress(Bill!Tx("register", d, x), doc)
  BY <1>3, <1>4, TxFields DEF InProgress, Adding, Issuing
<1> QED BY <1>1, <1>5 DEF Bill!Register

LEMMA VoidBegins ==
  ASSUME Inv, NEW w \in Workers, NEW d \in Documents, Bill!Void(w, d)
  PROVE  \E x \in DocType :
           Bill!Begin(w, "void", d, x) /\ InProgress(Bill!Tx("void", d, x), doc)
<1>1. PICK x \in DocType : x = [doc[d] EXCEPT !.status = "VOID_PENDING"]
  BY DEF Inv, BillingTyped, DocType, DocumentStatuses
<1>2. IsSame(x, doc[d]) /\ x.status = "VOID_PENDING"
  BY <1>1 DEF Inv, BillingTyped, DocType, IsSame
<1>3. Turns(doc, d, x) BY <1>2 DEF Bill!Void, Turns, Bill!Alive
<1>4. InProgress(Bill!Tx("void", d, x), doc)
  BY <1>3, TxFields DEF InProgress, Adding, Issuing
<1> QED BY <1>1, <1>4 DEF Bill!Void

LEMMA CancelBegins ==
  ASSUME NEW w \in Workers, Bill!Cancel(w)
  PROVE  Bill!Begin(w, "cancel", 0, Bill!NoDocument) /\ InProgress(Bill!Tx("cancel", 0, Bill!NoDocument), doc)
<1>1. InProgress(Bill!Tx("cancel", 0, Bill!NoDocument), doc)
  BY TxFields DEF InProgress, Adding, Issuing
<1> QED BY <1>1 DEF Bill!Cancel

-----------------------------------------------------------------------------

LEMMA InitInv ==
  ASSUME Bill!BillingAssumption, Bill!Init PROVE Inv
<1>1. BillingTyped BY NoDocumentFacts, NoTxFacts DEF Bill!Init, BillingTyped
<1>2. \A i \in Documents : Given(doc, i, Bill!Alive) = 0
  <2> TAKE i \in Documents
  <2>1. OfIn(doc, i, Bill!Alive) = {} BY NoDocumentFacts DEF Bill!Init, OfIn, In
  <2> QED BY <2>1, QtyNone DEF Given
<1>3. Sound(doc) BY <1>2, NoDocumentFacts DEF Bill!Init, Sound, IsAffected
<1>4. \A w \in Workers : InProgress(tx[w], doc) BY NoTxFacts DEF Bill!Init
<1>5. \A v, w \in Workers : AreApart(tx[v], tx[w], doc) BY NoTxFacts DEF Bill!Init
<1> QED BY <1>1, <1>3, <1>4, <1>5 DEF Inv

LEMMA NextInv ==
  ASSUME Bill!BillingAssumption, Inv, [Bill!Next]_(Bill!vars) PROVE Inv'
<1>1. {"create", "note", "correct", "discard", "assign", "register", "void", "cancel"} \subseteq OpsOfInvoices
      /\ {"discard", "assign", "register", "void", "cancel"} \cap Adding = {}
  BY DEF OpsOfInvoices, Adding, Issuing
<1>2. ASSUME NEW w \in Workers, Bill!Create(w) PROVE Inv'
  BY <1>1, <1>2, CreateBegins, BeginKeeps
<1>3. ASSUME NEW w \in Workers, Bill!Cancel(w) PROVE Inv'
  BY <1>1, <1>3, CancelBegins, BeginKeeps, NoDocumentFacts
<1>4. ASSUME NEW w \in Workers, Bill!Commit(w) PROVE Inv' BY <1>4, CommitKeeps
<1>5. ASSUME NEW w \in Workers, NEW d \in Documents, Bill!Note(w, d) PROVE Inv'
  BY <1>1, <1>5, NoteBegins, BeginKeeps
<1>6. ASSUME NEW w \in Workers, NEW d \in Documents, Bill!Correct(w, d) PROVE Inv'
  BY <1>1, <1>6, CorrectBegins, BeginKeeps
<1>7. ASSUME NEW w \in Workers, NEW d \in Documents, Bill!Discard(w, d) PROVE Inv'
  BY <1>1, <1>7, DiscardBegins, BeginKeeps, NoDocumentFacts
<1>8. ASSUME NEW w \in Workers, NEW d \in Documents, Bill!Assign(w, d) PROVE Inv'
  BY <1>1, <1>8, AssignBegins, BeginKeeps
<1>9. ASSUME NEW w \in Workers, NEW d \in Documents, Bill!Register(w, d) PROVE Inv'
  BY <1>1, <1>9, RegisterBegins, BeginKeeps
<1>10. ASSUME NEW w \in Workers, NEW d \in Documents, Bill!Void(w, d) PROVE Inv'
  BY <1>1, <1>10, VoidBegins, BeginKeeps
<1>11. ASSUME NEW d \in Documents, Bill!Answer(d) PROVE Inv' BY <1>11, AnswerKeeps
<1>12. CASE UNCHANGED Bill!vars BY <1>12 DEF Bill!vars, Inv, BillingTyped
<1> QED
  BY <1>2, <1>3, <1>4, <1>5, <1>6, <1>7, <1>8, <1>9, <1>10, <1>11, <1>12 DEF Bill!Next

\* The invariant has the bound of every document.
LEMMA InvCovers ==
  ASSUME Bill!BillingAssumption, Inv PROVE Bill!NotOverCredited
<1> SUFFICES ASSUME NEW d \in Documents
             PROVE  Given(doc, d, Bill!Alive) <= IF doc[d].kind = "invoice" THEN doc[d].qty ELSE 0
  BY SumInBilling DEF Bill!NotOverCredited, Bill!Sum, Bill!NotesOf, Bill!Of, Given, Qty, OfIn, In
<1>1. Given(doc, d, Bill!Alive) <= IF IsAffected(doc, d) THEN doc[d].qty ELSE 0
  BY DEF Inv, Sound
<1>2. doc[d].qty \in Nat /\ Given(doc, d, Bill!Alive) \in Nat
  BY DocFacts, AmountsNat DEF Inv, BillingTyped
<1> QED BY <1>1, <1>2 DEF IsAffected

\* The inductive invariant holds of every order, documents, persons and operations.
THEOREM Invariant == ASSUME Bill!BillingAssumption PROVE Bill!Spec => []Inv
<1>1. Bill!Init => Inv BY InitInv
<1>2. Inv /\ [Bill!Next]_(Bill!vars) => Inv' BY NextInv
<1> QED BY <1>1, <1>2, PTL DEF Bill!Spec

\* The notes of an invoice give back no more than it has, and of a note nothing, whoever
\* sends which of them at the same time: a note and what it affects are locked together
\* (lockWithAffected) and its room is asked for then (assertStillAvailable).
THEOREM NotesAreCovered == ASSUME Bill!BillingAssumption PROVE Bill!Spec => []Bill!NotOverCredited
<1>1. Inv => Bill!NotOverCredited BY InvCovers
<1> QED BY <1>1, Invariant, PTL
-----------------------------------------------------------------------------
(* What is invoiced.  No note is undone, and no correction is sent while    *)
(* another transaction is in progress: with them, two drafts of one line    *)
(* are numbered at the same time.                                           *)

Serial  == \A v, w \in Workers : v = w
Careful == "undo-note" \notin Transactions /\ ("correct" \notin Transactions \/ Serial)

\* What is invoiced and what is committed, less what the notes give back.
Clear(f)      == Amount(f, "invoice", Bill!Alive) - Amount(f, "note", Bill!Alive)
Committing(f) == Amount(f, "invoice", Bill!Standing) - Amount(f, "note", Bill!Alive)

\* t gives its number to an invoice of f.
Sells(t, f) == t.op \in Issuing /\ f[t.doc].kind = "invoice"

\* What is committed, with the draft that is being created, is in the order; or else
\* whoever invoices has the room; and who cancels finds nothing that sells, nor draft that could.
CarefulInv ==
  /\ Clear(doc) <= Ordered
  /\ "correct" \notin Transactions =>
       /\ Committing(doc) <= Ordered
       /\ \A w \in Workers :
            tx[w].op = "create" => Committing(doc) + tx[w].new.qty <= Ordered
  /\ Serial => \A w \in Workers :
       Sells(tx[w], doc) => Clear(doc) + doc[tx[w].doc].qty <= Ordered
  /\ cancelled => Clear(doc) <= 0 /\ \A w \in Workers : ~Sells(tx[w], doc)
  /\ \A w \in Workers : tx[w].op = "cancel" =>
       Clear(doc) <= 0 /\ \A d \in Documents : doc[d].kind = "invoice" => doc[d].status # "DRAFT"

LEMMA SumsAreClear ==
  ASSUME Bill!BillingAssumption, NEW f \in [Documents -> DocType]
  PROVE  Clear(f) \in Int /\ Committing(f) \in Int /\ Clear(f) <= Committing(f)
<1>1. /\ Amount(f, "invoice", Bill!Alive) \in Nat /\ Amount(f, "note", Bill!Alive) \in Nat
      /\ Amount(f, "invoice", Bill!Standing) \in Nat
  BY AmountsNat
<1>2. Amount(f, "invoice", Bill!Alive) <= Amount(f, "invoice", Bill!Standing) BY AliveIsLess
<1> QED BY <1>1, <1>2 DEF Clear, Committing

\* Only an invoice that takes its number adds to what is invoiced, and only an invoice that
\* is inserted to what is committed.
LEMMA ClearMoves ==
  ASSUME Bill!BillingAssumption, Careful, NEW f \in [Documents -> DocType], NEW d \in Documents,
         NEW x \in DocType, NEW g, Changes(f, d, x, g), MovesOfInvoices(f, d, x)
  PROVE  /\ \/ Clear(g) <= Clear(f)
            \/ /\ Numbers(f, d, x) /\ f[d].kind = "invoice"
               /\ Clear(g) = Clear(f) + f[d].qty
         /\ \/ Committing(g) <= Committing(f)
            \/ /\ Inserts(f, d, x) /\ x.kind = "invoice"
               /\ Committing(g) = Committing(f) + x.qty
<1> DEFINE a(y) == Part(y, "invoice", Bill!Alive)
           s(y) == Part(y, "invoice", Bill!Standing)
           n(y) == Part(y, "note", Bill!Alive)
<1>1. g \in [Documents -> DocType] BY ChangeFacts
<1>2. /\ Amount(g, "invoice", Bill!Alive) = Amount(f, "invoice", Bill!Alive) - a(f[d]) + a(x)
      /\ Amount(g, "invoice", Bill!Standing) = Amount(f, "invoice", Bill!Standing) - s(f[d]) + s(x)
      /\ Amount(g, "note", Bill!Alive) = Amount(f, "note", Bill!Alive) - n(f[d]) + n(x)
  BY AmountChanges
<1>3. \A h \in [Documents -> DocType] :
        /\ Amount(h, "invoice", Bill!Alive) \in Nat /\ Amount(h, "note", Bill!Alive) \in Nat
        /\ Amount(h, "invoice", Bill!Standing) \in Nat
  BY AmountsNat
<1>4. f[d].qty \in Nat /\ x.qty \in Nat BY DEF DocType
<1>5. \A y : y.qty \in Nat => a(y) \in Nat /\ s(y) \in Nat /\ n(y) \in Nat BY DEF Part
<1>6. CASE Inserts(f, d, x)
  <2>1. f[d].kind = "none" /\ x.status = "DRAFT"
    BY <1>6, NoDocumentFacts DEF Inserts, IsDraft
  <2>2. a(f[d]) = 0 /\ s(f[d]) = 0 /\ n(f[d]) = 0 /\ a(x) = 0 /\ n(x) = 0
    BY <2>1 DEF Part, Bill!Alive
  <2>3. s(x) = IF x.kind = "invoice" THEN x.qty ELSE 0 BY <2>1 DEF Part, Bill!Standing
  <2> HIDE DEF a, s, n
  <2> QED BY <1>1, <1>2, <1>3, <1>4, <1>6, <2>2, <2>3 DEF Clear, Committing
<1>7. CASE Drops(f, d, x)
  <2>1. f[d].status = "DRAFT" /\ x.kind = "none" BY <1>7, NoDocumentFacts DEF Drops, IsDraft
  <2>2. a(f[d]) = 0 /\ n(f[d]) = 0 /\ a(x) = 0 /\ s(x) = 0 /\ n(x) = 0
    BY <2>1 DEF Part, Bill!Alive
  <2>3. s(f[d]) \in Nat BY <1>4, <1>5
  <2> HIDE DEF a, s, n
  <2> QED BY <1>1, <1>2, <1>3, <2>2, <2>3 DEF Clear, Committing
<1>8. CASE Numbers(f, d, x)
  <2>1. /\ f[d].status = "DRAFT" /\ x.status \in Bill!Alive /\ x.status \in Bill!Standing
        /\ f[d].status \in Bill!Standing
        /\ x.kind = f[d].kind /\ x.qty = f[d].qty
    BY <1>8 DEF Numbers, IsDraft, IsSame, Bill!Alive, Bill!Standing
  <2>2. a(f[d]) = 0 /\ n(f[d]) = 0 BY <2>1 DEF Part, Bill!Alive
  <2>3. s(x) = s(f[d]) BY <2>1 DEF Part
  <2>4. /\ a(x) = IF f[d].kind = "invoice" THEN f[d].qty ELSE 0
        /\ f[d].kind = "invoice" => n(x) = 0
    BY <2>1 DEF Part
  <2>5. n(x) \in Nat /\ s(x) \in Nat /\ s(f[d]) \in Nat BY <1>4, <1>5
  <2> HIDE DEF a, s, n
  <2> QED BY <1>1, <1>2, <1>3, <1>4, <1>8, <2>2, <2>3, <2>4, <2>5 DEF Clear, Committing
<1>9. CASE Turns(f, d, x)
  <2>1. /\ f[d].status \in Bill!Alive /\ f[d].status \in Bill!Standing
        /\ x.kind = f[d].kind /\ x.qty = f[d].qty
        /\ f[d].kind = "note" => x.status \in Bill!Alive
    BY <1>9 DEF Turns, IsSame, Careful, Bill!Alive, Bill!Standing
  <2>2. n(x) = n(f[d]) /\ a(x) <= a(f[d]) /\ s(x) <= s(f[d])
    BY <1>4, <2>1 DEF Part
  <2>3. /\ a(x) \in Nat /\ s(x) \in Nat /\ n(x) \in Nat
        /\ a(f[d]) \in Nat /\ s(f[d]) \in Nat /\ n(f[d]) \in Nat
    BY <1>4, <1>5
  <2> HIDE DEF a, s, n
  <2> QED BY <1>1, <1>2, <1>3, <2>2, <2>3 DEF Clear, Committing
<1> QED BY <1>6, <1>7, <1>8, <1>9 DEF MovesOfInvoices

\* A draft that is an invoice is numbered when the order is not cancelled and has the room.
LEMMA DraftMaySell ==
  ASSUME Bill!BillingAssumption, Inv,
         NEW d \in Documents, Bill!Draft(d), Bill!StillAvailable(d),
         doc[d].kind = "invoice"
  PROVE  ~cancelled /\ Clear(doc) + doc[d].qty <= Ordered
<1> DEFINE a == Qty(doc, In(doc, "invoice", Bill!Alive) \ {d})
           n == Qty(doc, In(doc, "note", Bill!Alive) \ {d})
<1>1. doc \in [Documents -> DocType] BY DEF Inv, BillingTyped
<1>2. ~cancelled /\ doc[d].qty <= Ordered - Bill!Invoiced({d})
  BY DEF Bill!StillAvailable, Bill!InvoiceAvailable
<1>3. Bill!Invoiced({d}) = IF a - n < 0 THEN 0 ELSE a - n
  BY SumInBilling DEF Bill!Invoiced, Bill!Sum, Bill!Of, In, Qty
<1>4. a = Amount(doc, "invoice", Bill!Alive) - Part(doc[d], "invoice", Bill!Alive)
      /\ n = Amount(doc, "note", Bill!Alive) - Part(doc[d], "note", Bill!Alive)
  BY <1>1, AmountWithout
<1>5. Part(doc[d], "invoice", Bill!Alive) = 0 /\ Part(doc[d], "note", Bill!Alive) = 0
  BY DEF Bill!Draft, Part, Bill!Alive
<1>6. Amount(doc, "invoice", Bill!Alive) \in Nat /\ Amount(doc, "note", Bill!Alive) \in Nat
  BY <1>1, AmountsNat
<1>7. doc[d].qty \in Nat /\ Ordered \in Nat BY <1>1, DocFacts DEF Bill!BillingAssumption
<1> HIDE DEF a, n
<1>8. a - n = Clear(doc) /\ a - n \in Int BY <1>4, <1>5, <1>6 DEF Clear
<1> QED BY <1>2, <1>3, <1>7, <1>8
LEMMA InvoicedIsClear ==
  ASSUME Bill!BillingAssumption, Inv
  PROVE  Bill!Invoiced({}) = IF Clear(doc) < 0 THEN 0 ELSE Clear(doc)
<1>1. /\ Bill!Of("invoice", Bill!Alive) \ {} = In(doc, "invoice", Bill!Alive)
      /\ Bill!Of("note", Bill!Alive) \ {} = In(doc, "note", Bill!Alive)
  BY DEF Bill!Of, In
<1> QED BY <1>1, SumInBilling DEF Bill!Invoiced, Bill!Sum, Qty, Amount, Clear

\* The cancellation finds no draft, and nothing that is not given back.
LEMMA CancelFindsNothing ==
  ASSUME Bill!BillingAssumption, Inv, NEW w \in Workers, Bill!Cancel(w)
  PROVE  Clear(doc) <= 0 /\ \A d \in Documents : doc[d].kind = "invoice" => doc[d].status # "DRAFT"
<1>1. doc \in [Documents -> DocType] BY DEF Inv, BillingTyped
<1>2. /\ Bill!Of("invoice", {"DRAFT"}) = {}
      /\ Bill!Of("invoice", Bill!Alive) = {} \/ ~(Bill!Invoiced({}) > 0)
  BY DEF Bill!Cancel, Bill!StillSells
<1>3. \A d \in Documents : doc[d].kind = "invoice" => doc[d].status # "DRAFT"
  BY <1>2 DEF Bill!Of
<1>4. Amount(doc, "invoice", Bill!Alive) \in Nat /\ Amount(doc, "note", Bill!Alive) \in Nat
  BY <1>1, AmountsNat
<1>5. CASE Bill!Of("invoice", Bill!Alive) = {}
  <2>1. Amount(doc, "invoice", Bill!Alive) = 0 BY <1>5, QtyNone DEF Amount, Bill!Of, In
  <2> QED BY <1>3, <1>4, <2>1 DEF Clear
<1>6. CASE ~(Bill!Invoiced({}) > 0)
  <2>1. Bill!Invoiced({}) = IF Clear(doc) < 0 THEN 0 ELSE Clear(doc) BY InvoicedIsClear
  <2> QED BY <1>3, <1>4, <1>6, <2>1 DEF Clear
<1> QED BY <1>2, <1>5, <1>6

\* An operation begins: what it found is what CarefulInv asks of it.
LEMMA BeginCareful ==
  ASSUME Bill!BillingAssumption, Inv, CarefulInv, NEW w \in Workers, NEW op \in OpsOfInvoices,
         NEW d \in Documents \cup {0}, NEW new \in DocType, Bill!Begin(w, op, d, new),
         op = "create" => Committing(doc) + new.qty <= Ordered,
         op \in Issuing /\ doc[d].kind = "invoice"
           => ~cancelled /\ Clear(doc) + doc[d].qty <= Ordered,
         op = "cancel" =>
           Clear(doc) <= 0 /\ \A e \in Documents : doc[e].kind = "invoice" => doc[e].status # "DRAFT"
  PROVE  CarefulInv'
<1>1. PICK t : t = Bill!Tx(op, d, new) OBVIOUS
<1>2. t.op = op /\ t.doc = d /\ t.new = new BY <1>1, TxFields
<1>3. tx' = [tx EXCEPT ![w] = t] /\ UNCHANGED <<cancelled, doc>> BY <1>1 DEF Bill!Begin
<1>4. tx'[w] = t /\ \A v \in Workers : v # w => tx'[v] = tx[v] BY <1>3 DEF Inv, BillingTyped
<1>5. "correct" \notin Transactions => \A v \in Workers :
        tx'[v].op = "create" => Committing(doc) + tx'[v].new.qty <= Ordered
  BY <1>2, <1>4 DEF CarefulInv
<1>6. Serial => \A v \in Workers :
        Sells(tx'[v], doc) => Clear(doc) + doc[tx'[v].doc].qty <= Ordered
  BY <1>2, <1>4 DEF CarefulInv, Sells
<1>7. cancelled => \A v \in Workers : ~Sells(tx'[v], doc)
  BY <1>2, <1>4 DEF CarefulInv, Sells
<1>8. \A v \in Workers : tx'[v].op = "cancel" =>
        Clear(doc) <= 0 /\ \A e \in Documents : doc[e].kind = "invoice" => doc[e].status # "DRAFT"
  BY <1>2, <1>4 DEF CarefulInv
<1> QED BY <1>3, <1>5, <1>6, <1>7, <1>8 DEF CarefulInv

\* Only one who numbers has a draft to number, and only one who adds has a row to insert.
LEMMA WhoMoves ==
  ASSUME NEW t \in TxType, NEW f, InProgress(t, f), t.op \notin {"none", "cancel"}
  PROVE  /\ Numbers(f, t.doc, t.new) => t.op \in Issuing
         /\ Inserts(f, t.doc, t.new) => t.op \in Adding
<1>1. CASE t.op \in Adding
  BY <1>1, NoDocumentFacts DEF InProgress, Inserts, Numbers, IsDraft
<1>2. CASE t.op \in Issuing
  BY <1>2, NoDocumentFacts DEF InProgress, Inserts, Numbers, IsDraft
<1>3. CASE t.op = "discard"
  BY <1>3, NoDocumentFacts DEF InProgress, Inserts, Numbers, Drops, IsDraft
<1>4. CASE t.op = "void"
  BY <1>4, NoDocumentFacts DEF InProgress, Inserts, Numbers, Turns, IsDraft, Bill!Alive
<1> QED BY <1>1, <1>2, <1>3, <1>4, OpIsOne

\* What moves is a draft invoice only when it is inserted.
LEMMA DraftsMove ==
  ASSUME NEW f, NEW d, NEW x, MovesOfInvoices(f, d, x), x.kind = "invoice", x.status = "DRAFT"
  PROVE  Inserts(f, d, x)
BY NoDocumentFacts DEF MovesOfInvoices, Drops, Numbers, Turns

LEMMA AnswerCareful ==
  ASSUME Bill!BillingAssumption, Careful, Inv, CarefulInv, NEW d \in Documents, Bill!Answer(d)
  PROVE  CarefulInv'
<1>1. /\ UNCHANGED <<cancelled, tx>>
      /\ \A w \in Workers : tx[w].doc # d
      /\ \E x \in DocType : Changes(doc, d, x, doc') /\ Turns(doc, d, x)
  BY AnswerTurns
<1>2. PICK x \in DocType : Changes(doc, d, x, doc') /\ Turns(doc, d, x) BY <1>1
<1>3. MovesOfInvoices(doc, d, x) /\ ~Numbers(doc, d, x) /\ ~Inserts(doc, d, x)
  BY <1>2, NoDocumentFacts DEF MovesOfInvoices, Turns, Numbers, Inserts, IsDraft, Bill!Alive
<1>4. doc \in [Documents -> DocType] BY DEF Inv, BillingTyped
<1>5. Clear(doc') <= Clear(doc) /\ Committing(doc') <= Committing(doc)
  BY <1>2, <1>3, <1>4, ClearMoves
<1>6. /\ doc' \in [Documents -> DocType] /\ doc'[d] = x
      /\ \A e \in Documents : e # d => doc'[e] = doc[e]
  BY <1>2, <1>4, ChangeFacts
<1>7. /\ Clear(doc) \in Int /\ Clear(doc') \in Int
      /\ Committing(doc) \in Int /\ Committing(doc') \in Int /\ Ordered \in Nat
  BY <1>4, <1>6, SumsAreClear DEF Bill!BillingAssumption
<1>8. ASSUME NEW w \in Workers
      PROVE  /\ tx[w].new.qty \in Nat
             /\ Sells(tx[w], doc') => Sells(tx[w], doc) /\ doc[tx[w].doc].qty \in Nat
                                      /\ doc'[tx[w].doc] = doc[tx[w].doc]
  <2>1. tx[w] \in TxType /\ InProgress(tx[w], doc) BY DEF Inv, BillingTyped
  <2>2. tx[w].new.qty \in Nat BY <2>1 DEF TxType, DocType
  <2>3. ASSUME tx[w].op \in Issuing
        PROVE  doc'[tx[w].doc] = doc[tx[w].doc] /\ doc[tx[w].doc].qty \in Nat
    <3>1. tx[w].doc \in Documents BY <2>1, <2>3 DEF InProgress
    <3> QED BY <1>1, <1>4, <1>6, <3>1, DocFacts
  <2> QED BY <2>2, <2>3 DEF Sells
<1>9. ~(x.kind = "invoice" /\ x.status = "DRAFT") BY <1>3, DraftsMove
<1>10. Clear(doc') <= Ordered BY <1>5, <1>7 DEF CarefulInv
<1>11. "correct" \notin Transactions =>
         /\ Committing(doc') <= Ordered
         /\ \A w \in Workers : tx[w].op = "create" => Committing(doc') + tx[w].new.qty <= Ordered
  BY <1>5, <1>7, <1>8 DEF CarefulInv
<1>12. Serial => \A w \in Workers :
         Sells(tx[w], doc') => Clear(doc') + doc'[tx[w].doc].qty <= Ordered
  BY <1>5, <1>7, <1>8 DEF CarefulInv
<1>13. cancelled => Clear(doc') <= 0 /\ \A w \in Workers : ~Sells(tx[w], doc')
  BY <1>5, <1>7, <1>8 DEF CarefulInv
<1>14. \A w \in Workers : tx[w].op = "cancel" =>
         Clear(doc') <= 0
         /\ \A e \in Documents : doc'[e].kind = "invoice" => doc'[e].status # "DRAFT"
  BY <1>5, <1>6, <1>7, <1>9 DEF CarefulInv
<1> QED BY <1>1, <1>10, <1>11, <1>12, <1>13, <1>14 DEF CarefulInv

LEMMA CommitCareful ==
  ASSUME Bill!BillingAssumption, Careful, Inv, CarefulInv, NEW w \in Workers, Bill!Commit(w)
  PROVE  CarefulInv'
<1>1. PICK t \in TxType : t = tx[w] BY DEF Inv, BillingTyped
<1>2. InProgress(t, doc) /\ t.op # "none" BY <1>1 DEF Inv, Bill!Commit, InProgress
<1>3. tx'[w] = Bill!NoTx /\ \A v \in Workers : v # w => tx'[v] = tx[v]
  BY DEF Inv, BillingTyped, Bill!Commit
<1>4. \A f : ~Sells(Bill!NoTx, f) /\ Bill!NoTx.op \notin {"create", "cancel"}
  BY NoTxFacts DEF Sells, Issuing
<1>5. doc \in [Documents -> DocType] BY DEF Inv, BillingTyped
<1>6. CASE UNCHANGED doc
  <2>1. cancelled' => Clear(doc) <= 0 /\ \A v \in Workers : v # w => ~Sells(tx[v], doc)
    <3>1. CASE UNCHANGED cancelled BY <3>1 DEF CarefulInv
    <3>2. CASE t.op = "cancel"
      <4>1. /\ Clear(doc) <= 0
            /\ \A d \in Documents : doc[d].kind = "invoice" => doc[d].status # "DRAFT"
        BY <1>1, <3>2 DEF CarefulInv
      <4>2. ASSUME NEW v \in Workers PROVE ~Sells(tx[v], doc)
        <5>1. InProgress(tx[v], doc) BY DEF Inv
        <5>2. tx[v].op \in Issuing => tx[v].doc \in Documents /\ doc[tx[v].doc].status = "DRAFT"
          BY <5>1 DEF InProgress, Numbers, IsDraft
        <5> QED BY <4>1, <5>2 DEF Sells
      <4> QED BY <4>1, <4>2
    <3>3. UNCHANGED cancelled \/ t.op = "cancel" BY <1>1 DEF Bill!Commit
    <3> QED BY <3>1, <3>2, <3>3
  <2>2. cancelled' => Clear(doc) <= 0 /\ \A v \in Workers : ~Sells(tx'[v], doc)
    BY <1>3, <1>4, <2>1
  <2>3. \A v \in Workers : tx'[v] = tx[v] \/ tx'[v] = Bill!NoTx BY <1>3
  <2> QED BY <1>4, <1>6, <2>2, <2>3 DEF CarefulInv
<1>7. CASE t.op # "cancel" /\ doc' = [doc EXCEPT ![t.doc] = t.new] /\ UNCHANGED cancelled
  <2>1. /\ t.doc \in Documents /\ t.doc # 0 /\ t.new \in DocType /\ MovesOfInvoices(doc, t.doc, t.new)
        /\ Numbers(doc, t.doc, t.new) => t.op \in Issuing
        /\ Inserts(doc, t.doc, t.new) => t.op \in Adding
    BY <1>2, <1>7, InProgressMoves, WhoMoves, OpIsOne DEF Bill!BillingAssumption
  <2>2. Changes(doc, t.doc, t.new, doc') BY <1>7 DEF Changes
  <2>3. /\ doc' \in [Documents -> DocType] /\ doc'[t.doc] = t.new
        /\ \A e \in Documents : e # t.doc => doc'[e] = doc[e]
    BY <1>5, <2>1, <2>2, ChangeFacts
  <2>4. /\ \/ Clear(doc') <= Clear(doc)
           \/ /\ Numbers(doc, t.doc, t.new) /\ doc[t.doc].kind = "invoice"
              /\ Clear(doc') = Clear(doc) + doc[t.doc].qty
        /\ \/ Committing(doc') <= Committing(doc)
           \/ /\ Inserts(doc, t.doc, t.new) /\ t.new.kind = "invoice"
              /\ Committing(doc') = Committing(doc) + t.new.qty
    BY <1>5, <2>1, <2>2, ClearMoves
  <2>5. /\ Clear(doc) \in Int /\ Clear(doc') \in Int /\ Clear(doc') <= Committing(doc')
        /\ Committing(doc) \in Int /\ Committing(doc') \in Int /\ Ordered \in Nat
    BY <1>5, <2>3, SumsAreClear DEF Bill!BillingAssumption
  <2>6. ASSUME NEW v \in Workers, v # w
        PROVE  /\ tx[v].new.qty \in Nat
               /\ t.op \in WithOrder => tx[v].op \notin WithOrder
               /\ Sells(tx[v], doc') => Sells(tx[v], doc)
    <3>1. tx[v] \in TxType /\ InProgress(tx[v], doc) BY DEF Inv, BillingTyped
    <3>2. AreApart(t, tx[v], doc) BY <1>1, <2>6 DEF Inv
    <3>3. tx[v].new.qty \in Nat BY <3>1 DEF TxType, DocType
    <3>4. t.op \in WithOrder => tx[v].op \notin WithOrder BY <3>2 DEF AreApart
    <3>5. tx[v].op \in Issuing => doc'[tx[v].doc] = doc[tx[v].doc]
      <4>1. tx[v].op \in Issuing => tx[v].doc \in Documents BY <3>1 DEF InProgress
      <4> QED BY <2>1, <2>3, <3>2, <4>1 DEF AreApart
    <3> QED BY <3>3, <3>4, <3>5 DEF Sells
  \* Who inserts an invoice is the one who creates it, if none is corrected.
  <2>7. Inserts(doc, t.doc, t.new) /\ t.new.kind = "invoice" /\ "correct" \notin Transactions
          => t.op = "create" /\ t.op \in WithOrder
    BY <1>2, <2>1 DEF InProgress, Adding, WithOrder
  <2>8. Numbers(doc, t.doc, t.new) /\ doc[t.doc].kind = "invoice" => Sells(t, doc)
    BY <2>1 DEF Sells
  <2>9. "correct" \notin Transactions => Committing(doc') <= Ordered
    <3>1. t.op = "create" /\ "correct" \notin Transactions => Committing(doc) + t.new.qty <= Ordered
      BY <1>1 DEF CarefulInv
    <3> QED BY <2>4, <2>5, <2>7, <3>1 DEF CarefulInv
  <2>10. ASSUME "correct" \notin Transactions, NEW v \in Workers, tx'[v].op = "create"
         PROVE  Committing(doc') + tx'[v].new.qty <= Ordered
    <3>1. v # w /\ tx'[v] = tx[v] BY <1>3, <1>4, <2>10
    <3>2. Committing(doc) + tx[v].new.qty <= Ordered BY <2>10, <3>1 DEF CarefulInv
    <3>3. Committing(doc') <= Committing(doc)
      BY <2>4, <2>6, <2>7, <2>10, <3>1 DEF WithOrder
    <3> QED BY <2>5, <2>6, <3>1, <3>2, <3>3
  <2>11. Clear(doc') <= Ordered
    <3>1. CASE "correct" \notin Transactions BY <2>5, <2>9, <3>1
    <3>2. CASE Serial BY <1>1, <2>4, <2>5, <2>8, <3>2 DEF CarefulInv
    <3> QED BY <3>1, <3>2 DEF Careful
  <2>12. Serial => \A v \in Workers : ~Sells(tx'[v], doc') BY <1>3, <1>4 DEF Serial
  <2>13. cancelled => Clear(doc') <= 0 /\ \A v \in Workers : ~Sells(tx'[v], doc')
    BY <1>1, <1>3, <1>4, <2>4, <2>5, <2>6, <2>8 DEF CarefulInv
  <2>14. ASSUME NEW v \in Workers, tx'[v].op = "cancel"
         PROVE  /\ Clear(doc') <= 0
                /\ \A e \in Documents : doc'[e].kind = "invoice" => doc'[e].status # "DRAFT"
    <3>1. v # w /\ tx[v].op = "cancel" BY <1>3, <1>4, <2>14
    <3>2. /\ Clear(doc) <= 0
          /\ \A e \in Documents : doc[e].kind = "invoice" => doc[e].status # "DRAFT"
      BY <3>1 DEF CarefulInv
    <3>3. "correct" \notin Transactions BY <3>1 DEF Careful, Serial
    <3>4. ~(Numbers(doc, t.doc, t.new) /\ doc[t.doc].kind = "invoice")
      BY <2>1, <3>2 DEF Numbers, IsDraft
    <3>5. ~(t.new.kind = "invoice" /\ t.new.status = "DRAFT")
      BY <2>1, <2>6, <2>7, <3>1, <3>3, DraftsMove DEF WithOrder
    <3> QED BY <2>3, <2>4, <2>5, <3>2, <3>4, <3>5
  <2> QED BY <1>7, <2>9, <2>10, <2>11, <2>12, <2>13, <2>14 DEF CarefulInv
<1>8. UNCHANGED doc
      \/ (t.op # "cancel" /\ doc' = [doc EXCEPT ![t.doc] = t.new] /\ UNCHANGED cancelled)
  BY <1>1 DEF Bill!Commit
<1> QED BY <1>6, <1>7, <1>8
LEMMA InitCareful ==
  ASSUME Bill!BillingAssumption, Bill!Init PROVE CarefulInv
<1>1. \A kind \in {"invoice", "note"} : \A statuses : Amount(doc, kind, statuses) = 0
  <2> TAKE kind \in {"invoice", "note"}
  <2> TAKE statuses
  <2>1. In(doc, kind, statuses) = {} BY NoDocumentFacts DEF Bill!Init, In
  <2> QED BY <2>1, QtyNone DEF Amount
<1>2. Clear(doc) = 0 /\ Committing(doc) = 0 BY <1>1 DEF Clear, Committing
<1>3. \A w \in Workers : tx[w].op = "none" BY NoTxFacts DEF Bill!Init
<1>4. \A w \in Workers : ~Sells(tx[w], doc) BY <1>3 DEF Sells, Issuing
<1>5. ~cancelled /\ Ordered \in Nat BY DEF Bill!Init, Bill!BillingAssumption
<1> QED BY <1>2, <1>3, <1>4, <1>5 DEF CarefulInv

LEMMA NextCareful ==
  ASSUME Bill!BillingAssumption, Careful, Inv, CarefulInv, [Bill!Next]_(Bill!vars) PROVE CarefulInv'
<1>1. {"create", "note", "correct", "discard", "assign", "register", "void", "cancel"} \subseteq OpsOfInvoices
      /\ {"note", "correct", "discard", "void"} \cap Issuing = {}
      /\ "create" \notin Issuing /\ "cancel" \notin Issuing
  BY DEF OpsOfInvoices, Adding, Issuing
<1>2. ASSUME NEW w \in Workers, Bill!Create(w) PROVE CarefulInv'
  <2>1. PICK d \in Documents, x \in DocType :
          Bill!Begin(w, "create", d, x) /\ Bill!Committed + x.qty <= Ordered
    BY <1>2, CreateBegins
  <2>2. Bill!Committed = Committing(doc)
    BY SumInBilling DEF Bill!Committed, Committing, Amount, Bill!Sum, Qty, Bill!Of, In
  <2> QED BY <1>1, <2>1, <2>2, BeginCareful
<1>3. ASSUME NEW w \in Workers, Bill!Cancel(w) PROVE CarefulInv'
  BY <1>1, <1>3, CancelBegins, CancelFindsNothing, BeginCareful, NoDocumentFacts
<1>4. ASSUME NEW w \in Workers, Bill!Commit(w) PROVE CarefulInv' BY <1>4, CommitCareful
<1>5. ASSUME NEW w \in Workers, NEW d \in Documents, Bill!Note(w, d) PROVE CarefulInv'
  BY <1>1, <1>5, NoteBegins, BeginCareful
<1>6. ASSUME NEW w \in Workers, NEW d \in Documents, Bill!Correct(w, d) PROVE CarefulInv'
  BY <1>1, <1>6, CorrectBegins, BeginCareful
<1>7. ASSUME NEW w \in Workers, NEW d \in Documents, Bill!Discard(w, d) PROVE CarefulInv'
  BY <1>1, <1>7, DiscardBegins, BeginCareful, NoDocumentFacts
<1>8. ASSUME NEW w \in Workers, NEW d \in Documents, Bill!Assign(w, d) PROVE CarefulInv'
  <2>1. doc[d].kind = "invoice" => ~cancelled /\ Clear(doc) + doc[d].qty <= Ordered
    BY <1>8, DraftMaySell DEF Bill!Assign
  <2> QED BY <1>1, <1>8, <2>1, AssignBegins, BeginCareful
<1>9. ASSUME NEW w \in Workers, NEW d \in Documents, Bill!Register(w, d) PROVE CarefulInv'
  <2>1. doc[d].kind = "invoice" => ~cancelled /\ Clear(doc) + doc[d].qty <= Ordered
    BY <1>9, DraftMaySell DEF Bill!Register
  <2> QED BY <1>1, <1>9, <2>1, RegisterBegins, BeginCareful
<1>10. ASSUME NEW w \in Workers, NEW d \in Documents, Bill!Void(w, d) PROVE CarefulInv'
  BY <1>1, <1>10, VoidBegins, BeginCareful
<1>11. ASSUME NEW d \in Documents, Bill!Answer(d) PROVE CarefulInv' BY <1>11, AnswerCareful
<1>12. CASE UNCHANGED Bill!vars BY <1>12 DEF Bill!vars, CarefulInv
<1> QED
  BY <1>2, <1>3, <1>4, <1>5, <1>6, <1>7, <1>8, <1>9, <1>10, <1>11, <1>12 DEF Bill!Next

\* CarefulInv holds of whoever invoices carefully.
THEOREM CarefulInvariant ==
  ASSUME Bill!BillingAssumption, Careful PROVE Bill!Spec => []CarefulInv
<1>1. Bill!Init => CarefulInv BY InitCareful
<1>2. Inv /\ CarefulInv /\ [Bill!Next]_(Bill!vars) => CarefulInv' BY NextCareful
<1> QED BY <1>1, <1>2, Invariant, PTL DEF Bill!Spec

\* What is invoiced of an order is no more than what was ordered, for any order, documents
\* and persons: the draft is committed with the order locked (createInTx), and no number
\* is taken of what was not (assertStillAvailable).
THEOREM OrderIsNotOverInvoiced ==
  ASSUME Bill!BillingAssumption, Careful PROVE Bill!Spec => []Bill!NotOverInvoiced
<1>1. Inv /\ CarefulInv => Bill!NotOverInvoiced
  BY InvoicedIsClear DEF CarefulInv, Bill!NotOverInvoiced, Bill!BillingAssumption
<1> QED BY <1>1, Invariant, CarefulInvariant, PTL

\* A cancelled order has nothing invoiced: its cancellation locks the order and finds no
\* draft, and a draft that comes later asks for the state of the order.
THEOREM CancelledIsClear ==
  ASSUME Bill!BillingAssumption, Careful PROVE Bill!Spec => []Bill!CancelledInvoicesNothing
<1>1. ASSUME Inv, CarefulInv PROVE Bill!CancelledInvoicesNothing
  <2>1. Clear(doc) \in Int BY <1>1, SumsAreClear DEF Inv, BillingTyped
  <2> QED BY <1>1, <2>1, InvoicedIsClear DEF CarefulInv, Bill!CancelledInvoicesNothing
<1> QED BY <1>1, Invariant, CarefulInvariant, PTL

=============================================================================
