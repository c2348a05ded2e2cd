---------------------------- MODULE CounterProofs ----------------------------
(***************************************************************************)
(* The counter, Counter.tla, for any number of calls, sessions, sales and  *)
(* keys: an attempt sells once, what a session was closed with adds up for *)
(* ever, and a sale that was voided is undone in its four documents.       *)
(***************************************************************************)
EXTENDS Counter, TLAPS, FiniteSetTheorems

-----------------------------------------------------------------------------
(* Types.                                                                   *)

Jobs == {"claim", "payment", "document", "confirm", "goods", "order"}

SessionType == [state : {"none", "OPEN", "CLOSED"}, expected : Nat]

SaleType ==
  [status : {"none", "ACTIVE", "VOIDING", "VOIDED"}, key : SUBSET Keys, session : Ids \cup {0},
   document : {"none", "ISSUED", "ACCEPTED", "REJECTED", "VOID_PENDING", "VOIDED"},
   paid : BOOLEAN, out : BOOLEAN, ordered : BOOLEAN, noted : BOOLEAN]

CallType ==
  [step : {"none", "keyed", "selling", "closing", "asking", "claiming", "undoing"},
   session : Ids \cup {0}, sale : SaleIds \cup {0}, key : SUBSET Keys, expected : Nat,
   todo : SUBSET Jobs]

Typed ==
  /\ sessions \in [Ids -> SessionType]
  /\ sales \in [SaleIds -> SaleType]
  /\ call \in [Requests -> CallType]

LEMMA NoCallTyped == NoCall \in CallType
BY DEF NoCall, Call, CallType

LEMMA NoSaleTyped == NoSale \in SaleType /\ NoSale.status = "none" /\ NoSale.key = {}
BY DEF NoSale, Sale, SaleType

\* What a session is expected to have is a number.
LEMMA ExpectedTyped ==
  ASSUME CounterAssumption, NEW i \in Ids
  PROVE  Expected(i) \in Nat
<1>1. IsFiniteSet(SaleIds)
  BY FS_Interval DEF CounterAssumption, SaleIds
<1>2. IsFiniteSet({s \in SaleIds : sales[s].session = i /\ sales[s].status = "ACTIVE"})
  BY <1>1, FS_Subset
<1>. QED
  BY <1>2, FS_CardinalityType DEF Expected

-----------------------------------------------------------------------------
(* The inductive invariant.                                                 *)

\* A key is of one sale or of one call.
Keyed ==
  /\ \A s, t \in SaleIds : sales[s].key \cap sales[t].key # {} => s = t
  /\ \A r, q \in Requests : call[r].key \cap call[q].key # {} => r = q
  /\ \A s \in SaleIds, r \in Requests : sales[s].key \cap call[r].key = {}

\* A session is locked by one call, and it is open.
Locked ==
  /\ \A r, q \in Requests : r # q => Held(r) \cap Held(q) = {}
  /\ \A r \in Requests : \A i \in Held(r) : i \in Ids /\ sessions[i].state = "OPEN"

\* What a session has, or is about to be closed with, is what its sales add up to.
Summed ==
  /\ \A i \in Ids : sessions[i].state = "CLOSED" => sessions[i].expected = Expected(i)
  /\ \A r \in Requests : call[r].step = "closing" => call[r].expected = Expected(call[r].session)

Exists(s) == sales[s].status # "none"

Settled == {"ACCEPTED", "VOID_PENDING", "VOIDED"}

\* What left the counter is still out, unless its document was undone.
Fine(s, sale) ==
  /\ sale.session \in Ids
  /\ sale.status = "ACTIVE" => sale.paid
  /\ sale.noted => sale.document = "ACCEPTED"
  /\ ~sale.out \/ ~sale.ordered => sale.document = "VOIDED" \/ sale.noted \/ s \in refused
  /\ sale.status = "VOIDED" => ~sale.paid /\ ~sale.out /\ ~sale.ordered

SaleHolds(s) == Fine(s, sales[s])

\* What a void does not have to do was done.
Done(todo, sale) ==
  /\ "claim" \notin todo => sale.status # "ACTIVE"
  /\ "payment" \notin todo => ~sale.paid
  /\ "goods" \notin todo => ~sale.out
  /\ "order" \notin todo => ~sale.ordered

Voiding == {"asking", "claiming", "undoing"}

VoidHolds(r) ==
  /\ call[r].sale \in SaleIds /\ Exists(call[r].sale)
  /\ sales[call[r].sale].document \in Settled
  /\ Done(call[r].todo, sales[call[r].sale])
  /\ call[r].step # "undoing" => call[r].session = sales[call[r].sale].session
  /\ call[r].step = "undoing" => "claim" \notin call[r].todo

Voided ==
  /\ \A s \in SaleIds : Exists(s) => SaleHolds(s)
  /\ \A r \in Requests : call[r].step \in Voiding => VoidHolds(r)

IInv == Typed /\ Keyed /\ Locked /\ Summed /\ Voided

LEMMA Holds == IInv => SoldOnce /\ ClosedAddsUp /\ VoidedIsUndone
<1>. SUFFICES ASSUME IInv PROVE SoldOnce /\ ClosedAddsUp /\ VoidedIsUndone
  OBVIOUS
<1>1. SoldOnce
  BY DEF IInv, Keyed, SoldOnce
<1>2. ClosedAddsUp
  <2>. SUFFICES ASSUME NEW i \in Ids, sessions[i].state = "CLOSED"
                PROVE  sessions[i].expected =
                         Cardinality({s \in SaleIds : sales[s].session = i /\ sales[s].paid
                                                        /\ sales[s].status = "ACTIVE"})
    BY DEF ClosedAddsUp
  <2>1. \A s \in SaleIds : sales[s].status = "ACTIVE" => sales[s].paid
    BY DEF IInv, Voided, Exists, SaleHolds, Fine
  <2>2. {s \in SaleIds : sales[s].session = i /\ sales[s].paid /\ sales[s].status = "ACTIVE"}
          = {s \in SaleIds : sales[s].session = i /\ sales[s].status = "ACTIVE"}
    BY <2>1
  <2>. QED
    BY <2>2 DEF IInv, Summed, Expected
<1>3. VoidedIsUndone
  <2>. SUFFICES ASSUME NEW s \in SaleIds \ refused, sales[s].status = "VOIDED"
                PROVE  /\ ~sales[s].paid /\ ~sales[s].out /\ ~sales[s].ordered
                       /\ sales[s].document = "VOIDED" \/ sales[s].noted
    BY DEF VoidedIsUndone
  <2>1. SaleHolds(s)
    BY DEF IInv, Voided, Exists
  <2>. QED
    BY <2>1 DEF SaleHolds, Fine
<1>. QED
  BY <1>1, <1>2, <1>3

LEMMA Starts == CounterAssumption /\ Init => IInv
<1>. SUFFICES ASSUME CounterAssumption, Init PROVE IInv
  OBVIOUS
<1>1. Typed
  BY NoCallTyped, NoSaleTyped DEF Init, Typed, Session, SessionType
<1>2. \A r \in Requests : call[r].step = "none" /\ call[r].key = {}
  BY DEF Init, NoCall, Call
<1>3. \A s \in SaleIds : sales[s].key = {} /\ ~Exists(s)
  BY NoSaleTyped DEF Init, Exists
<1>4. \A i \in Ids : sessions[i].state = "none"
  BY DEF Init, Session
<1>. QED
  BY <1>1, <1>2, <1>3, <1>4 DEF IInv, Keyed, Locked, Summed, Voided, Held, Voiding

-----------------------------------------------------------------------------
(* What a step keeps.                                                       *)

Holding == {"selling", "closing", "claiming"}

LEMMA HeldIs ==
  ASSUME NEW r \in Requests
  PROVE  /\ Held(r) = IF call[r].step \in Holding THEN {call[r].session} ELSE {}
         /\ Held(r)' = IF call'[r].step \in Holding THEN {call'[r].session} ELSE {}
<1>1. Held(r) = IF call[r].step \in Holding THEN {call[r].session} ELSE {}
  <2>1. CASE call[r].step = "selling"
    BY <2>1 DEF Held, Holding
  <2>2. CASE call[r].step = "closing"
    BY <2>2 DEF Held, Holding, CloseLocks
  <2>3. CASE call[r].step = "claiming"
    BY <2>3 DEF Held, Holding, ClaimLocks
  <2>4. CASE call[r].step \notin Holding
    BY <2>4 DEF Held, Holding
  <2>. QED
    BY <2>1, <2>2, <2>3, <2>4 DEF Holding
<1>2. Held(r)' = IF call'[r].step \in Holding THEN {call'[r].session} ELSE {}
  <2>1. CASE call'[r].step = "selling"
    BY <2>1 DEF Held, Holding
  <2>2. CASE call'[r].step = "closing"
    BY <2>2 DEF Held, Holding, CloseLocks
  <2>3. CASE call'[r].step = "claiming"
    BY <2>3 DEF Held, Holding, ClaimLocks
  <2>4. CASE call'[r].step \notin Holding
    BY <2>4 DEF Held, Holding
  <2>. QED
    BY <2>1, <2>2, <2>3, <2>4 DEF Holding
<1>. QED
  BY <1>1, <1>2

\* The sums change only where a sale begins to count or ceases to.
LEMMA SumsStay ==
  ASSUME NEW i,
         \A s \in SaleIds : sales'[s].session = i /\ sales'[s].status = "ACTIVE"
                              <=> sales[s].session = i /\ sales[s].status = "ACTIVE"
  PROVE  Expected(i)' = Expected(i)
BY DEF Expected

\* A void finds what it left, whatever the others did to its sale.
Onward(a, b) ==
  /\ b.session = a.session /\ b.key = a.key
  /\ b.status # "none"
  /\ b.status = "ACTIVE" => a.status = "ACTIVE"
  /\ b.paid => a.paid
  /\ b.out => a.out
  /\ b.ordered => a.ordered
  /\ a.document \in Settled => b.document \in Settled

LEMMA VoidsStay ==
  ASSUME NEW r \in Requests, VoidHolds(r), call'[r] = call[r],
         \A s \in SaleIds : Exists(s) => Onward(sales[s], sales'[s])
  PROVE  VoidHolds(r)'
<1>1. Exists(call[r].sale) /\ call[r].sale \in SaleIds
  BY DEF VoidHolds
<1>2. Onward(sales[call[r].sale], sales'[call[r].sale])
  BY <1>1
<1>3. Done(call[r].todo, sales'[call[r].sale])
  BY <1>2 DEF VoidHolds, Done, Onward
<1>. QED
  BY <1>1, <1>2, <1>3 DEF VoidHolds, Onward, Exists, Done

\* A step of the void of a sale: one more of its parts is done, and nothing else.
LEMMA VoidStep ==
  ASSUME CounterAssumption, IInv,
         NEW r \in Requests, call[r].step \in {"claiming", "undoing"},
         NEW sale \in SaleType, NEW next \in CallType,
         Onward(The(r), sale), Fine(call[r].sale, sale),
         call[r].step = "undoing" => The(r).status # "ACTIVE",
         Writes(r, sale), Goes(r, next), UNCHANGED <<sessions, refused>>,
         \/ next = NoCall
         \/ /\ next.step = "undoing" /\ next.sale = call[r].sale /\ next.key = {}
            /\ Done(next.todo, sale) /\ "claim" \notin next.todo
  PROVE  IInv'
<1>1. Typed /\ Keyed /\ Locked /\ Summed /\ Voided
  BY DEF IInv
<1>2. VoidHolds(r) /\ call[r].sale \in SaleIds /\ Exists(call[r].sale)
  BY <1>1 DEF Voided, Voiding, VoidHolds
<1>3. Typed'
  BY <1>1 DEF Typed, Writes, Goes
<1>4. /\ \A s \in SaleIds : s # call[r].sale => sales'[s] = sales[s]
      /\ \A q \in Requests : q # r => call'[q] = call[q]
      /\ sales'[call[r].sale] = sale /\ call'[r] = next
  BY <1>1, <1>2 DEF Typed, Writes, Goes
<1>5. \A s \in SaleIds : Exists(s) => Onward(sales[s], sales'[s])
  BY <1>4 DEF Onward, The, Exists
<1>6. next.key = {} /\ next.step \in {"none", "undoing"}
  BY DEF NoCall, Call
<1>7. Keyed'
  <2>1. \A s \in SaleIds : sales'[s].key = sales[s].key
    BY <1>4 DEF Onward, The
  <2>. QED
    BY <1>1, <1>4, <1>6, <2>1 DEF Keyed
<1>8. Locked'
  <2>1. Held(r)' = {} /\ \A q \in Requests : q # r => Held(q)' = Held(q)
    BY <1>4, <1>6, HeldIs DEF Holding
  <2>. QED
    BY <1>1, <2>1 DEF Locked
<1>9. Summed'
  <2>1. \A i : (The(r).status # "ACTIVE" \/ i # The(r).session) => Expected(i)' = Expected(i)
    <3>. SUFFICES ASSUME NEW i, The(r).status # "ACTIVE" \/ i # The(r).session
                  PROVE  Expected(i)' = Expected(i)
      OBVIOUS
    <3>1. \A s \in SaleIds : sales'[s].session = i /\ sales'[s].status = "ACTIVE"
                               <=> sales[s].session = i /\ sales[s].status = "ACTIVE"
      BY <1>4 DEF Onward, The
    <3>. QED
      BY <3>1, SumsStay
  <2>2. CASE The(r).status # "ACTIVE"
    BY <1>1, <1>4, <1>6, <2>1, <2>2 DEF Summed
  <2>3. CASE The(r).status = "ACTIVE"
    <3>1. call[r].step = "claiming" /\ call[r].session = The(r).session
      BY <1>2, <2>3 DEF VoidHolds, The
    <3>2. Held(r) = {The(r).session} /\ sessions[The(r).session].state = "OPEN"
      BY <1>1, <3>1, HeldIs DEF Holding, Locked
    <3>3. ASSUME NEW q \in Requests, q # r, call[q].step = "closing"
          PROVE  call[q].session # The(r).session
      BY <1>1, <3>2, <3>3, HeldIs DEF Holding, Locked
    <3>. QED
      BY <1>1, <1>4, <1>6, <2>1, <3>2, <3>3 DEF Summed
  <2>. QED
    BY <2>2, <2>3
<1>10. Voided'
  <2>1. ASSUME NEW s \in SaleIds, Exists(s)'
        PROVE  SaleHolds(s)'
    <3>1. CASE s = call[r].sale
      BY <1>4, <3>1 DEF SaleHolds, Fine
    <3>2. CASE s # call[r].sale
      BY <1>1, <1>4, <2>1, <3>2 DEF Voided, Exists, SaleHolds, Fine
    <3>. QED
      BY <3>1, <3>2
  <2>2. ASSUME NEW q \in Requests, call'[q].step \in Voiding
        PROVE  VoidHolds(q)'
    <3>1. CASE q # r
      <4>1. VoidHolds(q) /\ call'[q] = call[q]
        BY <1>1, <1>4, <2>2, <3>1 DEF Voided
      <4>. QED
        BY <1>5, <4>1, VoidsStay
    <3>2. CASE q = r
      <4>1. next.step = "undoing" /\ next.sale = call[r].sale
        BY <1>4, <2>2, <3>2 DEF NoCall, Call, Voiding
      <4>2. Done(next.todo, sale) /\ "claim" \notin next.todo
        BY <4>1 DEF NoCall, Call
      <4>3. sale.document \in Settled /\ sale.status # "none"
        BY <1>2 DEF VoidHolds, Onward, The
      <4>. QED
        BY <1>2, <1>4, <3>2, <4>1, <4>2, <4>3 DEF VoidHolds, Exists, Done
    <3>. QED
      BY <3>1, <3>2
  <2>. QED
    BY <2>1, <2>2 DEF Voided
<1>. QED
  BY <1>3, <1>7, <1>8, <1>9, <1>10 DEF IInv

-----------------------------------------------------------------------------
(* The void of a sale.                                                      *)

\* What a step of a void finds.
LEMMA Found ==
  ASSUME IInv, NEW r \in Requests, call[r].step \in {"claiming", "undoing"}
  PROVE  /\ The(r) \in SaleType /\ call[r].sale \in SaleIds /\ VoidHolds(r)
         /\ Onward(The(r), The(r)) /\ Fine(call[r].sale, The(r))
         /\ call[r].step = "undoing" => The(r).status # "ACTIVE"
         /\ The(r).document \in Settled /\ Done(call[r].todo, The(r))
         /\ call[r].step = "undoing" => "claim" \notin call[r].todo
         /\ UNCHANGED sales => Writes(r, The(r))
<1>1. VoidHolds(r) /\ sales \in [SaleIds -> SaleType]
  BY DEF IInv, Voided, Voiding, Typed
<1>2. call[r].sale \in SaleIds /\ The(r) \in SaleType /\ Exists(call[r].sale)
  BY <1>1 DEF VoidHolds, The
<1>3. Onward(The(r), The(r)) /\ Fine(call[r].sale, The(r))
  BY <1>2 DEF Onward, The, Exists, IInv, Voided, SaleHolds
<1>4. UNCHANGED sales => Writes(r, The(r))
  BY <1>1, <1>2 DEF Writes, The
<1>. QED
  BY <1>1, <1>2, <1>3, <1>4 DEF VoidHolds, The, Done

LEMMA Stops ==
  ASSUME CounterAssumption, IInv,
         NEW r \in Requests, call[r].step \in {"claiming", "undoing"},
         NEW sale \in SaleType, Onward(The(r), sale), Fine(call[r].sale, sale),
         Writes(r, sale), Ends(r), UNCHANGED <<sessions, refused>>
  PROVE  IInv'
BY NoCallTyped, Found, VoidStep DEF Ends

\* The part that is done is done.
Settles(job, sale) ==
  /\ job = "claim" => sale.status # "ACTIVE"
  /\ job = "payment" => ~sale.paid
  /\ job = "goods" => ~sale.out
  /\ job = "order" => ~sale.ordered

LEMMA GoesOn ==
  ASSUME CounterAssumption, IInv,
         NEW r \in Requests, call[r].step \in {"claiming", "undoing"},
         NEW sale \in SaleType, Onward(The(r), sale), Fine(call[r].sale, sale),
         NEW job \in Jobs, Settles(job, sale), job = "claim" \/ call[r].step = "undoing",
         Writes(r, sale), Undoing(r, job), UNCHANGED <<sessions, refused>>
  PROVE  IInv'
<1>1. call[r].todo \subseteq Jobs /\ call[r].sale \in SaleIds
  BY Found DEF IInv, Typed, CallType
<1>2. PICK next : next = Call("undoing", 0, call[r].sale, {}, 0, call[r].todo \ {job})
  OBVIOUS
<1>3. next \in CallType
  BY <1>1, <1>2 DEF Call, CallType
<1>4. Done(call[r].todo, The(r))
  BY Found
<1>5. Done(call[r].todo \ {job}, sale)
  BY <1>4 DEF Done, Onward, Settles
<1>6. /\ next.step = "undoing" /\ next.sale = call[r].sale /\ next.key = {}
      /\ next.todo = call[r].todo \ {job}
  BY <1>2 DEF Call
<1>7. "claim" \notin call[r].todo \ {job}
  BY Found
<1>8. Goes(r, next)
  BY <1>2 DEF Undoing
<1>. QED
  BY <1>3, <1>5, <1>6, <1>7, <1>8, Found, VoidStep

LEMMA ClaimKeeps ==
  ASSUME CounterAssumption, IInv, NEW r \in Requests, CommitClaim(r)
  PROVE  IInv'
<1>1. call[r].step = "claiming" /\ Claim(r) /\ UNCHANGED <<sessions, refused>>
  BY DEF CommitClaim
<1>2. CASE "claim" \notin call[r].todo
  <2>1. Settles("claim", The(r))
    BY <1>1, <1>2, Found DEF Settles, Done
  <2>2. UNCHANGED sales /\ Undoing(r, "claim")
    BY <1>1, <1>2 DEF Claim
  <2>. QED
    BY <1>1, <2>1, <2>2, Found, GoesOn DEF Jobs
<1>3. CASE "claim" \in call[r].todo /\ The(r).status # "ACTIVE"
  <2>1. UNCHANGED sales /\ Ends(r)
    BY <1>1, <1>3 DEF Claim
  <2>. QED
    BY <1>1, <2>1, Found, Stops
<1>4. CASE "claim" \in call[r].todo /\ The(r).status = "ACTIVE"
  <2>1. PICK sale : sale = [The(r) EXCEPT !.status = "VOIDING"]
    OBVIOUS
  <2>2. Writes(r, sale) /\ Undoing(r, "claim")
    BY <1>1, <1>4, <2>1 DEF Claim
  <2>3. sale \in SaleType /\ Onward(The(r), sale) /\ Fine(call[r].sale, sale)
    BY <1>1, <1>4, <2>1, Found DEF SaleType, Onward, Fine
  <2>4. Settles("claim", sale)
    BY <1>1, <2>1, Found DEF Settles, SaleType
  <2>. QED
    BY <1>1, <2>2, <2>3, <2>4, GoesOn DEF Jobs
<1>. QED
  BY <1>2, <1>3, <1>4

LEMMA UnpayKeeps ==
  ASSUME CounterAssumption, IInv, NEW r \in Requests, Unpay(r)
  PROVE  IInv'
<1>1. call[r].step = "undoing" /\ UNCHANGED <<sessions, refused>>
  BY DEF Unpay, Due
<1>2. CASE The(r).paid
  <2>1. PICK sale : sale = [The(r) EXCEPT !.paid = FALSE]
    OBVIOUS
  <2>2. Writes(r, sale) /\ Undoing(r, "payment")
    BY <1>2, <2>1 DEF Unpay
  <2>3. sale \in SaleType /\ Onward(The(r), sale) /\ Fine(call[r].sale, sale)
    BY <1>1, <2>1, Found DEF SaleType, Onward, Fine
  <2>4. Settles("payment", sale)
    BY <1>1, <2>1, Found DEF Settles, SaleType
  <2>. QED
    BY <1>1, <2>2, <2>3, <2>4, GoesOn DEF Jobs
<1>3. CASE ~The(r).paid
  <2>1. UNCHANGED sales /\ Ends(r)
    BY <1>3 DEF Unpay
  <2>. QED
    BY <1>1, <2>1, Found, Stops
<1>. QED
  BY <1>2, <1>3

LEMMA ConfirmKeeps ==
  ASSUME CounterAssumption, IInv, NEW r \in Requests, Confirm(r)
  PROVE  IInv'
<1>1. call[r].step = "undoing" /\ UNCHANGED <<sales, sessions, refused>>
  BY DEF Confirm, Due
<1>2. CASE Ends(r)
  BY <1>1, <1>2, Found, Stops
<1>3. CASE Undoing(r, "confirm")
  <2>1. Settles("confirm", The(r))
    BY DEF Settles
  <2>. QED
    BY <1>1, <1>3, <2>1, Found, GoesOn DEF Jobs
<1>. QED
  BY <1>2, <1>3 DEF Confirm

LEMMA VoidDocumentKeeps ==
  ASSUME CounterAssumption, IInv, NEW r \in Requests, VoidDocument(r)
  PROVE  IInv'
<1>1. call[r].step = "undoing" /\ UNCHANGED <<sessions, refused>>
  BY DEF VoidDocument, Due
<1>2. \A sale : Settles("document", sale)
  BY DEF Settles
<1>3. CASE UNCHANGED sales /\ Ends(r)
  BY <1>1, <1>3, Found, Stops
<1>4. CASE UNCHANGED sales /\ Undoing(r, "document")
  BY <1>1, <1>2, <1>4, Found, GoesOn DEF Jobs
<1>5. ASSUME NEW to \in {"VOIDED", "VOID_PENDING"},
             The(r).document = "ACCEPTED", ~The(r).noted,
             Writes(r, [The(r) EXCEPT !.document = to]),
             Undoing(r, "document") \/ Ends(r)
      PROVE  IInv'
  <2>1. PICK sale : sale = [The(r) EXCEPT !.document = to]
    OBVIOUS
  <2>2. sale \in SaleType /\ Onward(The(r), sale)
    BY <1>1, <2>1, Found DEF SaleType, Onward, Settled
  <2>3. Fine(call[r].sale, sale)
    BY <1>1, <1>5, <2>1, Found DEF SaleType, Fine
  <2>. QED
    BY <1>1, <1>2, <1>5, <2>1, <2>2, <2>3, Stops, GoesOn DEF Jobs
<1>. QED
  BY <1>3, <1>4, <1>5 DEF VoidDocument

LEMMA CreditNoteKeeps ==
  ASSUME CounterAssumption, IInv, NEW r \in Requests, CreditNote(r)
  PROVE  IInv'
<1>1. /\ call[r].step = "undoing" /\ UNCHANGED <<sessions, refused>>
      /\ The(r).document = "ACCEPTED" /\ ~The(r).noted
      /\ Undoing(r, "document")
  BY DEF CreditNote, Due
<1>2. PICK sale : sale = [The(r) EXCEPT !.noted = TRUE]
  OBVIOUS
<1>3. sale \in SaleType /\ Onward(The(r), sale) /\ Fine(call[r].sale, sale)
  BY <1>1, <1>2, Found DEF SaleType, Onward, Fine
<1>4. Writes(r, sale) /\ Settles("document", sale)
  BY <1>2 DEF CreditNote, Settles
<1>. QED
  BY <1>1, <1>3, <1>4, GoesOn DEF Jobs

\* Of a sale whose void goes on, who no longer declares it was undone.
LEMMA Undeclared ==
  ASSUME IInv, NEW r \in Requests, call[r].step = "undoing", ~StillDeclared(The(r))
  PROVE  The(r).document = "VOIDED" \/ The(r).noted
BY Found DEF StillDeclared, Settled

LEMMA BringBackKeeps ==
  ASSUME CounterAssumption, IInv, NEW r \in Requests, BringBack(r)
  PROVE  IInv'
<1>1. call[r].step = "undoing" /\ UNCHANGED <<sessions, refused>>
  BY DEF BringBack, Due
<1>2. CASE The(r).out /\ ~StillDeclared(The(r))
  <2>1. PICK sale : sale = [The(r) EXCEPT !.out = FALSE]
    OBVIOUS
  <2>2. Writes(r, sale) /\ Undoing(r, "goods")
    BY <1>2, <2>1 DEF BringBack
  <2>3. sale \in SaleType /\ Onward(The(r), sale)
    BY <1>1, <2>1, Found DEF SaleType, Onward
  <2>4. The(r).document = "VOIDED" \/ The(r).noted
    BY <1>1, <1>2, Undeclared
  <2>5. Fine(call[r].sale, sale)
    BY <1>1, <2>1, <2>4, Found DEF SaleType, Fine
  <2>6. Settles("goods", sale)
    BY <1>1, <2>1, Found DEF Settles, SaleType
  <2>. QED
    BY <1>1, <2>2, <2>3, <2>5, <2>6, GoesOn DEF Jobs
<1>3. CASE ~(The(r).out /\ ~StillDeclared(The(r)))
  <2>1. UNCHANGED sales /\ Ends(r)
    BY <1>3 DEF BringBack
  <2>. QED
    BY <1>1, <2>1, Found, Stops
<1>. QED
  BY <1>2, <1>3

LEMMA CancelOrderKeeps ==
  ASSUME CounterAssumption, IInv, NEW r \in Requests, CancelOrder(r)
  PROVE  IInv'
<1>1. call[r].step = "undoing" /\ UNCHANGED <<sessions, refused>>
  BY DEF CancelOrder, Due
<1>2. CASE The(r).ordered /\ ~The(r).out /\ ~StillDeclared(The(r))
  <2>1. PICK sale : sale = [The(r) EXCEPT !.ordered = FALSE]
    OBVIOUS
  <2>2. Writes(r, sale) /\ Undoing(r, "order")
    BY <1>2, <2>1 DEF CancelOrder
  <2>3. sale \in SaleType /\ Onward(The(r), sale)
    BY <1>1, <2>1, Found DEF SaleType, Onward
  <2>4. The(r).document = "VOIDED" \/ The(r).noted
    BY <1>1, <1>2, Undeclared
  <2>5. Fine(call[r].sale, sale)
    BY <1>1, <2>1, <2>4, Found DEF SaleType, Fine
  <2>6. Settles("order", sale)
    BY <1>1, <2>1, Found DEF Settles, SaleType
  <2>. QED
    BY <1>1, <2>2, <2>3, <2>5, <2>6, GoesOn DEF Jobs
<1>3. CASE ~(The(r).ordered /\ ~The(r).out /\ ~StillDeclared(The(r)))
  <2>1. UNCHANGED sales /\ Ends(r)
    BY <1>3 DEF CancelOrder
  <2>. QED
    BY <1>1, <2>1, Found, Stops
<1>. QED
  BY <1>2, <1>3

LEMMA EndVoidKeeps ==
  ASSUME CounterAssumption, IInv, NEW r \in Requests, EndVoid(r)
  PROVE  IInv'
<1>1. /\ call[r].step = "undoing" /\ call[r].todo = {} /\ UNCHANGED <<sessions, refused>>
      /\ Ends(r)
  BY DEF EndVoid
<1>2. PICK sale : sale = [The(r) EXCEPT !.status = "VOIDED"]
  OBVIOUS
<1>3. ~The(r).paid /\ ~The(r).out /\ ~The(r).ordered
  BY <1>1, Found DEF Done
<1>4. sale \in SaleType /\ Onward(The(r), sale)
  BY <1>1, <1>2, Found DEF SaleType, Onward
<1>5. Fine(call[r].sale, sale)
  BY <1>1, <1>2, <1>3, Found DEF SaleType, Fine
<1>6. Writes(r, sale)
  BY <1>2 DEF EndVoid
<1>. QED
  BY <1>1, <1>4, <1>5, <1>6, Stops

-----------------------------------------------------------------------------
(* The other steps.                                                         *)

\* A call goes on, and nothing is written.
LEMMA CallStep ==
  ASSUME IInv, NEW r \in Requests, NEW next \in CallType, Goes(r, next),
         UNCHANGED <<sessions, sales, refused>>,
         \A s \in SaleIds : sales[s].key \cap next.key = {},
         \A q \in Requests : q # r => call[q].key \cap next.key = {},
         next.step \in Holding =>
           /\ next.session \in Ids /\ sessions[next.session].state = "OPEN"
           /\ \A q \in Requests : q # r => next.session \notin Held(q),
         next.step = "closing" => next.expected = Expected(next.session),
         next.step \in Voiding =>
           /\ next.sale \in SaleIds /\ Exists(next.sale)
           /\ sales[next.sale].document \in Settled
           /\ Done(next.todo, sales[next.sale])
           /\ next.step # "undoing" => next.session = sales[next.sale].session
           /\ next.step = "undoing" => "claim" \notin next.todo
  PROVE  IInv'
<1>1. Typed /\ Keyed /\ Locked /\ Summed /\ Voided
  BY DEF IInv
<1>2. call'[r] = next /\ \A q \in Requests : q # r => call'[q] = call[q]
  BY <1>1 DEF Typed, Goes
<1>3. Typed'
  BY <1>1 DEF Typed, Goes
<1>4. Keyed'
  BY <1>1, <1>2 DEF Keyed
<1>5. Locked'
  <2>1. Held(r)' = IF next.step \in Holding THEN {next.session} ELSE {}
    BY <1>2, HeldIs
  <2>2. \A q \in Requests : q # r => Held(q)' = Held(q)
    BY <1>2, HeldIs
  <2>. QED
    BY <1>1, <2>1, <2>2 DEF Locked
<1>6. Summed'
  <2>1. \A i : Expected(i)' = Expected(i)
    BY DEF Expected
  <2>. QED
    BY <1>1, <1>2, <2>1 DEF Summed
<1>7. Voided'
  <2>1. \A s \in SaleIds : Exists(s)' => SaleHolds(s)'
    BY <1>1 DEF Voided, Exists, SaleHolds, Fine
  <2>2. ASSUME NEW q \in Requests, call'[q].step \in Voiding
        PROVE  VoidHolds(q)'
    BY <1>1, <1>2, <2>2 DEF Voided, VoidHolds, Exists, Done
  <2>. QED
    BY <2>1, <2>2 DEF Voided
<1>. QED
  BY <1>3, <1>4, <1>5, <1>6, <1>7 DEF IInv

LEMMA EndKeeps ==
  ASSUME IInv, NEW r \in Requests, Ends(r), UNCHANGED <<sessions, sales, refused>>
  PROVE  IInv'
<1>1. NoCall.key = {} /\ NoCall.step = "none" /\ NoCall \in CallType
  BY NoCallTyped DEF NoCall, Call
<1>. QED
  BY <1>1, CallStep DEF Ends, Holding, Voiding

LEMMA AskSellKeeps ==
  ASSUME IInv, NEW r \in Requests, NEW k \in Keys, AskSell(r, k)
  PROVE  IInv'
<1>1. PICK next : next = Call("keyed", 0, 0, {k}, 0, {})
  OBVIOUS
<1>2. next \in CallType /\ next.step = "keyed" /\ next.key = {k}
  BY <1>1 DEF Call, CallType
<1>3. \A s \in SaleIds : sales[s].key \cap next.key = {}
  BY <1>2 DEF AskSell, Taken
<1>4. \A q \in Requests : call[q].key \cap next.key = {}
  BY <1>2 DEF AskSell, Taken
<1>. QED
  BY <1>1, <1>2, <1>3, <1>4, CallStep DEF AskSell, Holding, Voiding

LEMMA EnterKeeps ==
  ASSUME IInv, NEW r \in Requests, Enter(r)
  PROVE  IInv'
<1>1. UNCHANGED <<sessions, sales, refused>>
  BY DEF Enter
<1>2. CASE Ends(r)
  BY <1>1, <1>2, EndKeeps
<1>3. ASSUME NEW i \in Open, Unlocked({i}), Goes(r, Call("selling", i, 0, call[r].key, 0, {}))
      PROVE  IInv'
  <2>1. PICK next : next = Call("selling", i, 0, call[r].key, 0, {})
    OBVIOUS
  <2>2. i \in Ids /\ sessions[i].state = "OPEN" /\ call[r] \in CallType
    BY DEF Open, IInv, Typed
  <2>3. next \in CallType /\ next.step = "selling" /\ next.key = call[r].key /\ next.session = i
    BY <2>1, <2>2 DEF Call, CallType
  <2>4. \A q \in Requests : i \notin Held(q)
    BY <1>3 DEF Unlocked
  <2>5. /\ \A s \in SaleIds : sales[s].key \cap next.key = {}
        /\ \A q \in Requests : q # r => call[q].key \cap next.key = {}
    BY <2>3 DEF IInv, Keyed
  <2>. QED
    BY <1>1, <1>3, <2>1, <2>2, <2>3, <2>4, <2>5, CallStep DEF Voiding
<1>. QED
  BY <1>2, <1>3 DEF Enter

LEMMA AskCloseKeeps ==
  ASSUME CounterAssumption, IInv, NEW r \in Requests, NEW i \in Ids, AskClose(r, i)
  PROVE  IInv'
<1>1. PICK next : next = Call("closing", i, 0, {}, Expected(i), {})
  OBVIOUS
<1>2. Expected(i) \in Nat
  BY ExpectedTyped
<1>3. /\ next \in CallType /\ next.step = "closing" /\ next.key = {} /\ next.session = i
      /\ next.expected = Expected(i)
  BY <1>1, <1>2 DEF Call, CallType
<1>4. \A q \in Requests : i \notin Held(q)
  BY DEF AskClose, Unlocked, CloseLocks
<1>. QED
  BY <1>1, <1>3, <1>4, CallStep DEF AskClose, Voiding

LEMMA AskVoidKeeps ==
  ASSUME IInv, NEW r \in Requests, NEW s \in SaleIds, AskVoid(r, s)
  PROVE  IInv'
<1>1. PICK next : next = Call("asking", sales[s].session, s, {}, 0, Todo(sales[s]))
  OBVIOUS
<1>2. sales[s] \in SaleType /\ Exists(s) /\ Fine(s, sales[s])
  BY DEF AskVoid, IInv, Typed, Voided, Exists, SaleHolds
<1>3. Todo(sales[s]) \subseteq Jobs
  BY DEF Todo, Jobs
<1>4. /\ next \in CallType /\ next.step = "asking" /\ next.key = {} /\ next.sale = s
      /\ next.session = sales[s].session /\ next.todo = Todo(sales[s])
  BY <1>1, <1>2, <1>3 DEF Call, CallType, SaleType
<1>5. sales[s].document \in Settled
  BY <1>2 DEF AskVoid, AlreadyUndone, Settled, Fine
<1>6. Done(Todo(sales[s]), sales[s])
  BY DEF Todo, Done
<1>. QED
  BY <1>1, <1>2, <1>4, <1>5, <1>6, CallStep DEF AskVoid, Holding

LEMMA LockClaimKeeps ==
  ASSUME IInv, NEW r \in Requests, LockClaim(r)
  PROVE  IInv'
<1>1. UNCHANGED <<sessions, sales, refused>> /\ call[r].step = "asking"
  BY DEF LockClaim
<1>2. CASE sessions[call[r].session].state # "OPEN"
  BY <1>1, <1>2, EndKeeps DEF LockClaim
<1>3. CASE sessions[call[r].session].state = "OPEN"
  <2>1. PICK next : next = [call[r] EXCEPT !.step = "claiming"]
    OBVIOUS
  <2>2. call[r] \in CallType /\ call \in [Requests -> CallType]
    BY DEF IInv, Typed
  <2>3. /\ next \in CallType /\ next.step = "claiming" /\ next.key = call[r].key
        /\ next.session = call[r].session /\ next.sale = call[r].sale /\ next.todo = call[r].todo
    BY <2>1, <2>2 DEF CallType
  <2>4. Goes(r, next)
    BY <1>3, <2>1, <2>2 DEF LockClaim, Goes
  <2>5. VoidHolds(r)
    BY <1>1 DEF IInv, Voided, Voiding
  <2>6. next.session \in Ids
    BY <1>1, <2>3, <2>5 DEF VoidHolds, IInv, Voided, SaleHolds, Fine
  <2>7. \A q \in Requests : next.session \notin Held(q)
    BY <2>3 DEF LockClaim, Unlocked, ClaimLocks
  <2>8. /\ \A s \in SaleIds : sales[s].key \cap next.key = {}
        /\ \A q \in Requests : q # r => call[q].key \cap next.key = {}
    BY <2>3 DEF IInv, Keyed
  <2>. QED
    BY <1>1, <1>3, <2>3, <2>4, <2>5, <2>6, <2>7, <2>8, CallStep DEF VoidHolds
<1>. QED
  BY <1>2, <1>3

LEMMA OpenSessionKeeps ==
  ASSUME IInv, OpenSession
  PROVE  IInv'
<1>1. PICK i \in Ids : /\ sessions[i].state = "none"
                       /\ sessions' = [sessions EXCEPT ![i] = Session("OPEN", 0)]
  BY DEF OpenSession
<1>2. UNCHANGED <<sales, call, refused>>
  BY DEF OpenSession
<1>3. Session("OPEN", 0) \in SessionType /\ Session("OPEN", 0).state = "OPEN"
  BY DEF Session, SessionType
<1>4. /\ sessions'[i].state = "OPEN" /\ \A j \in Ids : j # i => sessions'[j] = sessions[j]
      /\ Typed'
  BY <1>1, <1>2, <1>3 DEF IInv, Typed
<1>5. Keyed'
  BY <1>2 DEF IInv, Keyed
<1>6. Locked'
  <2>1. \A q \in Requests : Held(q)' = Held(q)
    BY <1>2, HeldIs
  <2>. QED
    BY <1>4, <2>1 DEF IInv, Locked
<1>7. Summed'
  <2>1. \A j : Expected(j)' = Expected(j)
    BY <1>2 DEF Expected
  <2>. QED
    BY <1>2, <1>4, <2>1 DEF IInv, Summed
<1>8. Voided'
  BY <1>2 DEF IInv, Voided, VoidHolds, SaleHolds, Fine, Exists, Done
<1>. QED
  BY <1>4, <1>5, <1>6, <1>7, <1>8 DEF IInv

LEMMA CommitCloseKeeps ==
  ASSUME CounterAssumption, IInv, NEW r \in Requests, CommitClose(r)
  PROVE  IInv'
<1>1. PICK i : i = call[r].session
  OBVIOUS
<1>2. /\ call[r].step = "closing" /\ UNCHANGED <<sales, refused>> /\ Ends(r)
      /\ sessions' = [sessions EXCEPT ![i] = Session("CLOSED", call[r].expected)]
  BY <1>1 DEF CommitClose
<1>3. i \in Held(r) /\ i \in Ids /\ \A q \in Requests : q # r => i \notin Held(q)
  BY <1>1, <1>2, HeldIs DEF Holding, IInv, Locked
<1>4. call[r].expected = Expected(i) /\ call[r].expected \in Nat
  BY <1>1, <1>2 DEF IInv, Summed, Typed, CallType
<1>5. /\ Session("CLOSED", call[r].expected) \in SessionType
      /\ Session("CLOSED", call[r].expected).expected = Expected(i)
  BY <1>4 DEF Session, SessionType
<1>6. /\ sessions'[i].expected = Expected(i) /\ \A j \in Ids : j # i => sessions'[j] = sessions[j]
      /\ call'[r] = NoCall /\ \A q \in Requests : q # r => call'[q] = call[q]
      /\ Typed'
  BY <1>2, <1>3, <1>5, NoCallTyped DEF IInv, Typed, Ends, Goes
<1>7. NoCall.key = {} /\ NoCall.step = "none"
  BY DEF NoCall, Call
<1>8. Keyed'
  BY <1>2, <1>6, <1>7 DEF IInv, Keyed
<1>9. Locked'
  <2>1. Held(r)' = {} /\ \A q \in Requests : q # r => Held(q)' = Held(q)
    BY <1>6, <1>7, HeldIs DEF Holding
  <2>. QED
    BY <1>3, <1>6, <2>1 DEF IInv, Locked
<1>10. Summed'
  <2>1. \A j : Expected(j)' = Expected(j)
    BY <1>2 DEF Expected
  <2>. QED
    BY <1>6, <1>7, <2>1 DEF IInv, Summed
<1>11. Voided'
  <2>1. \A s \in SaleIds : Exists(s)' => SaleHolds(s)'
    BY <1>2 DEF IInv, Voided, Exists, SaleHolds, Fine
  <2>2. ASSUME NEW q \in Requests, call'[q].step \in Voiding
        PROVE  VoidHolds(q)'
    BY <1>2, <1>6, <1>7, <2>2 DEF IInv, Voided, Voiding, VoidHolds, Exists, Done
  <2>. QED
    BY <2>1, <2>2 DEF Voided
<1>. QED
  BY <1>6, <1>8, <1>9, <1>10, <1>11 DEF IInv

LEMMA CommitSellKeeps ==
  ASSUME IInv, NEW r \in Requests, CommitSell(r)
  PROVE  IInv'
<1>1. PICK sale : sale = Sale("ACTIVE", call[r].key, call[r].session, "ISSUED",
                              TRUE, TRUE, TRUE, FALSE)
  OBVIOUS
<1>2. PICK s \in SaleIds : sales[s] = NoSale /\ sales' = [sales EXCEPT ![s] = sale]
  BY <1>1 DEF CommitSell
<1>3. call[r].step = "selling" /\ Ends(r) /\ UNCHANGED <<sessions, refused>>
  BY DEF CommitSell
<1>4. /\ call[r] \in CallType /\ call[r].session \in Held(r) /\ call[r].session \in Ids
      /\ sessions[call[r].session].state = "OPEN"
  BY <1>3, HeldIs DEF Holding, IInv, Typed, Locked
<1>5. /\ sale \in SaleType /\ sale.key = call[r].key /\ sale.session = call[r].session
      /\ sale.status = "ACTIVE" /\ Fine(s, sale)
  BY <1>1, <1>4 DEF Sale, SaleType, CallType, Fine
<1>6. /\ sales'[s] = sale /\ \A t \in SaleIds : t # s => sales'[t] = sales[t]
      /\ call'[r] = NoCall /\ \A q \in Requests : q # r => call'[q] = call[q]
      /\ Typed'
  BY <1>2, <1>3, <1>5, NoCallTyped DEF IInv, Typed, Ends, Goes
<1>7. NoCall.key = {} /\ NoCall.step = "none"
  BY DEF NoCall, Call
<1>8. Keyed'
  BY <1>5, <1>6, <1>7 DEF IInv, Keyed
<1>9. Locked'
  <2>1. Held(r)' = {} /\ \A q \in Requests : q # r => Held(q)' = Held(q)
    BY <1>6, <1>7, HeldIs DEF Holding
  <2>. QED
    BY <1>3, <2>1 DEF IInv, Locked
<1>10. Summed'
  <2>1. ASSUME NEW i, i # call[r].session
        PROVE  Expected(i)' = Expected(i)
    <3>1. \A t \in SaleIds : sales'[t].session = i /\ sales'[t].status = "ACTIVE"
                               <=> sales[t].session = i /\ sales[t].status = "ACTIVE"
      BY <1>2, <1>5, <1>6, <2>1, NoSaleTyped
    <3>. QED
      BY <3>1, SumsStay
  <2>2. ASSUME NEW q \in Requests, q # r, call[q].step = "closing"
        PROVE  call[q].session # call[r].session
    BY <1>4, <2>2, HeldIs DEF Holding, IInv, Locked
  <2>. QED
    BY <1>3, <1>4, <1>6, <1>7, <2>1, <2>2 DEF IInv, Summed
<1>11. Voided'
  <2>1. ASSUME NEW t \in SaleIds, Exists(t)'
        PROVE  SaleHolds(t)'
    BY <1>3, <1>5, <1>6, <2>1 DEF IInv, Voided, Exists, SaleHolds, Fine
  <2>2. ASSUME NEW q \in Requests, call'[q].step \in Voiding
        PROVE  VoidHolds(q)'
    <3>1. q # r /\ call'[q] = call[q] /\ VoidHolds(q)
      BY <1>6, <1>7, <2>2 DEF IInv, Voided, Voiding
    <3>2. call[q].sale # s
      BY <1>2, <3>1, NoSaleTyped DEF VoidHolds, Exists
    <3>. QED
      BY <1>6, <3>1, <3>2 DEF VoidHolds, Exists, Done
  <2>. QED
    BY <2>1, <2>2 DEF Voided
<1>. QED
  BY <1>6, <1>8, <1>9, <1>10, <1>11 DEF IInv

\* SUNAT speaks of the document, or takes back the note.
Answered(s, sale) ==
  /\ sale \in SaleType
  /\ sale.status = sales[s].status /\ sale.key = sales[s].key /\ sale.session = sales[s].session
  /\ sale.paid = sales[s].paid /\ sale.out = sales[s].out /\ sale.ordered = sales[s].ordered
  /\ \/ /\ sales[s].document \in {"ISSUED", "VOID_PENDING"} /\ sale.noted = sales[s].noted
        /\ sales[s].document = "VOID_PENDING" => sale.document \in Settled
        /\ UNCHANGED refused
     \/ /\ sale.document = sales[s].document /\ ~sale.noted
        /\ refused' = refused \cup {s}

LEMMA AnswerIs ==
  ASSUME IInv, NEW s \in SaleIds, Answer(s)
  PROVE  \E sale : sales' = [sales EXCEPT ![s] = sale] /\ Answered(s, sale)
<1>1. sales \in [SaleIds -> SaleType] /\ sales[s] \in SaleType
  BY DEF IInv, Typed
<1>2. ASSUME NEW to \in {"ACCEPTED", "REJECTED", "VOIDED"},
             \/ sales[s].document = "ISSUED"
             \/ sales[s].document = "VOID_PENDING" /\ to # "REJECTED",
             sales' = [sales EXCEPT ![s] = [sales[s] EXCEPT !.document = to]],
             UNCHANGED refused
      PROVE  \E sale : sales' = [sales EXCEPT ![s] = sale] /\ Answered(s, sale)
  <2>1. PICK sale : sale = [sales[s] EXCEPT !.document = to]
    OBVIOUS
  <2>2. Answered(s, sale)
    BY <1>1, <1>2, <2>1 DEF SaleType, Answered, Settled
  <2>. QED
    BY <1>2, <2>1, <2>2
<1>3. ASSUME sales' = [sales EXCEPT ![s] = [sales[s] EXCEPT !.noted = FALSE]],
             refused' = refused \cup {s}
      PROVE  \E sale : sales' = [sales EXCEPT ![s] = sale] /\ Answered(s, sale)
  <2>1. PICK sale : sale = [sales[s] EXCEPT !.noted = FALSE]
    OBVIOUS
  <2>2. Answered(s, sale)
    BY <1>1, <1>3, <2>1 DEF SaleType, Answered
  <2>. QED
    BY <1>3, <2>1, <2>2
<1>. QED
  BY <1>2, <1>3 DEF Answer

LEMMA AnswerKeeps ==
  ASSUME IInv, NEW s \in SaleIds, Answer(s)
  PROVE  IInv'
<1>1. UNCHANGED <<sessions, call>>
  BY DEF Answer
<1>2. PICK sale : sales' = [sales EXCEPT ![s] = sale] /\ Answered(s, sale)
  BY AnswerIs
<1>3. /\ sales'[s] = sale /\ \A t \in SaleIds : t # s => sales'[t] = sales[t]
      /\ Typed'
  BY <1>1, <1>2 DEF IInv, Typed, Answered
<1>4. \A t \in SaleIds : /\ sales'[t].key = sales[t].key /\ sales'[t].session = sales[t].session
                          /\ sales'[t].status = sales[t].status
  BY <1>2, <1>3 DEF Answered
<1>5. Keyed'
  BY <1>1, <1>4 DEF IInv, Keyed
<1>6. Locked'
  <2>1. \A q \in Requests : Held(q)' = Held(q)
    BY <1>1, HeldIs
  <2>. QED
    BY <1>1, <2>1 DEF IInv, Locked
<1>7. Summed'
  <2>1. \A i : Expected(i)' = Expected(i)
    BY <1>4, SumsStay
  <2>. QED
    BY <1>1, <2>1 DEF IInv, Summed
<1>8. Voided'
  <2>1. ASSUME NEW t \in SaleIds, Exists(t)'
        PROVE  SaleHolds(t)'
    <3>1. SaleHolds(t)
      BY <1>4, <2>1 DEF IInv, Voided, Exists
    <3>2. CASE t = s
      BY <1>2, <1>3, <3>1, <3>2 DEF SaleHolds, Fine, Answered
    <3>3. CASE t # s
      BY <1>2, <1>3, <3>1, <3>3 DEF SaleHolds, Fine, Answered
    <3>. QED
      BY <3>2, <3>3
  <2>2. ASSUME NEW q \in Requests, call'[q].step \in Voiding
        PROVE  VoidHolds(q)'
    <3>1. \A t \in SaleIds : Exists(t) => Onward(sales[t], sales'[t])
      BY <1>2, <1>3 DEF Onward, Answered, Exists, Settled
    <3>2. VoidHolds(q) /\ call'[q] = call[q]
      BY <1>1, <2>2 DEF IInv, Voided
    <3>. QED
      BY <3>1, <3>2, VoidsStay
  <2>. QED
    BY <2>1, <2>2 DEF Voided
<1>. QED
  BY <1>3, <1>5, <1>6, <1>7, <1>8 DEF IInv

-----------------------------------------------------------------------------

LEMMA Stutters == IInv /\ UNCHANGED vars => IInv'
<1>. SUFFICES ASSUME IInv, UNCHANGED vars PROVE IInv'
  OBVIOUS
<1>1. UNCHANGED <<sessions, sales, call, refused>>
  BY DEF vars
<1>2. Typed' /\ Keyed' /\ Voided'
  BY <1>1 DEF IInv, Typed, Keyed, Voided, VoidHolds, SaleHolds, Fine, Exists, Done
<1>3. Locked'
  <2>1. \A r \in Requests : Held(r)' = Held(r)
    BY <1>1, HeldIs
  <2>. QED
    BY <1>1, <2>1 DEF IInv, Locked
<1>4. Summed'
  BY <1>1 DEF IInv, Summed, Expected
<1>. QED
  BY <1>2, <1>3, <1>4 DEF IInv

LEMMA VoidsKeep ==
  ASSUME CounterAssumption, IInv, NEW r \in Requests, Voids(r)
  PROVE  IInv'
BY LockClaimKeeps, ClaimKeeps, UnpayKeeps, ConfirmKeeps, VoidDocumentKeeps, CreditNoteKeeps,
   BringBackKeeps, CancelOrderKeeps, EndVoidKeeps DEF Voids

LEMMA Keeps == CounterAssumption /\ IInv /\ [Next]_vars => IInv'
<1>. SUFFICES ASSUME CounterAssumption, IInv, [Next]_vars PROVE IInv'
  OBVIOUS
<1>1. ASSUME NEW r \in Requests, Crash(r)
      PROVE  IInv'
  BY <1>1, EndKeeps DEF Crash
<1>. QED
  BY <1>1, OpenSessionKeeps, EnterKeeps, CommitSellKeeps, CommitCloseKeeps, VoidsKeep,
     AskSellKeeps, AskCloseKeeps, AskVoidKeeps, AnswerKeeps, Stutters DEF Next

\* The invariant, from which the three that follow are read.
THEOREM Invariant == ASSUME CounterAssumption PROVE Spec => []IInv
<1>1. Init => IInv
  BY Starts
<1>2. IInv /\ [Next]_vars => IInv'
  BY Keeps
<1>. QED
  BY <1>1, <1>2, PTL DEF Spec

\* An attempt to sell that is repeated, while the first is in progress or after its
\* answer was lost, sells once: the key is claimed before anything else (D-666).
THEOREM AttemptsSellOnce == ASSUME CounterAssumption PROVE Spec => []SoldOnce
<1>1. IInv => SoldOnce
  BY Holds
<1>. QED
  BY <1>1, Invariant, PTL

\* What a session was closed with is what its sales add up to, then and ever after:
\* sell, close and the claim of a void lock the session before they read it (D-101).
THEOREM SessionsAddUp == ASSUME CounterAssumption PROVE Spec => []ClosedAddsUp
<1>1. IInv => ClosedAddsUp
  BY Holds
<1>. QED
  BY <1>1, Invariant, PTL

\* A sale that ends voided is undone in its payment, document, dispatch and order, by
\* however many calls and wherever each was cut, unless SUNAT refuses the note (D-100).
THEOREM VoidsAreComplete == ASSUME CounterAssumption PROVE Spec => []VoidedIsUndone
<1>1. IInv => VoidedIsUndone
  BY Holds
<1>. QED
  BY <1>1, Invariant, PTL
=============================================================================
