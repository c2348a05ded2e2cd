-------------------------- MODULE LockOrderProofs --------------------------
(***************************************************************************)
(* The lock order of LockOrder.tla, for any number of transactions, rows   *)
(* and calls: nobody waits out of order, so no set of transactions waits   *)
(* on itself.                                                              *)
(***************************************************************************)
EXTENDS LockOrder, TLAPS, WellFoundedInduction

-----------------------------------------------------------------------------
(* The inductive invariant.                                                 *)

Exclusive ==
  \A t, u \in Txs : t # u => held[t] \cap held[u] = {}

\* A statement is about the documents of a class, about coils or about one
\* balance, and what it has already locked is no longer left.
StatementShape(t) ==
  /\ stmt[t].left \subseteq stmt[t].rows
  /\ stmt[t].left = {} => stmt[t] = NoStmt
  /\ \/ stmt[t].rows \subseteq Docs
     \/ stmt[t].rows \subseteq Coils
     \/ \E b \in Balances : stmt[t].rows = {b} /\ stmt[t].left = {b}

\* What the gates remember, plus what the statement in progress has locked.
RememberedOrLocking(t) ==
  LET locked == stmt[t].rows \ stmt[t].left IN
  /\ held[t] \cap Docs = memory[t].documents \cup (locked \cap Docs)
  /\ held[t] \cap Coils = memory[t].coils \cup (locked \cap Coils)
  /\ memory[t].balances <=> held[t] \cap Balances # {}

\* A statement that may wait only has, besides rows already held, rows after
\* all of them; the balance of a coil is the exception.
WaitableStatement(t) ==
  ~stmt[t].nowait =>
    \A r \in (stmt[t].left \ held[t]) \ CoilBalances : \A h \in held[t] : h < r

\* The coil comes before its balance.
CoilsFirst(t) ==
  /\ \A b \in held[t] \cap CoilBalances : CoilOf[b] \in held[t]
  /\ \A b \in stmt[t].left \cap CoilBalances : CoilOf[b] \in held[t]
  /\ \A b \in request[t].balances \cap CoilBalances :
       CoilOf[b] \in held[t] \cup request[t].coils \cup stmt[t].left

\* The products still to be asked for come after those already taken.
ProductsFollow(t) ==
  /\ ~request[t].late => AfterHeldProducts(t, request[t].balances)
  /\ \A p \in request[t].balances, b \in stmt[t].left \cap Balances : b < p

Local(t) ==
  /\ StatementShape(t)
  /\ RememberedOrLocking(t)
  /\ WaitableStatement(t)
  /\ CoilsFirst(t)
  /\ ProductsFollow(t)

IInv ==
  /\ TypeOK
  /\ Exclusive
  /\ \A t \in Txs : Local(t)

-----------------------------------------------------------------------------
(* The least element of a set of positions.                                 *)

LessThan == {p \in Nat \X Nat : p[1] < p[2]}

LEMMA LessThanWellFounded == IsWellFoundedOn(LessThan, Nat)
<1>1. LessThan = OpToRel(<, Nat)
  BY DEF LessThan, OpToRel
<1>. QED
  BY <1>1, NatLessThanWellFounded

LEMMA LeastMember ==
  ASSUME NEW S \in SUBSET Nat, S # {}
  PROVE  /\ Least(S) \in S
         /\ \A y \in S : Least(S) <= y
<1>1. PICK x \in S : \A y \in S : ~ (<<y, x>> \in LessThan)
  BY LessThanWellFounded, WFMin
<1>2. ASSUME NEW y \in S PROVE x <= y
  <2>1. <<y, x>> \in LessThan <=> y < x
    BY DEF LessThan
  <2>. QED
    BY <1>1, <2>1
<1>. QED
  BY <1>2 DEF Least

LEMMA RowsArePositions == Rows \in SUBSET Nat
BY ConstantsAssumption

LEMMA NextRowLeft ==
  ASSUME TypeOK, NEW t \in Txs, stmt[t].left # {}
  PROVE  /\ NextRow(t) \in stmt[t].left
         /\ \A y \in stmt[t].left : NextRow(t) <= y
<1>1. stmt[t].left \in SUBSET Nat
  BY RowsArePositions DEF TypeOK, StmtType
<1>. QED
  BY <1>1, LeastMember DEF NextRow

-----------------------------------------------------------------------------
(* Type correctness.                                                        *)

LEMMA CallType ==
  ASSUME TypeOK, NEW t \in Txs,
         NEW D \in SUBSET Docs, NEW C \in SUBSET Coils,
         NEW B \in SUBSET Balances, NEW late \in BOOLEAN,
         Call(t, D, C, B, late)
  PROVE  TypeOK'
<1>1. calls' \in [Txs -> 0..MaxCalls]
  BY ConstantsAssumption DEF TypeOK, Call
<1>2. request' \in [Txs -> RequestType]
  BY DEF TypeOK, Call, RequestType, Ask
<1>. QED
  BY <1>1, <1>2 DEF TypeOK, Call

LEMMA CoilsOfType == \A B \in SUBSET Balances : CoilsOf(B) \in SUBSET Coils
BY ConstantsAssumption DEF CoilsOf

\* The request and the statement of each gate.
LEMMA GateType ==
  ASSUME TypeOK, NEW t \in Txs, Gate(t)
  PROVE  TypeOK'
<1>1. CASE LockDocuments(t)
  BY <1>1, CallType DEF LockDocuments, Asked
<1>2. CASE LockCoilRows(t)
  BY <1>2, CallType DEF LockCoilRows, Asked
<1>3. CASE LockInOrder(t)
  <2>1. PICK C \in Asked(Coils), B \in Asked(Balances) :
          Call(t, {}, C \cup CoilsOf(B), B, FALSE)
    BY <1>3 DEF LockInOrder
  <2>2. C \cup CoilsOf(B) \in SUBSET Coils /\ B \in SUBSET Balances
    BY CoilsOfType DEF Asked
  <2>. QED
    BY <2>1, <2>2, CallType
<1>4. CASE RecordItem(t)
  <2>1. PICK b \in Balances : Call(t, {}, CoilsOf({b}), {b}, FALSE)
    BY <1>4 DEF RecordItem
  <2>2. CoilsOf({b}) \in SUBSET Coils /\ {b} \in SUBSET Balances
    BY CoilsOfType
  <2>. QED
    BY <2>1, <2>2, CallType
<1>5. CASE LockRecostItems(t)
  <2>1. PICK B \in Asked(Balances) : Call(t, {}, CoilsOf(B), B, TRUE)
    BY <1>5 DEF LockRecostItems
  <2>2. CoilsOf(B) \in SUBSET Coils /\ B \in SUBSET Balances
    BY CoilsOfType DEF Asked
  <2>. QED
    BY <2>1, <2>2, CallType
<1>. QED
  BY <1>1, <1>2, <1>3, <1>4, <1>5 DEF Gate

LEMMA IssueType ==
  ASSUME TypeOK, NEW t \in Txs, NEW R \in SUBSET Rows, NEW late \in BOOLEAN,
         Issue(t, R, late)
  PROVE  stmt' \in [Txs -> StmtType]
BY DEF TypeOK, Issue, StmtType, NoStmt

LEMMA StatementType ==
  ASSUME TypeOK, NEW t \in Txs, Statement(t)
  PROVE  TypeOK'
<1>1. CASE IssueDocuments(t)
  <2>. DEFINE class  == ClassOf[Least(request[t].docs)]
              sorted == {d \in request[t].docs : ClassOf[d] = class}
              fresh  == sorted \ memory[t].documents
              late   == DocumentsOutOfOrder(t, class, fresh)
  <2>1. sorted \in SUBSET Docs
    BY DEF TypeOK, RequestType
  <2>2. late \in BOOLEAN
    BY DEF DocumentsOutOfOrder, TypeOK, MemoryType, Some
  <2>3. /\ Issue(t, IF fresh = {} THEN {} ELSE IF late THEN fresh ELSE sorted, late)
        /\ request' = [request EXCEPT ![t] = Ask(@.docs \ sorted, {}, {}, FALSE)]
        /\ UNCHANGED <<status, held, memory, calls>>
    BY <1>1 DEF IssueDocuments
  <2>. HIDE DEF late, sorted
  <2>4. stmt' \in [Txs -> StmtType]
    BY <2>1, <2>2, <2>3, IssueType DEF Rows
  <2>5. request' \in [Txs -> RequestType]
    BY <2>1, <2>3 DEF TypeOK, RequestType, Ask
  <2>. QED
    BY <2>3, <2>4, <2>5 DEF TypeOK
<1>2. CASE IssueCoils(t)
  <2>. DEFINE sorted == request[t].coils
              fresh  == sorted \ memory[t].coils
              late   == CoilsOutOfOrder(t, fresh)
  <2>1. sorted \in SUBSET Coils
    BY DEF TypeOK, RequestType
  <2>2. late \in BOOLEAN
    BY DEF CoilsOutOfOrder, TypeOK, MemoryType, Some
  <2>3. /\ Issue(t, IF fresh = {} THEN {} ELSE IF late THEN fresh ELSE sorted, late)
        /\ request' = [request EXCEPT ![t] = Ask({}, {}, @.balances, @.late)]
        /\ UNCHANGED <<status, held, memory, calls>>
    BY <1>2 DEF IssueCoils
  <2>. HIDE DEF late, sorted
  <2>4. stmt' \in [Txs -> StmtType]
    BY <2>1, <2>2, <2>3, IssueType DEF Rows
  <2>5. request' \in [Txs -> RequestType]
    BY <2>3 DEF TypeOK, RequestType, Ask
  <2>. QED
    BY <2>3, <2>4, <2>5 DEF TypeOK
<1>3. CASE IssueBalance(t)
  <2>. DEFINE b == Least(request[t].balances)
  <2>1. b \in request[t].balances
    BY <1>3, LeastMember, RowsArePositions DEF IssueBalance, TypeOK, RequestType, Rows
  <2>2. b \in Balances /\ request[t].late \in BOOLEAN
    BY <2>1 DEF TypeOK, RequestType
  <2>3. /\ Issue(t, {b}, request[t].late)
        /\ request' = [request EXCEPT
                          ![t] = IF @.balances = {b} THEN NoRequest
                                 ELSE Ask({}, {}, @.balances \ {b}, @.late)]
        /\ UNCHANGED <<status, held, memory, calls>>
    BY <1>3 DEF IssueBalance
  <2>. HIDE DEF b
  <2>4. stmt' \in [Txs -> StmtType]
    BY <2>2, <2>3, IssueType DEF Rows
  <2>5. request' \in [Txs -> RequestType]
    BY <2>3 DEF TypeOK, RequestType, NoRequest, Ask
  <2>. QED
    BY <2>3, <2>4, <2>5 DEF TypeOK
<1>4. CASE LockRow(t)
  <2>1. NextRow(t) \in Rows
    BY <1>4, NextRowLeft DEF LockRow, TypeOK, StmtType
  <2>2. held' \in [Txs -> SUBSET Rows]
    BY <1>4, <2>1 DEF LockRow, TypeOK
  <2>3. stmt' \in [Txs -> StmtType]
    <3>1. NoStmt \in StmtType
      BY DEF StmtType, NoStmt
    <3>2. [rows |-> stmt[t].rows, nowait |-> stmt[t].nowait,
           left |-> stmt[t].left \ {NextRow(t)}] \in StmtType
      BY DEF TypeOK, StmtType
    <3>. QED
      BY <1>4, <3>1, <3>2 DEF LockRow, TypeOK
  <2>4. memory' \in [Txs -> MemoryType]
    <3>1. Remember(memory[t], stmt[t].rows) \in MemoryType
      BY DEF TypeOK, MemoryType, Remember
    <3>. QED
      BY <1>4, <3>1 DEF LockRow, TypeOK
  <2>. QED
    BY <1>4, <2>2, <2>3, <2>4 DEF LockRow, TypeOK
<1>5. CASE RefuseRow(t)
  BY <1>5, ConstantsAssumption
     DEF RefuseRow, End, TypeOK, MemoryType, Forgotten, RequestType, NoRequest, Ask, StmtType, NoStmt
<1>. QED
  BY <1>1, <1>2, <1>3, <1>4, <1>5 DEF Statement

LEMMA EndType ==
  ASSUME TypeOK, NEW t \in Txs, NEW how \in {"ended", "conflict"}, End(t, how)
  PROVE  TypeOK'
BY ConstantsAssumption
   DEF End, TypeOK, MemoryType, Forgotten, RequestType, NoRequest, Ask, StmtType, NoStmt

LEMMA TypeStep == TypeOK /\ [Next]_vars => TypeOK'
<1>. SUFFICES ASSUME TypeOK, [Next]_vars PROVE TypeOK'
  OBVIOUS
<1>1. CASE UNCHANGED vars
  BY <1>1 DEF vars, TypeOK
<1>2. ASSUME NEW t \in Txs, Tx(t) PROVE TypeOK'
  <2>1. CASE Begin(t)
    BY <2>1 DEF Begin, TypeOK
  <2>2. CASE Commit(t) \/ Reject(t)
    BY <2>2, EndType DEF Commit, Reject
  <2>. QED
    BY <1>2, <2>1, <2>2, GateType, StatementType DEF Tx
<1>. QED
  BY <1>1, <1>2 DEF Next

\* Every variable keeps its type, whatever the transactions do.
THEOREM TypeCorrect == Spec => []TypeOK
<1>1. Init => TypeOK
  BY ConstantsAssumption
     DEF Init, TypeOK, MemoryType, Forgotten, RequestType, NoRequest, Ask, StmtType, NoStmt
<1>. QED
  BY <1>1, TypeStep, PTL DEF Spec

-----------------------------------------------------------------------------
(* The invariant is inductive, one lemma per kind of step.                  *)

LEMMA KindsAreDisjoint ==
  /\ Docs \cap Coils = {} /\ Docs \cap Balances = {} /\ Coils \cap Balances = {}
  /\ \A b \in Balances : b \in CoilBalances \/ b \in ProductBalances
  /\ \A r \in Rows : r \in Nat /\ ~ (r < r)
<1>1. \A r \in Rows : r \in Nat /\ ~ (r < r)
  BY RowsArePositions
<1>. QED
  BY <1>1, CanonicalOrder DEF Rows, Balances

\* What Local reads of a transaction.
Same(t) ==
  /\ held'[t] = held[t] /\ memory'[t] = memory[t]
  /\ request'[t] = request[t] /\ stmt'[t] = stmt[t]

LEMMA SameLocal ==
  ASSUME NEW t \in Txs, Local(t), Same(t)
  PROVE  Local(t)'
<1>1. StatementShape(t)'
  BY DEF Local, Same, StatementShape
<1>2. RememberedOrLocking(t)'
  BY DEF Local, Same, RememberedOrLocking
<1>3. WaitableStatement(t)'
  BY DEF Local, Same, WaitableStatement
<1>4. CoilsFirst(t)'
  BY DEF Local, Same, CoilsFirst
<1>5. ProductsFollow(t)'
  BY DEF Local, Same, ProductsFollow, AfterHeldProducts
<1>. QED
  BY <1>1, <1>2, <1>3, <1>4, <1>5 DEF Local

LEMMA CallLocal ==
  ASSUME IInv, NEW t \in Txs, NEW D, NEW C, NEW B \in SUBSET Balances,
         NEW late \in BOOLEAN, Call(t, D, C, B, late),
         CoilsOf(B) \subseteq C, late \/ AfterHeldProducts(t, B)
  PROVE  Local(t)'
<1>1. /\ held'[t] = held[t] /\ memory'[t] = memory[t] /\ stmt'[t] = stmt[t]
      /\ stmt[t] = NoStmt
  BY DEF Call, Idle
<1>2. request'[t] = Ask(D, C, B, late)
  BY DEF Call, IInv, TypeOK
<1>3. request'[t].balances = B /\ request'[t].coils = C /\ request'[t].late = late
  BY <1>2 DEF Ask
<1>4. StatementShape(t)' /\ WaitableStatement(t)'
  BY <1>1 DEF IInv, Local, StatementShape, WaitableStatement
<1>5. RememberedOrLocking(t)'
  BY <1>1 DEF IInv, Local, RememberedOrLocking
<1>6. CoilsFirst(t)'
  BY <1>1, <1>3 DEF IInv, Local, CoilsFirst, CoilsOf
<1>7. ProductsFollow(t)'
  <2>1. stmt'[t].left = {}
    BY <1>1 DEF NoStmt
  <2>2. ~late => AfterHeldProducts(t, B)'
    BY <1>1 DEF AfterHeldProducts
  <2>. QED
    BY <1>3, <2>1, <2>2 DEF ProductsFollow, AfterHeldProducts
<1>. QED
  BY <1>4, <1>5, <1>6, <1>7 DEF Local

LEMMA GateLocal ==
  ASSUME FileOrder = FALSE, HistoricRounds = FALSE, IInv, NEW t \in Txs, Gate(t)
  PROVE  Local(t)'
<1>0. AfterHeldProducts(t, {})
  BY DEF AfterHeldProducts
<1>1. CASE LockDocuments(t)
  BY <1>1, <1>0, CallLocal DEF LockDocuments, CoilsOf
<1>2. CASE LockCoilRows(t)
  BY <1>2, <1>0, CallLocal DEF LockCoilRows, CoilsOf
<1>3. CASE LockInOrder(t)
  <2>1. PICK C \in Asked(Coils), B \in Asked(Balances) :
          AfterHeldProducts(t, B) /\ Call(t, {}, C \cup CoilsOf(B), B, FALSE)
    BY <1>3 DEF LockInOrder
  <2>2. B \in SUBSET Balances /\ CoilsOf(B) \subseteq C \cup CoilsOf(B)
    BY DEF Asked
  <2>3. \A X : CoilsOf(B) \subseteq X /\ Call(t, {}, X, B, FALSE) => Local(t)'
    BY <2>1, <2>2, CallLocal
  <2>. QED
    BY <2>1, <2>2, <2>3
<1>4. CASE RecordItem(t)
  <2>1. PICK b \in Balances :
          AfterHeldProducts(t, {b}) /\ Call(t, {}, CoilsOf({b}), {b}, FALSE)
    BY <1>4 DEF RecordItem
  <2>. QED
    BY <2>1, CallLocal
<1>5. CASE LockRecostItems(t)
  <2>1. PICK B \in Asked(Balances) : Call(t, {}, CoilsOf(B), B, TRUE)
    BY <1>5 DEF LockRecostItems
  <2>. QED
    BY <2>1, CallLocal DEF Asked
<1>. QED
  BY <1>1, <1>2, <1>3, <1>4, <1>5 DEF Gate

LEMMA IssueDocumentsLocal ==
  ASSUME IInv, NEW t \in Txs, IssueDocuments(t)
  PROVE  Local(t)'
<1>. DEFINE class  == ClassOf[Least(request[t].docs)]
            sorted == {d \in request[t].docs : ClassOf[d] = class}
            fresh  == sorted \ memory[t].documents
            late   == DocumentsOutOfOrder(t, class, fresh)
            rows   == IF fresh = {} THEN {} ELSE IF late THEN fresh ELSE sorted
<1>1. /\ held'[t] = held[t] /\ memory'[t] = memory[t]
      /\ stmt[t] = NoStmt
      /\ Issue(t, rows, late)
      /\ request' = [request EXCEPT ![t] = Ask(@.docs \ sorted, {}, {}, FALSE)]
  BY DEF IssueDocuments
<1>2. rows \subseteq Docs /\ sorted \subseteq Docs /\ fresh \subseteq Docs
  BY DEF IInv, TypeOK, RequestType
<1>3. /\ stmt'[t].rows = rows /\ stmt'[t].left = rows
      /\ rows = {} => stmt'[t] = NoStmt
      /\ rows # {} => stmt'[t].nowait = late
  BY <1>1 DEF Issue, NoStmt, IInv, TypeOK
<1>4. request'[t].balances = {} /\ request'[t].late = FALSE
  BY <1>1 DEF Ask, IInv, TypeOK
<1>5. /\ held[t] \cap Docs = memory[t].documents
      /\ held[t] \cap Coils = memory[t].coils
      /\ memory[t].balances <=> held[t] \cap Balances # {}
  BY <1>1 DEF IInv, Local, RememberedOrLocking, NoStmt
<1>6. held[t] \subseteq Rows
  BY DEF IInv, TypeOK
<1>7. StatementShape(t)'
  BY <1>2, <1>3 DEF StatementShape
<1>8. RememberedOrLocking(t)'
  BY <1>1, <1>3, <1>5 DEF RememberedOrLocking
<1>9. WaitableStatement(t)'
  <2>. SUFFICES ASSUME ~stmt'[t].nowait, NEW r \in rows, r \notin held[t], NEW h \in held[t]
                PROVE  h < r
    BY <1>1, <1>3 DEF WaitableStatement
  <2>1. ~late /\ r \in fresh /\ r \in sorted /\ r \in Docs
    BY <1>2, <1>3, <1>5
  <2>2. memory[t].balances = FALSE /\ memory[t].coils = {}
    BY <2>1 DEF DocumentsOutOfOrder, IInv, TypeOK, MemoryType
  <2>3. h \in Docs /\ h \in memory[t].documents
    BY <1>5, <1>6, <2>2 DEF Rows
  <2>4. ~ (ClassOf[h] > class) /\ ClassOf[r] = class
    BY <2>1, <2>3 DEF DocumentsOutOfOrder
  <2>5. ClassOf[h] = class => ~ (r < h)
    BY <2>1, <2>3 DEF DocumentsOutOfOrder, Some
  <2>6. h \in Nat /\ r \in Nat /\ h # r
    BY <2>1, <2>3, RowsArePositions DEF Rows
  <2>7. ClassOf[h] \in Nat /\ ClassOf[r] \in Nat
    BY <2>1, <2>3, ConstantsAssumption
  <2>8. CASE ClassOf[h] = class
    BY <2>5, <2>6, <2>8
  <2>9. CASE ClassOf[h] # class
    BY <2>1, <2>3, <2>4, <2>7, <2>9, CanonicalOrder
  <2>. QED
    BY <2>8, <2>9
<1>10. CoilsFirst(t)'
  <2>1. rows \cap CoilBalances = {}
    BY <1>2, KindsAreDisjoint DEF Balances
  <2>. QED
    BY <1>1, <1>3, <1>4, <2>1 DEF CoilsFirst, IInv, Local
<1>11. ProductsFollow(t)'
  BY <1>4 DEF ProductsFollow, AfterHeldProducts
<1>. QED
  BY <1>7, <1>8, <1>9, <1>10, <1>11 DEF Local

LEMMA IssueCoilsLocal ==
  ASSUME IInv, NEW t \in Txs, IssueCoils(t)
  PROVE  Local(t)'
<1>. DEFINE sorted == request[t].coils
            fresh  == sorted \ memory[t].coils
            late   == CoilsOutOfOrder(t, fresh)
            rows   == IF fresh = {} THEN {} ELSE IF late THEN fresh ELSE sorted
<1>1. /\ held'[t] = held[t] /\ memory'[t] = memory[t]
      /\ stmt[t] = NoStmt
      /\ Issue(t, rows, late)
      /\ request' = [request EXCEPT ![t] = Ask({}, {}, @.balances, @.late)]
  BY DEF IssueCoils
<1>2. rows \subseteq Coils /\ sorted \subseteq Coils
  BY DEF IInv, TypeOK, RequestType
<1>3. /\ stmt'[t].rows = rows /\ stmt'[t].left = rows
      /\ rows = {} => stmt'[t] = NoStmt
      /\ rows # {} => stmt'[t].nowait = late
  BY <1>1 DEF Issue, NoStmt, IInv, TypeOK
<1>4. /\ request'[t].balances = request[t].balances
      /\ request'[t].coils = {}
      /\ request'[t].late = request[t].late
  BY <1>1 DEF Ask, IInv, TypeOK
<1>5. /\ held[t] \cap Docs = memory[t].documents
      /\ held[t] \cap Coils = memory[t].coils
      /\ memory[t].balances <=> held[t] \cap Balances # {}
  BY <1>1 DEF IInv, Local, RememberedOrLocking, NoStmt
<1>6. held[t] \subseteq Rows
  BY DEF IInv, TypeOK
<1>7. StatementShape(t)'
  BY <1>2, <1>3 DEF StatementShape
<1>8. RememberedOrLocking(t)'
  BY <1>1, <1>3, <1>5 DEF RememberedOrLocking
<1>9. WaitableStatement(t)'
  <2>. SUFFICES ASSUME ~stmt'[t].nowait, NEW r \in rows, r \notin held[t], NEW h \in held[t]
                PROVE  h < r
    BY <1>1, <1>3 DEF WaitableStatement
  <2>1. ~late /\ r \in fresh /\ r \in Coils
    BY <1>2, <1>3, <1>5
  <2>2. memory[t].balances = FALSE /\ ~ Some(fresh, memory[t].coils)
    BY <2>1 DEF CoilsOutOfOrder, IInv, TypeOK, MemoryType
  <2>3. h \in Docs \/ h \in memory[t].coils
    BY <1>5, <1>6, <2>2 DEF Rows
  <2>4. CASE h \in Docs
    BY <2>1, <2>4, CanonicalOrder
  <2>5. CASE h \in memory[t].coils
    <3>1. ~ (r < h) /\ h # r /\ h \in Coils
      BY <1>5, <2>1, <2>2, <2>5 DEF Some
    <3>. QED
      BY <2>1, <3>1, RowsArePositions DEF Rows
  <2>. QED
    BY <2>3, <2>4, <2>5
<1>10. CoilsFirst(t)'
  <2>1. rows \cap CoilBalances = {}
    BY <1>2, KindsAreDisjoint DEF Balances
  <2>2. sorted \subseteq held[t] \cup rows
    BY <1>5
  <2>3. \A b \in request[t].balances \cap CoilBalances :
          CoilOf[b] \in held[t] \cup sorted
    BY <1>1 DEF CoilsFirst, IInv, Local, NoStmt
  <2>4. \A b \in held[t] \cap CoilBalances : CoilOf[b] \in held[t]
    BY DEF CoilsFirst, IInv, Local
  <2>. QED
    BY <1>1, <1>3, <1>4, <2>1, <2>2, <2>3, <2>4 DEF CoilsFirst
<1>11. ProductsFollow(t)'
  <2>1. rows \cap Balances = {}
    BY <1>2, KindsAreDisjoint
  <2>2. ~request[t].late => AfterHeldProducts(t, request[t].balances)
    BY DEF ProductsFollow, IInv, Local
  <2>3. ~request'[t].late => AfterHeldProducts(t, request[t].balances)'
    BY <1>1, <1>4, <2>2 DEF AfterHeldProducts
  <2>. QED
    BY <1>1, <1>3, <1>4, <2>1, <2>2 DEF ProductsFollow, AfterHeldProducts
<1>. QED
  BY <1>7, <1>8, <1>9, <1>10, <1>11 DEF Local

LEMMA IssueBalanceLocal ==
  ASSUME IInv, NEW t \in Txs, IssueBalance(t)
  PROVE  Local(t)'
<1>. DEFINE b == Least(request[t].balances)
<1>1. /\ held'[t] = held[t] /\ memory'[t] = memory[t]
      /\ stmt[t] = NoStmt
      /\ request[t].coils = {}
      /\ Issue(t, {b}, request[t].late)
      /\ request' = [request EXCEPT ![t] = IF @.balances = {b} THEN NoRequest
                                           ELSE Ask({}, {}, @.balances \ {b}, @.late)]
  BY DEF IssueBalance
<1>2. request[t].balances \subseteq Balances
  BY DEF IInv, TypeOK, RequestType
<1>3. b \in request[t].balances /\ \A p \in request[t].balances : b <= p
  BY <1>2, LeastMember, RowsArePositions DEF IssueBalance, Rows
<1>. HIDE DEF b
<1>4. b \in Balances
  BY <1>2, <1>3
<1>5. /\ stmt'[t].rows = {b} /\ stmt'[t].left = {b}
      /\ stmt'[t].nowait = request[t].late
  BY <1>1 DEF Issue, IInv, TypeOK
<1>6. /\ request'[t].balances = request[t].balances \ {b}
      /\ request'[t].coils = {}
      /\ request'[t].late = request[t].late \/ request'[t].balances = {}
  BY <1>1, <1>3 DEF Ask, NoRequest, IInv, TypeOK
<1>7. StatementShape(t)'
  BY <1>4, <1>5 DEF StatementShape
<1>8. RememberedOrLocking(t)'
  BY <1>1, <1>5 DEF RememberedOrLocking, IInv, Local, NoStmt
<1>9. held[t] \subseteq Rows
  BY DEF IInv, TypeOK
<1>10. ~request[t].late => AfterHeldProducts(t, request[t].balances)
  BY DEF ProductsFollow, IInv, Local
<1>11. WaitableStatement(t)'
  <2>. SUFFICES ASSUME ~request[t].late, b \notin held[t], b \notin CoilBalances,
                       NEW h \in held[t]
                PROVE  h < b
    BY <1>1, <1>5 DEF WaitableStatement
  <2>1. b \in ProductBalances
    BY <1>4 DEF Balances
  <2>2. CASE h \in ProductBalances
    BY <1>3, <1>10, <2>1, <2>2 DEF AfterHeldProducts
  <2>3. CASE h \notin ProductBalances
    BY <1>4, <1>9, <2>1, <2>3, CanonicalOrder DEF Rows, Balances
  <2>. QED
    BY <2>2, <2>3
<1>12. CoilsFirst(t)'
  <2>1. \A c \in request[t].balances \cap CoilBalances : CoilOf[c] \in held[t]
    BY <1>1 DEF CoilsFirst, IInv, Local, NoStmt
  <2>2. \A c \in held[t] \cap CoilBalances : CoilOf[c] \in held[t]
    BY DEF CoilsFirst, IInv, Local
  <2>. QED
    BY <1>1, <1>3, <1>5, <1>6, <2>1, <2>2 DEF CoilsFirst
<1>13. ProductsFollow(t)'
  <2>1. \A p \in request'[t].balances : b < p
    BY <1>2, <1>3, <1>4, <1>6, RowsArePositions DEF Rows
  <2>2. ~request'[t].late =>
          \A p \in (request'[t].balances \cap ProductBalances) \ held'[t],
             q \in held'[t] \cap ProductBalances : q < p
    BY <1>1, <1>6, <1>10 DEF AfterHeldProducts
  <2>. QED
    BY <1>5, <2>1, <2>2 DEF ProductsFollow, AfterHeldProducts
<1>. QED
  BY <1>7, <1>8, <1>11, <1>12, <1>13 DEF Local

\* The row a statement locks next, and what is left of the statement.
LEMMA LockRowStep ==
  ASSUME IInv, NEW t \in Txs, LockRow(t)
  PROVE  LET r == NextRow(t) IN
         /\ r \in stmt[t].left /\ r \in Rows
         /\ \A x \in stmt[t].left : r <= x
         /\ held'[t] = held[t] \cup {r}
         /\ request'[t] = request[t]
         /\ stmt'[t].left = stmt[t].left \ {r}
         /\ \/ /\ stmt[t].left = {r} /\ stmt'[t] = NoStmt
               /\ memory'[t] = Remember(memory[t], stmt[t].rows)
            \/ /\ stmt[t].left # {r} /\ memory'[t] = memory[t]
               /\ stmt'[t].rows = stmt[t].rows
               /\ stmt'[t].nowait = stmt[t].nowait
<1>. DEFINE r == NextRow(t)
<1>1. r \in stmt[t].left /\ \A x \in stmt[t].left : r <= x
  BY NextRowLeft DEF LockRow, IInv
<1>2. r \in Rows
  BY <1>1 DEF IInv, TypeOK, StmtType
<1>3. held'[t] = held[t] \cup {r} /\ request'[t] = request[t]
  BY DEF LockRow, IInv, TypeOK
<1>4. CASE stmt[t].left = {r}
  BY <1>1, <1>2, <1>3, <1>4 DEF LockRow, IInv, TypeOK, NoStmt
<1>5. CASE stmt[t].left # {r}
  <2>1. stmt'[t] = [rows |-> stmt[t].rows, nowait |-> stmt[t].nowait,
                    left |-> stmt[t].left \ {r}] /\ memory'[t] = memory[t]
    BY <1>5 DEF LockRow, IInv, TypeOK
  <2>. QED
    BY <1>1, <1>2, <1>3, <1>5, <2>1
<1>. QED
  BY <1>4, <1>5

LEMMA RememberBalances ==
  \A m, R : Remember(m, R).balances = (m.balances \/ R \cap Balances # {})
BY Zenon DEF Remember

LEMMA LockRowLocal ==
  ASSUME IInv, NEW t \in Txs, LockRow(t)
  PROVE  Local(t)'
<1>. DEFINE r == NextRow(t)
<1>1. /\ r \in stmt[t].left /\ r \in Rows
      /\ \A x \in stmt[t].left : r <= x
      /\ held'[t] = held[t] \cup {r}
      /\ request'[t] = request[t]
      /\ stmt'[t].left = stmt[t].left \ {r}
  BY LockRowStep
<1>2. \/ /\ stmt[t].left = {r} /\ stmt'[t] = NoStmt
         /\ memory'[t] = Remember(memory[t], stmt[t].rows)
      \/ /\ stmt[t].left # {r} /\ memory'[t] = memory[t]
         /\ stmt'[t].rows = stmt[t].rows
         /\ stmt'[t].nowait = stmt[t].nowait
  BY LockRowStep
<1>. HIDE DEF r
<1>3. StatementShape(t)
  BY DEF IInv, Local
<1>4. StatementShape(t)'
  BY <1>1, <1>2, <1>3 DEF StatementShape, NoStmt
<1>5. RememberedOrLocking(t)'
  <2>1. RememberedOrLocking(t)
    BY DEF IInv, Local
  <2>2. CASE stmt[t].left = {r} /\ stmt'[t] = NoStmt
             /\ memory'[t] = Remember(memory[t], stmt[t].rows)
    <3>1. stmt'[t].rows \ stmt'[t].left = {}
      BY <2>2 DEF NoStmt
    <3>2. stmt[t].rows = (stmt[t].rows \ stmt[t].left) \cup {r}
      BY <2>2, <1>3 DEF StatementShape
    <3>3. held'[t] \cap Docs = memory'[t].documents
      BY <1>1, <2>1, <2>2, <3>2 DEF RememberedOrLocking, Remember
    <3>4. held'[t] \cap Coils = memory'[t].coils
      BY <1>1, <2>1, <2>2, <3>2 DEF RememberedOrLocking, Remember
    <3>5. memory'[t].balances <=> held'[t] \cap Balances # {}
      <4>1. memory'[t].balances <=> memory[t].balances \/ stmt[t].rows \cap Balances # {}
        <5>1. memory'[t].balances = Remember(memory[t], stmt[t].rows).balances
          BY <2>2
        <5>2. memory'[t].balances = (memory[t].balances \/ stmt[t].rows \cap Balances # {})
          BY <5>1, RememberBalances, Zenon
        <5>. QED
          BY <5>2, Zenon
      <4>2. held'[t] \cap Balances # {} <=> held[t] \cap Balances # {} \/ r \in Balances
        BY <1>1
      <4>3. r \in Balances <=> stmt[t].rows \cap Balances # {}
        BY <1>1, <1>3, KindsAreDisjoint DEF StatementShape
      <4>. QED
        BY <2>1, <4>1, <4>2, <4>3 DEF RememberedOrLocking
    <3>. QED
      BY <3>1, <3>3, <3>4, <3>5 DEF RememberedOrLocking
  <2>3. CASE stmt[t].left # {r} /\ memory'[t] = memory[t]
             /\ stmt'[t].rows = stmt[t].rows
    <3>1. stmt'[t].rows \ stmt'[t].left = (stmt[t].rows \ stmt[t].left) \cup {r}
      BY <1>1, <1>3, <2>3 DEF StatementShape
    <3>2. r \notin Balances
      BY <1>1, <1>3, <2>3, KindsAreDisjoint DEF StatementShape
    <3>3. held'[t] \cap Balances = held[t] \cap Balances
      BY <1>1, <3>2
    <3>4. memory'[t].balances <=> held'[t] \cap Balances # {}
      BY <2>1, <2>3, <3>3 DEF RememberedOrLocking
    <3>5. /\ held'[t] \cap Docs = memory'[t].documents \cup
                  ((stmt'[t].rows \ stmt'[t].left) \cap Docs)
          /\ held'[t] \cap Coils = memory'[t].coils \cup
                  ((stmt'[t].rows \ stmt'[t].left) \cap Coils)
      BY <1>1, <2>1, <2>3, <3>1 DEF RememberedOrLocking
    <3>. QED
      BY <3>4, <3>5 DEF RememberedOrLocking
  <2>. QED
    BY <1>2, <2>2, <2>3
<1>6. WaitableStatement(t)'
  <2>. SUFFICES ASSUME ~stmt'[t].nowait, NEW x \in stmt'[t].left,
                       x \notin held'[t], x \notin CoilBalances, NEW h \in held'[t]
                PROVE  h < x
    BY DEF WaitableStatement
  <2>1. ~stmt[t].nowait /\ x \in stmt[t].left /\ x \notin held[t] /\ x # r
    BY <1>1, <1>2 DEF NoStmt
  <2>2. CASE h \in held[t]
    BY <2>1, <2>2 DEF IInv, Local, WaitableStatement
  <2>3. CASE h = r
    <3>1. r <= x /\ x \in Rows
      BY <1>1, <2>1 DEF IInv, TypeOK, StmtType
    <3>. QED
      BY <1>1, <2>1, <2>3, <3>1, RowsArePositions
  <2>. QED
    BY <1>1, <2>2, <2>3
<1>7. CoilsFirst(t)'
  BY <1>1 DEF IInv, Local, CoilsFirst
<1>8. ProductsFollow(t)'
  <2>1. ProductsFollow(t)
    BY DEF IInv, Local
  <2>2. ~request'[t].late =>
          \A p \in (request'[t].balances \cap ProductBalances) \ held'[t],
             q \in held'[t] \cap ProductBalances : q < p
    BY <1>1, <2>1 DEF ProductsFollow, AfterHeldProducts, Balances
  <2>. QED
    BY <1>1, <2>1, <2>2 DEF ProductsFollow, AfterHeldProducts
<1>. QED
  BY <1>4, <1>5, <1>6, <1>7, <1>8 DEF Local

LEMMA EndLocal ==
  ASSUME IInv, NEW t \in Txs, NEW how, End(t, how)
  PROVE  Local(t)' /\ held'[t] = {}
<1>1. /\ held'[t] = {} /\ memory'[t] = Forgotten
      /\ request'[t] = NoRequest /\ stmt'[t] = NoStmt
  BY DEF End, IInv, TypeOK
<1>2. StatementShape(t)' /\ RememberedOrLocking(t)' /\ WaitableStatement(t)'
  BY <1>1 DEF StatementShape, RememberedOrLocking, WaitableStatement, NoStmt, Forgotten
<1>3. CoilsFirst(t)' /\ ProductsFollow(t)'
  BY <1>1 DEF CoilsFirst, ProductsFollow, AfterHeldProducts, NoStmt, NoRequest, Ask
<1>. QED
  BY <1>1, <1>2, <1>3 DEF Local

\* A step of t leaves what the other transactions hold and ask for alone.
LEMMA OthersSame ==
  ASSUME TypeOK, NEW t \in Txs, Tx(t), NEW u \in Txs, u # t
  PROVE  Same(u)
<1>1. CASE Begin(t)
  BY <1>1 DEF Begin, Same
<1>2. CASE Gate(t)
  BY <1>2 DEF Gate, LockDocuments, LockCoilRows, LockInOrder, RecordItem,
              LockRecostItems, Call, Same, TypeOK
<1>3. CASE IssueDocuments(t) \/ IssueCoils(t) \/ IssueBalance(t)
  BY <1>3 DEF IssueDocuments, IssueCoils, IssueBalance, Issue, Same, TypeOK
<1>4. CASE LockRow(t)
  BY <1>4 DEF LockRow, Same, TypeOK
<1>5. CASE RefuseRow(t) \/ Commit(t) \/ Reject(t)
  BY <1>5 DEF RefuseRow, Commit, Reject, End, Same, TypeOK
<1>. QED
  BY <1>1, <1>2, <1>3, <1>4, <1>5 DEF Tx, Statement

LEMMA ExclusiveStep ==
  ASSUME IInv, NEW t \in Txs, Tx(t)
  PROVE  Exclusive'
<1>1. \A u \in Txs \ {t} : held'[u] = held[u]
  BY OthersSame DEF IInv, Same
<1>2. \A u \in Txs \ {t} : held'[t] \cap held[u] = {}
  <2>1. CASE LockRow(t)
    <3>1. held'[t] = held[t] \cup {NextRow(t)}
      BY <2>1, LockRowStep
    <3>. QED
      BY <2>1, <3>1 DEF IInv, Exclusive, LockRow, Taken
  <2>2. CASE RefuseRow(t) \/ Commit(t) \/ Reject(t)
    BY <2>2, EndLocal DEF RefuseRow, Commit, Reject
  <2>3. CASE held' = held
    BY <2>3 DEF IInv, Exclusive
  <2>4. Begin(t) \/ Gate(t) \/ IssueDocuments(t) \/ IssueCoils(t) \/ IssueBalance(t)
          => held' = held
    BY DEF Begin, Gate, LockDocuments, LockCoilRows, LockInOrder, RecordItem,
           LockRecostItems, Call, IssueDocuments, IssueCoils, IssueBalance
  <2>. QED
    BY <2>1, <2>2, <2>3, <2>4 DEF Tx, Statement
<1>3. \A u, v \in Txs \ {t} : u # v => held'[u] \cap held'[v] = {}
  BY <1>1 DEF IInv, Exclusive
<1>. QED
  BY <1>1, <1>2, <1>3 DEF Exclusive

LEMMA LocalStep ==
  ASSUME FileOrder = FALSE, HistoricRounds = FALSE, IInv, NEW t \in Txs, Tx(t)
  PROVE  Local(t)'
<1>1. CASE Begin(t)
  <2>1. Same(t)
    BY <1>1 DEF Begin, Same
  <2>. QED
    BY <2>1, SameLocal DEF IInv
<1>2. CASE Gate(t)
  BY <1>2, GateLocal
<1>3. CASE IssueDocuments(t) \/ IssueCoils(t) \/ IssueBalance(t)
  BY <1>3, IssueDocumentsLocal, IssueCoilsLocal, IssueBalanceLocal
<1>4. CASE LockRow(t)
  BY <1>4, LockRowLocal
<1>5. CASE RefuseRow(t) \/ Commit(t) \/ Reject(t)
  BY <1>5, EndLocal DEF RefuseRow, Commit, Reject
<1>. QED
  BY <1>1, <1>2, <1>3, <1>4, <1>5 DEF Tx, Statement

LEMMA InitInvariant == Init => IInv
<1>. SUFFICES ASSUME Init PROVE IInv
  OBVIOUS
<1>1. TypeOK
  BY ConstantsAssumption
     DEF Init, TypeOK, MemoryType, Forgotten, RequestType, NoRequest, Ask, StmtType, NoStmt
<1>2. Exclusive
  BY DEF Init, Exclusive
<1>3. ASSUME NEW t \in Txs PROVE Local(t)
  <2>1. /\ held[t] = {} /\ memory[t] = Forgotten
        /\ request[t] = NoRequest /\ stmt[t] = NoStmt
    BY DEF Init
  <2>2. StatementShape(t) /\ RememberedOrLocking(t) /\ WaitableStatement(t)
    BY <2>1 DEF StatementShape, RememberedOrLocking, WaitableStatement, NoStmt, Forgotten
  <2>3. CoilsFirst(t) /\ ProductsFollow(t)
    BY <2>1 DEF CoilsFirst, ProductsFollow, AfterHeldProducts, NoStmt, NoRequest, Ask
  <2>. QED
    BY <2>2, <2>3 DEF Local
<1>. QED
  BY <1>1, <1>2, <1>3 DEF IInv

LEMMA StepInvariant ==
  ASSUME FileOrder = FALSE, HistoricRounds = FALSE
  PROVE  IInv /\ [Next]_vars => IInv'
<1>. SUFFICES ASSUME IInv, [Next]_vars PROVE IInv'
  OBVIOUS
<1>1. TypeOK'
  BY TypeStep DEF IInv
<1>2. CASE UNCHANGED vars
  <2>1. \A t \in Txs : Same(t)
    BY <1>2 DEF vars, Same
  <2>2. \A t \in Txs : Local(t)'
    BY <2>1, SameLocal DEF IInv
  <2>3. Exclusive'
    BY <1>2 DEF vars, IInv, Exclusive
  <2>. QED
    BY <1>1, <2>2, <2>3 DEF IInv
<1>3. ASSUME NEW t \in Txs, Tx(t) PROVE IInv'
  <2>1. \A u \in Txs \ {t} : Local(u)'
    BY <1>3, OthersSame, SameLocal DEF IInv
  <2>2. Local(t)'
    BY <1>3, LocalStep
  <2>3. Exclusive'
    BY <1>3, ExclusiveStep
  <2>. QED
    BY <1>1, <2>1, <2>2, <2>3 DEF IInv
<1>. QED
  BY <1>2, <1>3 DEF Next

-----------------------------------------------------------------------------
(* What the invariant gives.                                                *)

LEMMA InvariantWaitInOrder == IInv => WaitInOrder
<1>. SUFFICES ASSUME IInv, NEW t \in Txs, Waits(t), NEW h \in held[t]
              PROVE  h < NextRow(t)
  BY DEF WaitInOrder
<1>1. NextRow(t) \in stmt[t].left
  BY NextRowLeft DEF Waits, IInv
<1>2. PICK u \in Txs \ {t} : NextRow(t) \in held[u]
  BY DEF Waits, Taken
<1>3. NextRow(t) \notin held[t]
  BY <1>2 DEF IInv, Exclusive
<1>4. NextRow(t) \notin CoilBalances
  <2>. SUFFICES ASSUME NextRow(t) \in CoilBalances PROVE FALSE
    OBVIOUS
  <2>1. CoilOf[NextRow(t)] \in held[t]
    BY <1>1 DEF IInv, Local, CoilsFirst
  <2>2. CoilOf[NextRow(t)] \in held[u]
    BY <1>2 DEF IInv, Local, CoilsFirst
  <2>. QED
    BY <2>1, <2>2 DEF IInv, Exclusive
<1>. QED
  BY <1>1, <1>3, <1>4 DEF IInv, Local, WaitableStatement, Waits

LEMMA InvariantMemoryIsHeld == IInv => MemoryIsHeld
BY DEF IInv, Local, RememberedOrLocking, MemoryIsHeld, NoStmt

\* In a set of transactions that wait for one another, the one that waits for
\* the last row is held by one that waits for a later one.
LEMMA OrderedWaitsDoNotCycle ==
  ASSUME TypeOK, WaitInOrder PROVE NoDeadlock
<1>. SUFFICES ASSUME NEW D \in SUBSET Txs, D # {},
                     \A t \in D : Waits(t) /\ \E u \in D \ {t} : NextRow(t) \in held[u]
              PROVE  FALSE
  BY DEF NoDeadlock
<1>. DEFINE Room(t) == MaxRow - NextRow(t)
            Rooms   == {Room(t) : t \in D}
<1>1. \A t \in D : NextRow(t) \in 1..MaxRow
  BY NextRowLeft, ConstantsAssumption DEF Waits, TypeOK, StmtType
<1>2. Rooms \in SUBSET Nat /\ Rooms # {}
  BY <1>1, ConstantsAssumption
<1>3. PICK t \in D : \A v \in D : Room(t) <= Room(v)
  <2>1. Least(Rooms) \in Rooms /\ \A y \in Rooms : Least(Rooms) <= y
    BY <1>2, LeastMember
  <2>. QED
    BY <2>1
<1>4. PICK u \in D \ {t} : NextRow(t) \in held[u]
  OBVIOUS
<1>5. NextRow(t) < NextRow(u)
  BY <1>4 DEF WaitInOrder
<1>. QED
  BY <1>1, <1>3, <1>4, <1>5, ConstantsAssumption

\* D-386: a transaction only ever waits for a row that comes after every row it
\* holds, whatever the number of transactions, rows and calls, as long as
\* nobody takes its products in file order or in the rounds of a historic recost.
THEOREM WaitsAreOrdered ==
  ASSUME FileOrder = FALSE, HistoricRounds = FALSE
  PROVE  Spec => []WaitInOrder
<1>. QED
  BY InitInvariant, StepInvariant, InvariantWaitInOrder, PTL DEF Spec

\* Hence no set of transactions waits on itself.
THEOREM NobodyDeadlocks ==
  ASSUME FileOrder = FALSE, HistoricRounds = FALSE
  PROVE  Spec => []NoDeadlock
<1>1. IInv => NoDeadlock
  BY InvariantWaitInOrder, OrderedWaitsDoNotCycle DEF IInv
<1>. QED
  BY <1>1, InitInvariant, StepInvariant, PTL DEF Spec

\* The memory the gates decide with is what the database holds.
THEOREM MemoryIsExact ==
  ASSUME FileOrder = FALSE, HistoricRounds = FALSE
  PROVE  Spec => []MemoryIsHeld
<1>. QED
  BY InitInvariant, StepInvariant, InvariantMemoryIsHeld, PTL DEF Spec

\* The balance of a coil is only locked by who already has the coil.
THEOREM CoilsComeFirst ==
  ASSUME FileOrder = FALSE, HistoricRounds = FALSE
  PROVE  Spec => []CoilBeforeItsBalance
<1>1. IInv => CoilBeforeItsBalance
  BY DEF IInv, Local, CoilsFirst, CoilBeforeItsBalance
<1>. QED
  BY <1>1, InitInvariant, StepInvariant, PTL DEF Spec
=============================================================================
