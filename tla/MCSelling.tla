----------------------------- MODULE MCSelling -----------------------------
\* What is sold, from the counter and from the orders, and who is logged in to sell it,
\* in one run: two small instances of Counter, three of Promises, one of Sessions and one
\* of Accounts, each a world of its own, chosen at the start and never left.
EXTENDS Counter, TLC

CONSTANTS k1, k2, c1, c2, p1, s1, s2, h1, h2, h3, t1, t2, ana, beto

VARIABLES db, job, tokens, issued, jar, tab, lost, overtaken, users, logins, request,
          dead, late, spared, world

counterVars == vars

\* The till of a cashier: one attempt to sell, two sessions and calls that die ("till"),
\* or two attempts in one session ("rush").
OneAttempt == \A r \in Requests : call'[r].key \subseteq {k1}
OneSession == \A i \in Ids \ {1} : sessions'[i].state = "none"
Rush == INSTANCE Counter WITH MaxFaults <- 0

None        == {}
OneKgEach   == c1 :> 1 @@ c2 :> 1
TwoCoils    == {c1, c2}
TwoHolders  == {h1, h2}

\* Two aggregates whose tolerances overlap on c2, promised by an order and by a
\* quotation.
OverlapSpecs   == {s1, s2}
OverlapMatches == s1 :> {c1, c2} @@ s2 :> {c2}
OverlapFor     == h1 :> s1 @@ h2 :> s2
Quotations     == {h2}
Overlap == INSTANCE Promises WITH
  Coils <- TwoCoils, Products <- None, Specs <- OverlapSpecs, Matches <- OverlapMatches,
  Holders <- TwoHolders, For <- OverlapFor, Temporary <- Quotations, MaxKg <- 2,
  Workers <- Requests, Quiet <- TRUE, InitialKg <- OneKgEach, NotReceived <- None

\* Two kilos are only asked of the aggregate that has them.
Feasible == \A r \in Requests : job'[r].qty = 2 => job'[r].holder = {h1}

\* A coil promised whole out of an aggregate; one of them is still to be received.
CoilSpecs   == {s1}
CoilMatches == s1 :> {c1, c2}
CoilFor     == h1 :> s1 @@ h2 :> c2
CoilToCome  == {c1}
Coil == INSTANCE Promises WITH
  Coils <- TwoCoils, Products <- None, Specs <- CoilSpecs, Matches <- CoilMatches,
  Holders <- TwoHolders, For <- CoilFor, Temporary <- None, MaxKg <- 1,
  Workers <- Requests, Quiet <- TRUE, InitialKg <- OneKgEach, NotReceived <- CoilToCome

\* Confirmations with a shortfall are left to the other world of aggregates.
InFull == \A r \in Requests : ~job'[r].partial

\* Three lines over one product, one of them a temporary reservation.
OneProduct     == {p1}
NoMatches      == <<>>
ThreeLines     == {h1, h2, h3}
ProductFor     == h1 :> p1 @@ h2 :> p1 @@ h3 :> p1
TwoKgOfIt      == p1 :> 2
ProductTemp    == {h3}
Product == INSTANCE Promises WITH
  Coils <- None, Products <- OneProduct, Specs <- None, Matches <- NoMatches,
  Holders <- ThreeLines, For <- ProductFor, Temporary <- ProductTemp, MaxKg <- 2,
  Workers <- Requests, Quiet <- TRUE, InitialKg <- TwoKgOfIt, NotReceived <- None

promiseVars == <<db, job>>

\* Two tabs of one browser.
TwoTabs   == {t1, t2}
MaxTokens == 5
Browser == INSTANCE Sessions WITH Tabs <- TwoTabs, sessions <- tokens

\* An administrator and a seller, and two requests of theirs at once.
People == {ana, beto}
Administrators == {ana}
Company == INSTANCE Accounts WITH
  Users <- People, Founders <- Administrators, MaxChanges <- 2, sessions <- logins

\* Who was deactivated stays so: to come back ends no session.
NobodyReturns == \A r \in Requests : request'[r].op # "activate"

browserVars == <<tokens, issued, jar, tab, lost, overtaken>>
companyVars == <<users, logins, request, dead, late, spared>>
loginVars   == <<browserVars, companyVars>>

ASSUME Instances ==
  Overlap!PromisesAssumption /\ Coil!PromisesAssumption /\ Product!PromisesAssumption
  /\ Browser!SessionsAssumption

\* A world that is not the one at work has no state; the till, its first one.
NoPromises == db = {} /\ job = {}
NoBrowser  == /\ tokens = {} /\ issued = {} /\ jar = {} /\ tab = {}
              /\ lost = {} /\ overtaken = {}
NoCompany  == /\ users = {} /\ logins = {} /\ request = {}
              /\ dead = {} /\ late = {} /\ spared = {}

WorldInit ==
  \/ world = "till" /\ Init /\ NoPromises /\ NoBrowser /\ NoCompany
  \/ world = "rush" /\ Rush!Init /\ NoPromises /\ NoBrowser /\ NoCompany
  \/ world = "overlap" /\ Init /\ Overlap!Init /\ NoBrowser /\ NoCompany
  \/ world = "coil" /\ Init /\ Coil!Init /\ NoBrowser /\ NoCompany
  \/ world = "product" /\ Init /\ Product!Init /\ NoBrowser /\ NoCompany
  \/ world = "browser" /\ Init /\ NoPromises /\ Browser!Init /\ NoCompany
  \/ world = "company" /\ Init /\ NoPromises /\ NoBrowser /\ Company!Init

WorldNext ==
  /\ UNCHANGED world
  /\ \/ world = "till" /\ Next /\ OneAttempt /\ UNCHANGED <<promiseVars, loginVars>>
     \/ world = "rush" /\ Rush!Next /\ OneSession /\ UNCHANGED <<promiseVars, loginVars>>
     \/ world = "overlap" /\ Overlap!Next /\ Feasible /\ UNCHANGED <<counterVars, loginVars>>
     \/ world = "coil" /\ Coil!Next /\ InFull /\ UNCHANGED <<counterVars, loginVars>>
     \/ world = "product" /\ Product!Next /\ UNCHANGED <<counterVars, loginVars>>
     \/ world = "browser" /\ Browser!Next /\ UNCHANGED <<counterVars, promiseVars, companyVars>>
     \/ world = "company" /\ Company!Next /\ NobodyReturns
        /\ UNCHANGED <<counterVars, promiseVars, browserVars>>

worlds == <<counterVars, promiseVars, loginVars, world>>

WorldSpec == WorldInit /\ [][WorldNext]_worlds

\* The calls, which are the workers of every world, are interchangeable.
WorldSymmetry == Permutations(Requests)
-----------------------------------------------------------------------------
\* Types of the ledger, of its transactions and of the sessions.
TypesOK ==
  /\ world = "overlap" => Overlap!TypeOK
  /\ world = "coil" => Coil!TypeOK
  /\ world = "product" => Product!TypeOK
  /\ world = "browser" => Browser!TypeOK

\* What is promised of every item and aggregate is covered at every commit
\* (Promises!Covered): of aggregates, with whole coils, with products.
PromisesCovered ==
  /\ world = "overlap" => Overlap!Covered
  /\ world = "coil" => Coil!Covered
  /\ world = "product" => Product!Covered

\* What a transaction checked is still true when it commits.
AllChecksStayTrue ==
  /\ world = "overlap" => Overlap!ChecksStayTrue
  /\ world = "coil" => Coil!ChecksStayTrue
  /\ world = "product" => Product!ChecksStayTrue

\* Every commit is one operation of the ledger, in each world.
LedgerStep ==
  /\ world = "overlap" => Overlap!LedgerStep
  /\ world = "coil" => Coil!LedgerStep
  /\ world = "product" => Product!LedgerStep
WorldLedger == [][LedgerStep]_worlds

\* A promised coil is neither closed nor sold to somebody else (RF-73, D-170).
PromisedCoilsStay == [][world = "coil" => Coil!KeepsPromisedCoils]_worlds

\* Only a browser whose answers were lost or overtaken is taken for a thief.
ReuseIsExplained == world = "browser" => Browser!ReuseIsExplained

\* No tab throws the other out.
NobodyIsThrownOut == world = "browser" => Browser!NobodyIsThrownOut

\* What changes a user ends the sessions they had.
ChangesEndSessions == world = "company" => Company!ChangesEndSessions
=============================================================================
