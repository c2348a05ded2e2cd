--------------------------- MODULE SessionsProofs ---------------------------
(***************************************************************************)
(* The sessions of a browser, Sessions.tla, for any number of tokens and   *)
(* logins.  Whatever the number of tabs: its types, and that the only      *)
(* session taken for stolen is one whose browser presents a token that was *)
(* replaced, because an answer was lost or overtaken by another.  With two *)
(* tabs: that neither throws the other out of any other session.  And the  *)
(* users of the sessions, Accounts.tla: what changes one of them ends the  *)
(* sessions of before.                                                     *)
(***************************************************************************)
EXTENDS Sessions, TLAPS

-----------------------------------------------------------------------------
(* Types.                                                                   *)

WaitingType ==
  [phase : Phases, token : Issued, access : Ids \cup {0}, id : Ids \cup {0},
   seen : Issued, retried : BOOLEAN, after : SUBSET Tabs]

SessionType == [state : States, current : Issued, previous : Issued, fresh : BOOLEAN]

LEMMA WaitingTyped ==
  ASSUME NEW phase \in Phases, NEW token \in Issued, NEW access \in Ids \cup {0},
         NEW id \in Ids \cup {0}, NEW seen \in Issued, NEW retried \in BOOLEAN,
         NEW after \in SUBSET Tabs
  PROVE  Waiting(phase, token, access, id, seen, retried, after) \in WaitingType
BY DEF Waiting, WaitingType

LEMMA InitTyped == SessionsAssumption /\ Init => TypeOK
<1>. SUFFICES ASSUME SessionsAssumption, Init PROVE TypeOK
  OBVIOUS
<1>1. 0 \in Issued /\ issued \in Nat
  BY DEF Init, Issued
<1>2. NoSession \in SessionType /\ NoSession.previous = 0
  BY <1>1 DEF NoSession, Session, SessionType, States
<1>3. Idle \in WaitingType
  BY <1>1 DEF Idle, Waiting, WaitingType, Phases
<1>. QED
  BY <1>1, <1>2, <1>3 DEF Init, Jar, TypeOK, SessionType, WaitingType

\* Tokens are only added.
LEMMA TypesGrow ==
  ASSUME issued \in Nat, issued' \in {issued, issued + 1}
  PROVE  /\ issued' \in Nat /\ Issued \subseteq Issued' /\ issued' \in Issued'
         /\ WaitingType \subseteq WaitingType' /\ SessionType \subseteq SessionType'
<1>1. issued' \in Nat /\ Issued \subseteq Issued' /\ issued' \in Issued'
  BY DEF Issued
<1>. QED
  BY <1>1 DEF WaitingType, SessionType

\* What a tab is told has the type of what it waits for.
LEMMA AnswerTyped ==
  ASSUME TypeOK, issued' \in {issued, issued + 1},
         NEW t \in Tabs, NEW token \in Issued', NEW access \in Ids \cup {0},
         Answer(t, token, access)
  PROVE  tab' \in [Tabs -> WaitingType']
<1>1. issued \in Nat /\ tab \in [Tabs -> WaitingType]
  BY DEF TypeOK, WaitingType
<1>2. WaitingType \subseteq WaitingType' /\ Issued \subseteq Issued'
  BY <1>1, TypesGrow
<1>3. 0 \in Issued'
  BY <1>1, <1>2 DEF Issued
<1>4. Waiting("answered", token, access, 0, 0, FALSE, Answered) \in WaitingType'
  BY <1>3 DEF Waiting, WaitingType, Phases, Answered
<1>. QED
  BY <1>1, <1>2, <1>4 DEF Answer

\* The state of a session is all that changes.
LEMMA RevokedTyped ==
  ASSUME TypeOK, issued' = issued, NEW i \in Ids \cup {0}, NEW why \in States, Revoked(i, why)
  PROVE  /\ sessions' \in [Ids -> SessionType']
         /\ \A j \in Ids : /\ sessions'[j].current = sessions[j].current
                           /\ sessions'[j].previous = sessions[j].previous
                           /\ sessions'[j].fresh = sessions[j].fresh
                           /\ sessions'[j].state \in {sessions[j].state, why}
<1>1. sessions \in [Ids -> SessionType] /\ SessionType' = SessionType
  BY DEF TypeOK, SessionType, Issued
<1>2. CASE i \in Ids
  <2>1. PICK row : row = [sessions[i] EXCEPT !.state = IF @ = "live" THEN why ELSE @]
    OBVIOUS
  <2>2. /\ row \in SessionType /\ row.state \in {sessions[i].state, why}
        /\ row.current = sessions[i].current /\ row.previous = sessions[i].previous
        /\ row.fresh = sessions[i].fresh
    BY <1>1, <1>2, <2>1 DEF SessionType
  <2>3. sessions' = [sessions EXCEPT ![i] = row]
    BY <2>1 DEF Revoked
  <2>. QED
    BY <1>1, <1>2, <2>2, <2>3
<1>3. CASE i \notin Ids
  BY <1>1, <1>3 DEF Revoked
<1>. QED
  BY <1>2, <1>3

\* The parts of the type invariant.
Rows ==
  /\ sessions \in [Ids -> SessionType]
  /\ \A i \in Ids : sessions[i].previous # 0 => sessions[i].previous < sessions[i].current
JarType == [refresh : Issued, access : Ids \cup {0}]

Typed == Rows /\ issued \in Nat /\ jar \in JarType /\ tab \in [Tabs -> WaitingType]
HistoryTyped == lost \in SUBSET Ids /\ overtaken \in SUBSET Ids

LEMMA Parts ==
  /\ TypeOK <=> Typed /\ HistoryTyped
  /\ Typed <=> Rows /\ issued \in Nat /\ jar \in JarType /\ tab \in [Tabs -> WaitingType]
BY DEF TypeOK, Typed, HistoryTyped, Rows, JarType, SessionType, WaitingType

LEMMA PartsNext ==
  ASSUME Rows', issued' \in Nat, jar' \in JarType', tab' \in [Tabs -> WaitingType']
  PROVE  Typed'
BY DEF Typed

\* A step that issues no token and leaves the sessions or the tabs with their types.
LEMMA SameTokens ==
  ASSUME TypeOK, issued' = issued
  PROVE  /\ WaitingType' = WaitingType /\ JarType' = JarType /\ SessionType' = SessionType
         /\ UNCHANGED sessions => Rows'
         /\ UNCHANGED jar => jar' \in JarType'
         /\ UNCHANGED tab => tab' \in [Tabs -> WaitingType']
<1>1. Issued' = Issued
  BY DEF Issued
<1>2. WaitingType' = WaitingType /\ JarType' = JarType /\ SessionType' = SessionType
  BY <1>1 DEF WaitingType, JarType, SessionType
<1>. QED
  BY <1>2, Parts DEF Rows

LEMMA BrowserTyped ==
  ASSUME TypeOK, NEW t \in Tabs, Refused(t) \/ Send(t) \/ Receive(t) \/ Lose(t) \/ Leave(t)
  PROVE  Typed'
<1>1. issued' = issued /\ sessions' = sessions
  BY DEF Refused, Send, Receive, Lose, Leave
<1>2. tab \in [Tabs -> WaitingType] /\ jar \in JarType /\ issued \in Nat /\ 0 \in Issued
  BY Parts DEF Issued
<1>3. jar.refresh \in Issued /\ jar.access \in Ids \cup {0}
  BY <1>2 DEF JarType
<1>4. jar' \in JarType
  <2>1. CASE Receive(t)
    <3>1. tab[t].token \in Issued /\ tab[t].access \in Ids \cup {0}
      BY <1>2 DEF WaitingType
    <3>. QED
      BY <2>1, <3>1 DEF Receive, Jar, JarType
  <2>2. CASE ~Receive(t)
    BY <1>2, <2>2 DEF Refused, Send, Lose, Leave
  <2>. QED
    BY <2>1, <2>2
<1>5. tab' \in [Tabs -> WaitingType]
  <2>1. CASE Refused(t)
    BY <1>2, <2>1 DEF Refused, WaitingType, Phases
  <2>2. CASE Send(t)
    <3>1. Waiting("sent", jar.refresh, 0, 0, 0, FALSE, {}) \in WaitingType
      BY <1>2, <1>3 DEF Waiting, WaitingType, Phases
    <3>. QED
      BY <1>2, <2>2, <3>1 DEF Send
  <2>3. CASE Receive(t) \/ Lose(t)
    <3>1. Idle \in WaitingType
      BY <1>2 DEF Idle, Waiting, WaitingType, Phases
    <3>2. \A u \in Tabs : [tab[u] EXCEPT !.after = @ \ {t}] \in WaitingType
      BY <1>2 DEF WaitingType
    <3>. QED
      BY <2>3, <3>1, <3>2 DEF Receive, Lose, Rests
  <2>4. CASE Leave(t)
    <3>1. Waiting("leaving", jar.refresh, jar.access, 0, 0, FALSE, {}) \in WaitingType
      BY <1>2, <1>3 DEF Waiting, WaitingType, Phases
    <3>. QED
      BY <1>2, <2>4, <3>1 DEF Leave
  <2>. QED
    BY <2>1, <2>2, <2>3, <2>4
<1>. QED
  BY <1>1, <1>4, <1>5, <1>2, SameTokens, PartsNext

LEMMA LoginTyped ==
  ASSUME TypeOK, NEW t \in Tabs, Login(t)
  PROVE  Typed'
<1>1. PICK i \in Ids : /\ sessions' = [sessions EXCEPT ![i] = Session("live", issued + 1, 0, FALSE)]
                       /\ Answer(t, issued + 1, i)
  BY DEF Login
<1>2. issued' = issued + 1 /\ jar' = jar /\ issued \in Nat
  BY Parts DEF Login
<1>3. /\ issued' \in Nat /\ Issued \subseteq Issued' /\ issued + 1 \in Issued' /\ 0 \in Issued'
      /\ SessionType \subseteq SessionType'
  BY <1>2, TypesGrow DEF Issued
<1>4. tab' \in [Tabs -> WaitingType']
  BY <1>1, <1>2, <1>3, AnswerTyped
<1>5. Session("live", issued + 1, 0, FALSE) \in SessionType'
  BY <1>3 DEF Session, SessionType, States
<1>6. Rows'
  BY <1>1, <1>2, <1>3, <1>5, Parts DEF Rows, Session
<1>7. jar' \in JarType'
  BY <1>2, <1>3, Parts DEF JarType
<1>. QED
  BY <1>3, <1>4, <1>6, <1>7, PartsNext

LEMMA RotateTyped ==
  ASSUME TypeOK, NEW t \in Tabs, Rotate(t)
  PROVE  Typed'
<1>. DEFINE i == tab[t].id
<1>1. /\ i \in Ids /\ tab[t].seen \in Issued
      /\ sessions' = [sessions EXCEPT ![i] = Session("live", issued + 1, tab[t].seen, TRUE)]
      /\ Answer(t, issued + 1, i)
  BY DEF Rotate, StillCurrent, Live, TypeOK
<1>2. issued' = issued + 1 /\ jar' = jar /\ issued \in Nat
  BY Parts DEF Rotate
<1>3. /\ issued' \in Nat /\ Issued \subseteq Issued' /\ issued + 1 \in Issued' /\ 0 \in Issued'
      /\ SessionType \subseteq SessionType'
  BY <1>2, TypesGrow DEF Issued
<1>4. tab' \in [Tabs -> WaitingType']
  BY <1>1, <1>2, <1>3, AnswerTyped
<1>5. Session("live", issued + 1, tab[t].seen, TRUE) \in SessionType'
  BY <1>1, <1>3 DEF Session, SessionType, States
<1>6. tab[t].seen < issued + 1
  BY <1>1, <1>2 DEF Issued
<1>7. Rows'
  BY <1>1, <1>2, <1>3, <1>5, <1>6, Parts DEF Rows, Session
<1>8. jar' \in JarType'
  BY <1>2, <1>3, Parts DEF JarType
<1>. QED
  BY <1>3, <1>4, <1>7, <1>8, PartsNext

LEMMA ServerTyped ==
  ASSUME TypeOK, NEW t \in Tabs, Read(t) \/ Unknown(t) \/ Reuse(t) \/ LostRace(t) \/ Logout(t)
  PROVE  Typed'
<1>1. issued' = issued /\ jar' = jar
  BY DEF Read, Unknown, Reuse, LostRace, Logout
<1>2. /\ tab \in [Tabs -> WaitingType] /\ jar \in JarType /\ issued \in Nat /\ 0 \in Issued
      /\ Rows /\ WaitingType' = WaitingType /\ Issued' = Issued
  BY <1>1, Parts, SameTokens DEF Issued
<1>3. Clear(t) => tab' \in [Tabs -> WaitingType']
  BY <1>1, <1>2, AnswerTyped DEF Clear
<1>4. CASE Read(t)
  <2>1. PICK i \in Ids :
          tab' = [tab EXCEPT ![t] =
                    Waiting(IF WithinGrace(i, tab[t].token) THEN "read" ELSE "reused",
                            tab[t].token, 0, i, sessions[i].current, tab[t].retried, {})]
    BY <1>4 DEF Read
  <2>2. tab[t].token \in Issued /\ sessions[i].current \in Issued /\ tab[t].retried \in BOOLEAN
    BY <1>2 DEF WaitingType, Rows, SessionType
  <2>3. Waiting(IF WithinGrace(i, tab[t].token) THEN "read" ELSE "reused",
                tab[t].token, 0, i, sessions[i].current, tab[t].retried, {}) \in WaitingType
    BY <2>2 DEF Waiting, WaitingType, Phases
  <2>4. tab' \in [Tabs -> WaitingType]
    BY <1>2, <2>1, <2>3
  <2>. QED
    BY <1>1, <1>2, <1>4, <2>4, SameTokens, PartsNext DEF Read
<1>5. CASE Unknown(t)
  BY <1>1, <1>2, <1>3, <1>5, SameTokens, PartsNext DEF Unknown
<1>6. CASE Reuse(t)
  <2>1. tab[t].id \in Ids \cup {0}
    BY <1>2 DEF WaitingType
  <2>2. Rows'
    BY <1>1, <1>2, <1>6, <2>1, RevokedTyped DEF Reuse, States, Rows
  <2>. QED
    BY <1>1, <1>2, <1>3, <1>6, <2>2, SameTokens, PartsNext DEF Reuse
<1>7. CASE LostRace(t)
  <2>1. tab[t].token \in Issued
    BY <1>2 DEF WaitingType
  <2>2. Waiting("sent", tab[t].token, 0, 0, 0, TRUE, {}) \in WaitingType
    BY <1>2, <2>1 DEF Waiting, WaitingType, Phases
  <2>3. tab' \in [Tabs -> WaitingType']
    BY <1>2, <1>3, <1>7, <2>2 DEF LostRace
  <2>. QED
    BY <1>1, <1>2, <1>7, <2>3, SameTokens, PartsNext DEF LostRace
<1>8. CASE Logout(t)
  <2>1. \A i \in Ids : [sessions[i] EXCEPT !.state = "logout"] \in SessionType
    BY <1>2 DEF Rows, SessionType, States
  <2>2. sessions' \in [Ids -> SessionType']
    BY <1>1, <1>2, <1>8, <2>1, SameTokens DEF Logout, Rows
  <2>3. \A i \in Ids : /\ sessions'[i].current = sessions[i].current
                       /\ sessions'[i].previous = sessions[i].previous
    BY <1>2, <1>8 DEF Logout, Rows, SessionType
  <2>4. Rows'
    BY <1>2, <2>2, <2>3 DEF Rows
  <2>. QED
    BY <1>1, <1>2, <1>3, <1>8, <2>4, SameTokens, PartsNext DEF Logout
<1>. QED
  BY <1>4, <1>5, <1>6, <1>7, <1>8

LEMMA TimeTyped ==
  ASSUME TypeOK, AccessExpires \/ \E i \in Ids : GraceEnds(i) \/ Ends(i)
  PROVE  Typed'
<1>1. issued' = issued /\ tab' = tab /\ issued \in Nat
  BY Parts DEF AccessExpires, GraceEnds, Ends
<1>2. CASE AccessExpires
  <2>1. jar' \in JarType
    BY <1>2, Parts DEF AccessExpires, JarType
  <2>. QED
    BY <1>1, <1>2, <2>1, SameTokens, Parts, PartsNext DEF AccessExpires
<1>3. ASSUME NEW i \in Ids, GraceEnds(i) PROVE Typed'
  <2>1. /\ sessions' \in [Ids -> SessionType]
        /\ \A j \in Ids : /\ sessions'[j].current = sessions[j].current
                          /\ sessions'[j].previous = sessions[j].previous
    BY <1>3, Parts DEF GraceEnds, Rows, SessionType
  <2>2. Rows'
    BY <1>1, <2>1, Parts, SameTokens DEF Rows
  <2>. QED
    BY <1>1, <1>3, <2>2, SameTokens, PartsNext DEF GraceEnds
<1>4. ASSUME NEW i \in Ids, Ends(i) PROVE Typed'
  <2>1. Rows'
    BY <1>1, <1>4, Parts, RevokedTyped DEF Ends, States, Rows
  <2>. QED
    BY <1>1, <1>4, <2>1, SameTokens, PartsNext DEF Ends
<1>. QED
  BY <1>2, <1>3, <1>4

\* The histories are of sessions, and only grow.
LEMMA HistoryGrows ==
  ASSUME HistoryTyped, [Next]_vars
  PROVE  HistoryTyped' /\ Steady' \subseteq Steady
<1>1. lost \subseteq lost' /\ overtaken \subseteq overtaken' /\ HistoryTyped'
  <2>1. CASE UNCHANGED astray
    BY <2>1 DEF astray, HistoryTyped
  <2>2. ASSUME NEW t \in Tabs, Receive(t) \/ Lose(t)
        PROVE  lost \subseteq lost' /\ overtaken \subseteq overtaken' /\ HistoryTyped'
    BY <2>2 DEF Receive, Lose, Carried, HistoryTyped
  <2>. QED
    BY <2>1, <2>2 DEF vars, Next, Refused, Send, Login, Leave, Answers, Read, Unknown, Reuse,
       Rotate, LostRace, Logout, AccessExpires, GraceEnds, Ends
<1>. QED
  BY <1>1 DEF Steady

LEMMA StepTyped == TypeOK /\ [Next]_vars => TypeOK'
<1>. SUFFICES ASSUME TypeOK, [Next]_vars PROVE TypeOK'
  OBVIOUS
<1>1. ASSUME UNCHANGED vars PROVE Typed'
  BY <1>1, SameTokens, Parts, PartsNext DEF vars
<1>2. ASSUME Next PROVE Typed'
  BY <1>2, BrowserTyped, LoginTyped, RotateTyped, ServerTyped, TimeTyped DEF Next, Answers
<1>3. HistoryTyped'
  BY HistoryGrows, Parts
<1>. QED
  BY <1>1, <1>2, <1>3 DEF TypeOK, Typed, HistoryTyped, Rows, JarType, SessionType, WaitingType

\* Every token a session, a cookie or a request holds was issued, and a rotation
\* only replaces an older one.
THEOREM TypeCorrect == SessionsAssumption => (Spec => []TypeOK)
BY InitTyped, StepTyped, PTL DEF Spec

-----------------------------------------------------------------------------
(* No reuse is read, of a session all of whose answers arrived in order.    *)

\* The answers on their way with the token a session has now.
Newest(i) == {t \in Tabs : tab[t].phase = "answered" /\ tab[t].token = sessions[i].current}

\* A token that was replaced and is in the jar, or on its way to it, will be
\* overwritten: the answer with what replaced it is behind.
Followed ==
  \A i \in Steady : sessions[i].previous # 0 =>
    /\ jar.refresh = sessions[i].previous => Newest(i) # {}
    /\ \A u \in Tabs : (tab[u].phase = "answered" /\ tab[u].token = sessions[i].previous) =>
         \E t \in Newest(i) : u \in tab[t].after

Carries == {"sent", "read", "answered"}

\* So, once the grace of a rotation is over, nobody has what it replaced.
Forgotten ==
  \A i \in Steady : (sessions[i].previous # 0 /\ ~sessions[i].fresh) =>
    /\ jar.refresh # sessions[i].previous
    /\ \A t \in Tabs : tab[t].phase \in Carries => tab[t].token # sessions[i].previous

NoneReused == \A t \in Tabs : tab[t].phase = "reused" => tab[t].id \in Ids \ Steady

ReuseInv == TypeOK /\ Followed /\ Forgotten /\ NoneReused /\ ReuseIsExplained

\* The sessions keep their tokens.
SameSessions ==
  \A i \in Ids : /\ sessions'[i].current = sessions[i].current
                 /\ sessions'[i].previous = sessions[i].previous
                 /\ sessions'[i].fresh = sessions[i].fresh

\* A tab whose answer is not on its way, and will not carry a token, takes a step.
LEMMA TabMoves ==
  ASSUME ReuseInv, SameSessions, jar' = jar, Steady' \subseteq Steady,
         NEW t \in Tabs, tab[t].phase # "answered",
         NEW w, tab' = [tab EXCEPT ![t] = w],
         w.phase = "answered" => w.token = 0,
         w.phase \in {"sent", "read"} =>
           \/ w.token = jar.refresh
           \/ tab[t].phase \in Carries /\ w.token = tab[t].token
  PROVE  Followed' /\ Forgotten'
<1>1. /\ tab'[t] = w
      /\ \A u \in Tabs : u # t => tab'[u] = tab[u]
  BY DEF ReuseInv, TypeOK
<1>2. \A i \in Ids : Newest(i) \subseteq Newest(i)' /\ t \notin Newest(i)
  BY <1>1 DEF Newest, SameSessions
<1>3. Followed'
  <2>. SUFFICES ASSUME NEW i \in Steady', sessions'[i].previous # 0
       PROVE  /\ jar'.refresh = sessions'[i].previous => Newest(i)' # {}
              /\ \A u \in Tabs :
                   (tab'[u].phase = "answered" /\ tab'[u].token = sessions'[i].previous) =>
                     \E v \in Newest(i)' : u \in tab'[v].after
    BY DEF Followed
  <2>. i \in Steady /\ i \in Ids
    BY DEF Steady
  <2>1. sessions[i].previous = sessions'[i].previous
    BY DEF SameSessions
  <2>2. jar'.refresh = sessions'[i].previous => Newest(i)' # {}
    BY <1>2, <2>1 DEF ReuseInv, Followed
  <2>3. ASSUME NEW u \in Tabs, tab'[u].phase = "answered", tab'[u].token = sessions'[i].previous
        PROVE  \E v \in Newest(i)' : u \in tab'[v].after
    <3>1. u # t
      BY <1>1, <2>3
    <3>2. PICK v \in Newest(i) : u \in tab[v].after
      BY <1>1, <2>1, <2>3, <3>1 DEF ReuseInv, Followed
    <3>. QED
      BY <1>1, <1>2, <3>2 DEF Newest
  <2>. QED
    BY <2>2, <2>3
<1>4. Forgotten'
  <2>. SUFFICES ASSUME NEW i \in Steady', sessions'[i].previous # 0, ~sessions'[i].fresh
       PROVE  /\ jar'.refresh # sessions'[i].previous
              /\ \A u \in Tabs : tab'[u].phase \in Carries => tab'[u].token # sessions'[i].previous
    BY DEF Forgotten
  <2>. i \in Steady /\ i \in Ids
    BY DEF Steady
  <2>1. sessions[i].previous = sessions'[i].previous /\ ~sessions[i].fresh
    BY DEF SameSessions
  <2>2. /\ jar.refresh # sessions[i].previous
        /\ \A u \in Tabs : tab[u].phase \in Carries => tab[u].token # sessions[i].previous
    BY <2>1 DEF ReuseInv, Forgotten
  <2>. QED
    BY <1>1, <2>1, <2>2 DEF Carries
<1>. QED
  BY <1>3, <1>4

\* What a tab asks and what the server answers without a new token.
LEMMA QuestionsKeep ==
  ASSUME ReuseInv, NEW t \in Tabs,
         \/ Refused(t) \/ Send(t) \/ Leave(t)
         \/ Read(t) \/ Unknown(t) \/ Reuse(t) \/ LostRace(t) \/ Logout(t)
  PROVE  Followed' /\ Forgotten' /\ NoneReused' /\ ReuseIsExplained'
<1>1. /\ jar' = jar /\ tab[t].phase # "answered" /\ Steady' = Steady
      /\ tab \in [Tabs -> WaitingType] /\ sessions \in [Ids -> SessionType]
  BY Parts DEF ReuseInv, Rows, Refused, Send, Leave, Read, Unknown, Reuse, LostRace, Logout,
     astray, Steady
<1>2. SameSessions /\ ReuseIsExplained'
  <2>1. CASE sessions' = sessions
    BY <1>1, <2>1 DEF ReuseInv, SameSessions, ReuseIsExplained
  <2>2. CASE Logout(t)
    <3>1. ASSUME NEW i \in Ids
          PROVE  /\ sessions'[i].current = sessions[i].current
                 /\ sessions'[i].previous = sessions[i].previous
                 /\ sessions'[i].fresh = sessions[i].fresh
                 /\ sessions'[i].state \in {sessions[i].state, "logout"}
      BY <1>1, <2>2 DEF Logout, SessionType
    <3>. QED
      BY <1>1, <3>1 DEF ReuseInv, SameSessions, ReuseIsExplained, Steady
  <2>3. CASE Reuse(t)
    <3>1. tab[t].id \in Ids \ Steady /\ Revoked(tab[t].id, "reuse")
      BY <2>3 DEF Reuse, ReuseInv, NoneReused
    <3>2. \A i \in Steady : sessions'[i] = sessions[i]
      BY <1>1, <3>1 DEF Revoked, Steady
    <3>3. issued' = issued /\ "reuse" \in States
      BY <2>3 DEF Reuse, States
    <3>4. SameSessions
      BY <3>1, <3>3, RevokedTyped DEF SameSessions, ReuseInv
    <3>. QED
      BY <1>1, <3>2, <3>4 DEF ReuseInv, ReuseIsExplained
  <2>. QED
    BY <2>1, <2>2, <2>3 DEF Refused, Send, Leave, Read, Unknown, LostRace
<1>3. \E w : /\ tab' = [tab EXCEPT ![t] = w]
             /\ w.phase = "reused" => w.id \in Ids \ Steady
             /\ w.phase = "answered" => w.token = 0
             /\ w.phase \in {"sent", "read"} =>
                  \/ w.token = jar.refresh
                  \/ tab[t].phase \in Carries /\ w.token = tab[t].token
  <2>1. CASE Refused(t)
    <3>. DEFINE w == [tab[t] EXCEPT !.phase = "refused"]
    <3>1. w.phase = "refused" /\ tab' = [tab EXCEPT ![t] = w]
      BY <1>1, <2>1 DEF Refused, WaitingType
    <3>. QED
      BY <3>1
  <2>2. CASE Send(t)
    <3>. DEFINE w == Waiting("sent", jar.refresh, 0, 0, 0, FALSE, {})
    <3>1. tab' = [tab EXCEPT ![t] = w]
      BY <2>2 DEF Send
    <3>2. w.phase = "sent" /\ w.token = jar.refresh
      BY DEF Waiting
    <3>. QED
      BY <3>1, <3>2
  <2>3. CASE Leave(t)
    <3>. DEFINE w == Waiting("leaving", jar.refresh, jar.access, 0, 0, FALSE, {})
    <3>1. tab' = [tab EXCEPT ![t] = w]
      BY <2>3 DEF Leave
    <3>2. w.phase = "leaving"
      BY DEF Waiting
    <3>. QED
      BY <3>1, <3>2
  <2>4. CASE Read(t)
    <3>1. PICK i \in Ids :
            /\ Live(i) /\ Finds(i, tab[t].token)
            /\ tab' = [tab EXCEPT ![t] =
                         Waiting(IF WithinGrace(i, tab[t].token) THEN "read" ELSE "reused",
                                 tab[t].token, 0, i, sessions[i].current, tab[t].retried, {})]
      BY <2>4 DEF Read
    <3>2. i \in Steady => WithinGrace(i, tab[t].token)
      BY <2>4, <3>1 DEF Read, Finds, WithinGrace, ReuseInv, Forgotten, Carries
    <3>3. PICK w : w = Waiting(IF WithinGrace(i, tab[t].token) THEN "read" ELSE "reused",
                               tab[t].token, 0, i, sessions[i].current, tab[t].retried, {})
      OBVIOUS
    <3>4. /\ w.phase \in {"read", "reused"} /\ w.token = tab[t].token /\ w.id = i
          /\ w.phase = "reused" => i \notin Steady
          /\ tab[t].phase \in Carries
      BY <2>4, <3>2, <3>3 DEF Waiting, Read, Carries
    <3>5. tab' = [tab EXCEPT ![t] = w]
      BY <3>1, <3>3
    <3>. QED
      BY <3>4, <3>5
  <2>5. Clear(t) => \E w : /\ tab' = [tab EXCEPT ![t] = w]
                           /\ w.phase = "answered" /\ w.token = 0
    <3>. DEFINE w == Waiting("answered", 0, 0, 0, 0, FALSE, Answered)
    <3>1. Clear(t) => tab' = [tab EXCEPT ![t] = w]
      BY DEF Clear, Answer
    <3>2. w.phase = "answered" /\ w.token = 0
      BY DEF Waiting
    <3>. QED
      BY <3>1, <3>2
  <2>6. CASE LostRace(t) /\ ~Clear(t)
    <3>. DEFINE w == Waiting("sent", tab[t].token, 0, 0, 0, TRUE, {})
    <3>1. tab' = [tab EXCEPT ![t] = w] /\ tab[t].phase \in Carries
      BY <2>6 DEF LostRace, Carries
    <3>2. w.phase = "sent" /\ w.token = tab[t].token
      BY DEF Waiting
    <3>. QED
      BY <3>1, <3>2
  <2>. QED
    BY <2>1, <2>2, <2>3, <2>4, <2>5, <2>6 DEF Unknown, Reuse, LostRace, Logout
<1>4. PICK w : /\ tab' = [tab EXCEPT ![t] = w]
               /\ w.phase = "reused" => w.id \in Ids \ Steady
               /\ w.phase = "answered" => w.token = 0
               /\ w.phase \in {"sent", "read"} =>
                    \/ w.token = jar.refresh
                    \/ tab[t].phase \in Carries /\ w.token = tab[t].token
  BY <1>3
<1>5. NoneReused'
  BY <1>1, <1>4 DEF ReuseInv, NoneReused
<1>. QED
  BY <1>1, <1>2, <1>4, <1>5, TabMoves

\* Of what the answer that arrives overtakes, nothing is of a session in order: what
\* was behind it is there.
LEMMA ReceiveKeeps ==
  ASSUME ReuseInv, Steady' \subseteq Steady, NEW t \in Tabs, Receive(t)
  PROVE  Followed' /\ Forgotten' /\ NoneReused' /\ ReuseIsExplained'
<1>1. /\ sessions' = sessions /\ tab[t].phase = "answered" /\ jar'.refresh = tab[t].token
  BY DEF Receive, Jar
<1>2. /\ tab'[t] = Idle
      /\ \A u \in Tabs \ {t} : /\ tab'[u].phase = tab[u].phase /\ tab'[u].token = tab[u].token
                               /\ tab'[u].id = tab[u].id /\ tab'[u].after = tab[u].after \ {t}
  BY Parts DEF ReuseInv, Receive, Rests, WaitingType
<1>3. Idle.phase = "idle"
  BY DEF Idle, Waiting
<1>4. Steady' \subseteq Ids
  BY DEF Steady
<1>5. \A i \in Steady' : i \notin Carried(tab[t].after)
  BY DEF Receive, Steady
<1>6. ASSUME NEW i \in Steady', sessions[i].previous # 0,
             NEW u \in Tabs, tab[u].phase = "answered", tab[u].token = sessions[i].previous
      PROVE  \E v \in Newest(i)' : u \in tab[v].after
  <2>1. PICK v \in Newest(i) : u \in tab[v].after
    BY <1>6 DEF ReuseInv, Followed
  <2>2. i \in Ids /\ Finds(i, tab[u].token)
    BY <1>4, <1>6 DEF Finds
  <2>3. v # t
    BY <1>5, <1>6, <2>1, <2>2 DEF Carried
  <2>4. v \in Newest(i)'
    BY <1>1, <1>2, <2>1, <2>3 DEF Newest
  <2>. QED
    BY <2>1, <2>4
<1>7. Followed'
  <2>. SUFFICES ASSUME NEW i \in Steady', sessions'[i].previous # 0
       PROVE  /\ jar'.refresh = sessions'[i].previous => Newest(i)' # {}
              /\ \A u \in Tabs :
                   (tab'[u].phase = "answered" /\ tab'[u].token = sessions'[i].previous) =>
                     \E v \in Newest(i)' : u \in tab'[v].after
    BY DEF Followed
  <2>1. jar'.refresh = sessions'[i].previous => Newest(i)' # {}
    BY <1>1, <1>6
  <2>2. ASSUME NEW u \in Tabs, tab'[u].phase = "answered", tab'[u].token = sessions'[i].previous
        PROVE  \E v \in Newest(i)' : u \in tab'[v].after
    <3>1. u # t /\ tab[u].phase = "answered" /\ tab[u].token = sessions[i].previous
      BY <1>1, <1>2, <1>3, <2>2
    <3>2. PICK v \in Newest(i)' : u \in tab[v].after
      BY <1>1, <1>6, <3>1
    <3>3. v \in Tabs /\ v # t
      BY <1>2, <1>3, <3>2 DEF Newest
    <3>. QED
      BY <1>2, <3>1, <3>2, <3>3
  <2>. QED
    BY <2>1, <2>2
<1>8. Forgotten'
  BY <1>1, <1>2, <1>3 DEF ReuseInv, Forgotten, Carries
<1>9. NoneReused' /\ ReuseIsExplained'
  BY <1>1, <1>2, <1>3 DEF ReuseInv, NoneReused, ReuseIsExplained
<1>. QED
  BY <1>7, <1>8, <1>9

\* What replaces a token of a session in order is not what is lost.
LEMMA LoseKeeps ==
  ASSUME ReuseInv, Steady' \subseteq Steady, NEW t \in Tabs, Lose(t)
  PROVE  Followed' /\ Forgotten' /\ NoneReused' /\ ReuseIsExplained'
<1>1. sessions' = sessions /\ jar' = jar
  BY DEF Lose
<1>2. /\ tab'[t] = Idle
      /\ \A u \in Tabs \ {t} : /\ tab'[u].phase = tab[u].phase /\ tab'[u].token = tab[u].token
                               /\ tab'[u].id = tab[u].id /\ tab'[u].after = tab[u].after \ {t}
  BY Parts DEF ReuseInv, Lose, Rests, WaitingType
<1>3. Idle.phase = "idle"
  BY DEF Idle, Waiting
<1>4. \A i \in Steady' : i \notin Carried({t})
  BY DEF Lose, Steady
<1>5. ASSUME NEW i \in Steady', sessions[i].previous # 0
      PROVE  Newest(i) \subseteq Newest(i)' /\ t \notin Newest(i)
  <2>1. sessions \in [Ids -> SessionType] /\ Rows /\ i \in Ids
    BY Parts DEF ReuseInv, Rows, Steady
  <2>2. sessions[i].current # 0
    BY <1>5, <2>1 DEF Rows, SessionType, Issued
  <2>3. t \notin Newest(i)
    BY <1>4, <2>1, <2>2 DEF Newest, Carried, Finds
  <2>. QED
    BY <1>1, <1>2, <2>3 DEF Newest
<1>6. Followed'
  <2>. SUFFICES ASSUME NEW i \in Steady', sessions'[i].previous # 0
       PROVE  /\ jar'.refresh = sessions'[i].previous => Newest(i)' # {}
              /\ \A u \in Tabs :
                   (tab'[u].phase = "answered" /\ tab'[u].token = sessions'[i].previous) =>
                     \E v \in Newest(i)' : u \in tab'[v].after
    BY DEF Followed
  <2>1. jar'.refresh = sessions'[i].previous => Newest(i)' # {}
    BY <1>1, <1>5 DEF ReuseInv, Followed
  <2>2. ASSUME NEW u \in Tabs, tab'[u].phase = "answered", tab'[u].token = sessions'[i].previous
        PROVE  \E v \in Newest(i)' : u \in tab'[v].after
    <3>1. u # t /\ tab[u].phase = "answered" /\ tab[u].token = sessions[i].previous
      BY <1>1, <1>2, <1>3, <2>2
    <3>2. PICK v \in Newest(i) : u \in tab[v].after
      BY <1>1, <3>1 DEF ReuseInv, Followed
    <3>3. v \in Newest(i)' /\ v \in Tabs /\ v # t
      BY <1>1, <1>5, <3>2 DEF Newest
    <3>. QED
      BY <1>2, <3>1, <3>2, <3>3
  <2>. QED
    BY <2>1, <2>2
<1>7. Forgotten'
  BY <1>1, <1>2, <1>3 DEF ReuseInv, Forgotten, Carries
<1>8. NoneReused' /\ ReuseIsExplained'
  BY <1>1, <1>2, <1>3 DEF ReuseInv, NoneReused, ReuseIsExplained
<1>. QED
  BY <1>6, <1>7, <1>8

\* A rotation: the answers with what it replaces were given before its own.
LEMMA RotateKeeps ==
  ASSUME ReuseInv, NEW t \in Tabs, Rotate(t)
  PROVE  Followed' /\ Forgotten' /\ NoneReused' /\ ReuseIsExplained'
<1>. DEFINE new == issued + 1
<1>1. PICK i \in Ids : i = tab[t].id
  BY DEF Rotate, StillCurrent, Live
<1>2. /\ tab[t].phase = "read" /\ sessions[i].current = tab[t].seen
      /\ sessions' = [sessions EXCEPT ![i] = Session("live", new, tab[t].seen, TRUE)]
      /\ tab' = [tab EXCEPT ![t] = Waiting("answered", new, i, 0, 0, FALSE, Answered)]
      /\ jar' = jar
  BY <1>1 DEF Rotate, StillCurrent, Answer
<1>3. /\ issued \in Nat /\ tab \in [Tabs -> WaitingType] /\ sessions \in [Ids -> SessionType]
      /\ Steady' = Steady /\ Steady \subseteq Ids
  BY Parts DEF ReuseInv, Rows, Rotate, astray, Steady
<1>4. /\ sessions'[i].current = new /\ sessions'[i].previous = sessions[i].current
      /\ sessions'[i].fresh = TRUE /\ sessions'[i].state = "live"
      /\ \A j \in Ids \ {i} : sessions'[j] = sessions[j]
  BY <1>2, <1>3 DEF Session
<1>5. /\ tab'[t].phase = "answered" /\ tab'[t].token = new /\ tab'[t].after = Answered
      /\ \A u \in Tabs \ {t} : tab'[u] = tab[u]
  BY <1>2, <1>3 DEF Waiting
<1>6. \A j \in Ids : sessions[j].previous # new /\ sessions[j].current # new
  BY <1>3 DEF SessionType, Issued
<1>7. t \in Newest(i)' /\ \A j \in Ids \ {i} : Newest(j) \subseteq Newest(j)' /\ t \notin Newest(j)
  BY <1>2, <1>4, <1>5 DEF Newest
<1>8. Followed'
  <2>. SUFFICES ASSUME NEW j \in Steady', sessions'[j].previous # 0
       PROVE  /\ jar'.refresh = sessions'[j].previous => Newest(j)' # {}
              /\ \A u \in Tabs :
                   (tab'[u].phase = "answered" /\ tab'[u].token = sessions'[j].previous) =>
                     \E v \in Newest(j)' : u \in tab'[v].after
    BY DEF Followed
  <2>. j \in Steady /\ j \in Ids
    BY <1>3
  <2>1. CASE j = i
    BY <1>4, <1>5, <1>6, <1>7, <2>1 DEF Answered
  <2>2. CASE j # i
    <3>1. jar'.refresh = sessions'[j].previous => Newest(j)' # {}
      BY <1>2, <1>4, <1>7, <2>2 DEF ReuseInv, Followed
    <3>2. ASSUME NEW u \in Tabs, tab'[u].phase = "answered", tab'[u].token = sessions'[j].previous
          PROVE  \E v \in Newest(j)' : u \in tab'[v].after
      <4>1. u # t /\ tab[u].phase = "answered" /\ tab[u].token = sessions[j].previous
        BY <1>4, <1>5, <1>6, <2>2, <3>2
      <4>2. PICK v \in Newest(j) : u \in tab[v].after
        BY <1>4, <2>2, <4>1 DEF ReuseInv, Followed
      <4>. QED
        BY <1>5, <1>7, <2>2, <4>2 DEF Newest
    <3>. QED
      BY <3>1, <3>2
  <2>. QED
    BY <2>1, <2>2
<1>9. Forgotten'
  <2>. SUFFICES ASSUME NEW j \in Steady', sessions'[j].previous # 0, ~sessions'[j].fresh
       PROVE  /\ jar'.refresh # sessions'[j].previous
              /\ \A u \in Tabs : tab'[u].phase \in Carries => tab'[u].token # sessions'[j].previous
    BY DEF Forgotten
  <2>. j \in Steady /\ j \in Ids
    BY <1>3
  <2>1. /\ sessions'[j].previous = sessions[j].previous
        /\ sessions[j].previous # 0 /\ ~sessions[j].fresh
    BY <1>4
  <2>2. /\ jar.refresh # sessions[j].previous
        /\ \A u \in Tabs : tab[u].phase \in Carries => tab[u].token # sessions[j].previous
    BY <2>1 DEF ReuseInv, Forgotten
  <2>. QED
    BY <1>2, <1>5, <1>6, <2>1, <2>2
<1>10. NoneReused' /\ ReuseIsExplained'
  BY <1>3, <1>4, <1>5 DEF ReuseInv, NoneReused, ReuseIsExplained
<1>. QED
  BY <1>8, <1>9, <1>10

LEMMA LoginKeeps ==
  ASSUME ReuseInv, NEW t \in Tabs, Login(t)
  PROVE  Followed' /\ Forgotten' /\ NoneReused' /\ ReuseIsExplained'
<1>. DEFINE new == issued + 1
<1>1. PICK i \in Ids : /\ sessions' = [sessions EXCEPT ![i] = Session("live", new, 0, FALSE)]
                       /\ Answer(t, new, i)
  BY DEF Login
<1>2. /\ issued \in Nat /\ tab \in [Tabs -> WaitingType] /\ sessions \in [Ids -> SessionType]
      /\ jar' = jar /\ jar.refresh = 0 /\ \A u \in Tabs : tab[u].phase = "idle"
      /\ Steady' = Steady /\ Steady \subseteq Ids
  BY Parts DEF ReuseInv, Rows, Login, Quiet, astray, Steady
<1>3. /\ sessions'[i].previous = 0 /\ sessions'[i].state = "live"
      /\ \A j \in Ids \ {i} : sessions'[j] = sessions[j]
  BY <1>1, <1>2 DEF Session
<1>4. /\ tab'[t].phase = "answered" /\ tab'[t].token = new
      /\ \A u \in Tabs \ {t} : tab'[u].phase = "idle"
  BY <1>1, <1>2 DEF Answer, Waiting
<1>5. \A j \in Ids : sessions[j].previous # new
  BY <1>2 DEF SessionType, Issued
<1>6. Followed' /\ Forgotten'
  BY <1>2, <1>3, <1>4, <1>5 DEF Followed, Forgotten, Carries
<1>7. NoneReused' /\ ReuseIsExplained'
  BY <1>2, <1>3, <1>4 DEF ReuseInv, NoneReused, ReuseIsExplained
<1>. QED
  BY <1>6, <1>7

\* The grace ends when no answer is on its way: what was replaced is not in the jar.
LEMMA TimeKeeps ==
  ASSUME ReuseInv, AccessExpires \/ \E i \in Ids : GraceEnds(i) \/ Ends(i)
  PROVE  Followed' /\ Forgotten' /\ NoneReused' /\ ReuseIsExplained'
<1>1. /\ tab' = tab /\ sessions \in [Ids -> SessionType] /\ jar \in JarType
      /\ Steady' = Steady /\ Steady \subseteq Ids
  BY Parts DEF ReuseInv, Rows, AccessExpires, GraceEnds, Ends, astray, Steady
<1>2. jar'.refresh = jar.refresh
  BY <1>1 DEF JarType, AccessExpires, GraceEnds, Ends
<1>3. \A i \in Ids : /\ sessions'[i].current = sessions[i].current
                     /\ sessions'[i].previous = sessions[i].previous
                     /\ sessions[i].state # "reuse" => sessions'[i].state # "reuse"
  BY <1>1 DEF SessionType, AccessExpires, GraceEnds, Ends, Revoked
<1>4. \A i \in Ids : Newest(i)' = Newest(i)
  BY <1>1, <1>3 DEF Newest
<1>5. Followed'
  BY <1>1, <1>2, <1>3, <1>4 DEF ReuseInv, Followed
<1>6. NoneReused' /\ ReuseIsExplained'
  BY <1>1, <1>3 DEF ReuseInv, NoneReused, ReuseIsExplained
<1>7. Forgotten'
  <2>. SUFFICES ASSUME NEW i \in Steady', sessions'[i].previous # 0, ~sessions'[i].fresh
       PROVE  /\ jar'.refresh # sessions'[i].previous
              /\ \A u \in Tabs : tab'[u].phase \in Carries => tab'[u].token # sessions'[i].previous
    BY DEF Forgotten
  <2>. i \in Steady /\ i \in Ids
    BY <1>1
  <2>1. CASE Quiet
    <3>1. Newest(i) = {} /\ \A u \in Tabs : tab[u].phase \notin Carries
      BY <2>1 DEF Quiet, Newest, Carries
    <3>. QED
      BY <1>1, <1>2, <1>3, <3>1 DEF ReuseInv, Followed
  <2>2. CASE ~Quiet
    <3>1. ~sessions[i].fresh
      BY <1>1, <2>2 DEF SessionType, AccessExpires, GraceEnds, Ends, Revoked
    <3>. QED
      BY <1>1, <1>2, <1>3, <3>1 DEF ReuseInv, Forgotten
  <2>. QED
    BY <2>1, <2>2
<1>. QED
  BY <1>5, <1>6, <1>7

LEMMA ReuseStep == ReuseInv /\ [Next]_vars => ReuseInv'
<1>. SUFFICES ASSUME ReuseInv, [Next]_vars PROVE ReuseInv'
  OBVIOUS
<1>1. TypeOK' /\ Steady' \subseteq Steady
  BY StepTyped, HistoryGrows, Parts DEF ReuseInv
<1>2. CASE UNCHANGED vars
  BY <1>1, <1>2 DEF ReuseInv, vars, astray, Steady, Followed, Newest, Forgotten, NoneReused,
     ReuseIsExplained
<1>3. CASE Next
  BY <1>1, <1>3, QuestionsKeep, ReceiveKeeps, LoseKeeps, RotateKeeps, LoginKeeps, TimeKeeps
     DEF Next, Answers, ReuseInv
<1>. QED
  BY <1>2, <1>3

\* However many tabs of a browser refresh at once, and however often, and whatever
\* answers are lost or late, a session of the browser is taken for a thief's only if an
\* answer with one of its own tokens was lost or overtaken (auth.service.ts:166).
THEOREM NobodyIsAThief ==
  ASSUME SessionsAssumption
  PROVE  Spec => []ReuseIsExplained
<1>1. Init => ReuseInv
  BY InitTyped DEF Init, ReuseInv, Followed, Forgotten, NoneReused, ReuseIsExplained, Steady,
     NoSession, Session, Idle, Waiting
<1>2. ReuseInv => ReuseIsExplained
  BY DEF ReuseInv
<1>. QED
  BY <1>1, <1>2, ReuseStep, PTL DEF Spec
-----------------------------------------------------------------------------
(* Nobody is thrown out, by two tabs.                                       *)

\* With a third tab the token that a request carries may be rotated twice before it
\* is read, and is then of no session.
TwoTabs == \A t, u, v \in Tabs : t = u \/ t = v \/ u = v

\* The tab is refreshing the session i, or is free to begin.
MayRotate(u, i) ==
  \/ tab[u].phase \in {"refused", "sent", "read"}
  \/ tab[u].phase \in {"idle", "leaving"} /\ jar.access # i

Alone(t, i) == \A u \in Tabs : u # t => ~MayRotate(u, i)

\* A token that the session has, and will have when the request of the tab is read.
Known(k, t, i) ==
  k # 0 /\ (k = sessions[i].current \/ (k = sessions[i].previous /\ Alone(t, i)))

\* What a tab is waiting for, when the session is alive and in order: it will be found,
\* rotated or lost to another tab at most once, and answered with a token of the session.
WaitHolds(w, t, i) ==
  /\ w.phase # "reused"
  /\ w.phase \in {"sent", "read"} => Known(w.token, t, i)
  /\ (w.phase = "sent" /\ w.retried) => Alone(t, i)
  /\ w.phase = "read" =>
       /\ w.id = i
       /\ w.seen = sessions[i].current \/ ~w.retried
       /\ (w.seen # sessions[i].current \/ w.retried) => Alone(t, i)
  /\ w.phase = "leaving" => w.access = i \/ Known(w.token, t, i)
  /\ w.phase = "answered" =>
       /\ w.access = i /\ w.token # 0
       /\ w.token \in {sessions[i].current, sessions[i].previous}

\* The jar has the token of the session, or an answer on its way brings it.
JarHolds(i) ==
  /\ sessions[i].current # 0
  /\ jar.refresh = 0 => \A t \in Tabs : tab[t].phase \in {"idle", "answered"}
  /\ \/ jar.refresh \in {0, sessions[i].current, sessions[i].previous}
     \/ \A t \in Tabs : tab[t].phase = "answered"
  /\ jar.refresh # sessions[i].current => Newest(i) # {}

Kept(i) ==
  /\ JarHolds(i)
  /\ \A t \in Tabs : WaitHolds(tab[t], t, i)

\* Two sessions, of which the answer to a login may have left one behind, have no token
\* in common.
OneOwner ==
  \A i, j \in Ids : Finds(i, sessions[j].current) \/ Finds(i, sessions[j].previous) => i = j

KeptInv == ReuseInv /\ OneOwner /\ \A i \in Steady : Live(i) => Kept(i)

\* What each step has to keep.
StaysKept == \A i \in Steady' : Live(i)' => Kept(i)'

\* What a tab finds in the jar the server knows, unless an answer empties it first.
LEMMA FromJar ==
  ASSUME TwoTabs, NEW t \in Tabs, tab[t].phase # "answered", NEW i \in Ids, Kept(i),
         jar.refresh # 0
  PROVE  Known(jar.refresh, t, i)
<1>1. jar.refresh \in {sessions[i].current, sessions[i].previous}
  BY DEF Kept, JarHolds
<1>2. CASE jar.refresh # sessions[i].current
  <2>1. PICK u \in Tabs : tab[u].phase = "answered"
    BY <1>2 DEF Kept, JarHolds, Newest
  <2>2. \A v \in Tabs : v # t => v = u
    BY <2>1 DEF TwoTabs
  <2>3. Alone(t, i)
    BY <2>1, <2>2 DEF Alone, MayRotate
  <2>. QED
    BY <1>1, <1>2, <2>3 DEF Known
<1>3. CASE jar.refresh = sessions[i].current
  BY <1>3 DEF Known
<1>. QED
  BY <1>2, <1>3

\* The sessions and the jar stand, and a tab goes on.
LEMMA TabGoesOn ==
  ASSUME KeptInv, SameSessions, jar' = jar, \A j \in Ids : Live(j)' => Live(j),
         Steady' \subseteq Steady,
         NEW t \in Tabs, tab[t].phase # "answered",
         NEW w, tab' = [tab EXCEPT ![t] = w], w.phase # "answered",
         \A i \in Steady : (Live(i) /\ Kept(i)) =>
           /\ WaitHolds(w, t, i)
           /\ w.phase \in {"refused", "sent", "read"} => MayRotate(t, i)
           /\ w.phase \in {"leaving", "idle"} => MayRotate(t, i) \/ jar.access = i
           /\ jar.refresh = 0 => w.phase = "idle"
  PROVE  StaysKept
<1>1. /\ tab'[t] = w
      /\ \A u \in Tabs : u # t => tab'[u] = tab[u]
  BY DEF KeptInv, ReuseInv, TypeOK
<1>2. SUFFICES ASSUME NEW i \in Steady', Live(i)' PROVE Kept(i)'
  BY DEF StaysKept
<1>3. i \in Steady /\ i \in Ids /\ Live(i) /\ Kept(i)
  BY <1>2 DEF KeptInv, Steady
<1>4. /\ sessions'[i].current = sessions[i].current
      /\ sessions'[i].previous = sessions[i].previous
  BY <1>3 DEF SameSessions
<1>5. \A u \in Tabs : MayRotate(u, i)' => MayRotate(u, i)
  BY <1>1, <1>3 DEF MayRotate
<1>6. \A u \in Tabs : Alone(u, i) => Alone(u, i)'
  BY <1>5 DEF Alone
<1>7. ASSUME NEW u \in Tabs PROVE WaitHolds(tab[u], u, i)'
  <2>1. WaitHolds(tab'[u], u, i)
    BY <1>1, <1>3 DEF Kept
  <2>. QED
    BY <1>4, <1>6, <2>1 DEF WaitHolds, Known
<1>8. JarHolds(i)'
  <2>1. Newest(i) \subseteq Newest(i)'
    BY <1>1, <1>4 DEF Newest
  <2>2. JarHolds(i)
    BY <1>3 DEF Kept
  <2>. QED
    BY <1>1, <1>3, <1>4, <2>1, <2>2 DEF JarHolds
<1>. QED
  BY <1>7, <1>8 DEF Kept

\* What a tab sends is known to the server, or there is nothing to know.
LEMMA AsksKept ==
  ASSUME TwoTabs, KeptInv, NEW t \in Tabs, Refused(t) \/ Send(t) \/ Leave(t)
  PROVE  StaysKept
<1>1. /\ sessions' = sessions /\ jar' = jar /\ tab[t].phase \in {"idle", "refused"}
      /\ tab \in [Tabs -> WaitingType] /\ Steady' = Steady /\ Steady \subseteq Ids
  BY Parts DEF KeptInv, ReuseInv, Refused, Send, Leave, astray, Steady
<1>2. SameSessions /\ \A j \in Ids : Live(j)' => Live(j)
  BY <1>1 DEF SameSessions, Live
<1>3. CASE Refused(t)
  <2>1. PICK w : w = [tab[t] EXCEPT !.phase = "refused"]
    OBVIOUS
  <2>2. w.phase = "refused" /\ tab' = [tab EXCEPT ![t] = w]
    BY <1>1, <1>3, <2>1 DEF Refused, WaitingType
  <2>3. ASSUME NEW i \in Steady, Live(i), Kept(i)
        PROVE  WaitHolds(w, t, i) /\ MayRotate(t, i) /\ jar.refresh # 0
    BY <1>3, <2>2, <2>3 DEF Refused, WaitHolds, MayRotate
  <2>. QED
    BY <1>1, <1>2, <2>2, <2>3, TabGoesOn
<1>4. CASE Send(t)
  <2>1. PICK w : w = Waiting("sent", jar.refresh, 0, 0, 0, FALSE, {})
    OBVIOUS
  <2>2. w.phase = "sent" /\ w.token = jar.refresh /\ ~w.retried
    BY <2>1 DEF Waiting
  <2>3. ASSUME NEW i \in Steady, Live(i), Kept(i)
        PROVE  WaitHolds(w, t, i) /\ MayRotate(t, i) /\ jar.refresh # 0
    <3>1. jar.refresh # 0
      BY <1>4, <2>3 DEF Send, Kept, JarHolds
    <3>2. Known(jar.refresh, t, i)
      BY <1>1, <2>3, <3>1, FromJar
    <3>. QED
      BY <1>4, <2>2, <3>1, <3>2 DEF Send, WaitHolds, MayRotate
  <2>4. tab' = [tab EXCEPT ![t] = w]
    BY <1>4, <2>1 DEF Send
  <2>. QED
    BY <1>1, <1>2, <2>2, <2>3, <2>4, TabGoesOn
<1>5. CASE Leave(t)
  <2>1. PICK w : w = Waiting("leaving", jar.refresh, jar.access, 0, 0, FALSE, {})
    OBVIOUS
  <2>2. w.phase = "leaving" /\ w.token = jar.refresh
    BY <2>1 DEF Waiting
  <2>3. ASSUME NEW i \in Steady, Live(i), Kept(i)
        PROVE  /\ WaitHolds(w, t, i) /\ jar.refresh # 0
               /\ MayRotate(t, i) \/ jar.access = i
    <3>1. jar.refresh # 0
      BY <1>5 DEF Leave
    <3>2. Known(jar.refresh, t, i)
      BY <1>1, <2>3, <3>1, FromJar
    <3>. QED
      BY <1>5, <2>2, <3>1, <3>2 DEF Leave, WaitHolds, MayRotate
  <2>4. tab' = [tab EXCEPT ![t] = w]
    BY <1>5, <2>1 DEF Leave
  <2>. QED
    BY <1>1, <1>2, <2>2, <2>3, <2>4, TabGoesOn
<1>. QED
  BY <1>3, <1>4, <1>5

\* A refresh is read as one of the session that is alive, and is never unknown.
LEMMA ReadsKept ==
  ASSUME KeptInv, NoneReused', NEW t \in Tabs, Read(t) \/ Unknown(t)
  PROVE  StaysKept
<1>1. /\ sessions' = sessions /\ jar' = jar /\ tab[t].phase = "sent"
      /\ tab \in [Tabs -> WaitingType] /\ Steady' = Steady /\ Steady \subseteq Ids
  BY Parts DEF KeptInv, ReuseInv, Read, Unknown, astray, Steady
<1>2. SameSessions /\ \A j \in Ids : Live(j)' <=> Live(j)
  BY <1>1 DEF SameSessions, Live
<1>3. ASSUME NEW i \in Steady, Live(i)
      PROVE  Kept(i) /\ Known(tab[t].token, t, i) /\ (tab[t].retried => Alone(t, i))
             /\ Finds(i, tab[t].token)
  <2>1. Kept(i) /\ WaitHolds(tab[t], t, i)
    BY <1>3 DEF KeptInv, Kept
  <2>2. Known(tab[t].token, t, i) /\ (tab[t].retried => Alone(t, i))
    BY <1>1, <2>1 DEF WaitHolds
  <2>. QED
    BY <2>1, <2>2 DEF Known, Finds
<1>4. CASE Unknown(t)
  BY <1>1, <1>2, <1>3, <1>4 DEF Unknown, StaysKept
<1>5. CASE Read(t)
  <2>1. PICK j \in Ids :
          /\ Live(j) /\ Finds(j, tab[t].token)
          /\ tab' = [tab EXCEPT ![t] =
                       Waiting(IF WithinGrace(j, tab[t].token) THEN "read" ELSE "reused",
                               tab[t].token, 0, j, sessions[j].current, tab[t].retried, {})]
    BY <1>5 DEF Read
  <2>2. PICK w : w = Waiting(IF WithinGrace(j, tab[t].token) THEN "read" ELSE "reused",
                             tab[t].token, 0, j, sessions[j].current, tab[t].retried, {})
    OBVIOUS
  <2>3. tab' = [tab EXCEPT ![t] = w] /\ tab'[t] = w
    BY <1>1, <2>1, <2>2
  <2>4. /\ w.phase \in {"read", "reused"} /\ w.token = tab[t].token /\ w.id = j
        /\ w.seen = sessions[j].current /\ w.retried = tab[t].retried
    BY <2>2 DEF Waiting
  <2>5. ASSUME NEW i \in Steady, Live(i), Kept(i)
        PROVE  WaitHolds(w, t, i) /\ MayRotate(t, i) /\ jar.refresh # 0
    <3>1. i = j
      BY <1>1, <1>3, <2>1, <2>5 DEF KeptInv, OneOwner, Known, Finds
    <3>2. w.phase = "read"
      BY <1>1, <2>3, <2>4, <2>5, <3>1 DEF NoneReused
    <3>3. WaitHolds(w, t, i)
      BY <1>3, <2>4, <2>5, <3>1, <3>2 DEF WaitHolds
    <3>4. MayRotate(t, i) /\ jar.refresh # 0
      BY <1>1, <2>5 DEF MayRotate, Kept, JarHolds
    <3>. QED
      BY <3>3, <3>4
  <2>. QED
    BY <1>1, <1>2, <2>3, <2>4, <2>5, TabGoesOn
<1>. QED
  BY <1>4, <1>5

\* Who loses the race to rotate tries once more, and nobody is left to win it.
LEMMA LostRaceKept ==
  ASSUME KeptInv, NEW t \in Tabs, LostRace(t)
  PROVE  StaysKept
<1>1. /\ sessions' = sessions /\ jar' = jar /\ tab[t].phase = "read" /\ ~StillCurrent(t)
      /\ tab \in [Tabs -> WaitingType] /\ Steady' = Steady /\ Steady \subseteq Ids
  BY Parts DEF KeptInv, ReuseInv, LostRace, astray, Steady
<1>2. SameSessions /\ \A j \in Ids : Live(j)' <=> Live(j)
  BY <1>1 DEF SameSessions, Live
<1>3. ASSUME NEW i \in Steady, Live(i)
      PROVE  /\ Kept(i) /\ Known(tab[t].token, t, i) /\ ~tab[t].retried /\ Alone(t, i)
             /\ MayRotate(t, i) /\ jar.refresh # 0
  <2>1. Kept(i) /\ WaitHolds(tab[t], t, i)
    BY <1>3 DEF KeptInv, Kept
  <2>2. tab[t].seen # sessions[i].current
    BY <1>1, <1>3, <2>1 DEF WaitHolds, StillCurrent
  <2>3. Known(tab[t].token, t, i) /\ ~tab[t].retried /\ Alone(t, i)
    BY <1>1, <2>1, <2>2 DEF WaitHolds
  <2>. QED
    BY <1>1, <2>1, <2>3 DEF MayRotate, Kept, JarHolds
<1>4. CASE tab[t].retried
  BY <1>1, <1>2, <1>3, <1>4 DEF StaysKept
<1>5. CASE ~tab[t].retried
  <2>1. PICK w : w = Waiting("sent", tab[t].token, 0, 0, 0, TRUE, {})
    OBVIOUS
  <2>2. w.phase = "sent" /\ w.token = tab[t].token
    BY <2>1 DEF Waiting
  <2>3. tab' = [tab EXCEPT ![t] = w]
    BY <1>5, <2>1 DEF LostRace
  <2>4. ASSUME NEW i \in Steady, Live(i), Kept(i)
        PROVE  WaitHolds(w, t, i) /\ MayRotate(t, i) /\ jar.refresh # 0
    BY <1>3, <2>2, <2>4 DEF WaitHolds
  <2>. QED
    BY <1>1, <1>2, <2>2, <2>3, <2>4, TabGoesOn
<1>. QED
  BY <1>4, <1>5

\* A logout ends the session, whatever is being rotated meanwhile.
LEMMA LogoutKept ==
  ASSUME KeptInv, NEW t \in Tabs, Logout(t)
  PROVE  StaysKept
<1>1. /\ sessions \in [Ids -> SessionType] /\ tab[t].phase = "leaving"
      /\ Steady' = Steady /\ Steady \subseteq Ids
  BY Parts DEF KeptInv, ReuseInv, Rows, Logout, astray, Steady
<1>2. ASSUME NEW i \in Steady PROVE ~Live(i)'
  <2>1. CASE Live(i)
    <3>1. WaitHolds(tab[t], t, i)
      BY <2>1 DEF KeptInv, Kept
    <3>2. Left(i, t)
      BY <1>1, <2>1, <3>1 DEF WaitHolds, Known, Left, Finds
    <3>3. sessions'[i].state = "logout"
      BY <1>1, <3>2 DEF Logout, SessionType
    <3>. QED
      BY <3>3 DEF Live
  <2>2. CASE ~Live(i)
    <3>1. sessions'[i] = sessions[i]
      BY <1>1, <2>2 DEF Logout, Left
    <3>. QED
      BY <2>2, <3>1 DEF Live
  <2>. QED
    BY <2>1, <2>2
<1>. QED
  BY <1>1, <1>2 DEF StaysKept

\* The answer that arrives leaves the jar with a token of the session, and if it was
\* replaced the newest is behind it.
LEMMA ReceiveKept ==
  ASSUME KeptInv, Steady' \subseteq Steady, NEW t \in Tabs, Receive(t)
  PROVE  StaysKept
<1>1. /\ sessions' = sessions /\ tab[t].phase = "answered"
      /\ jar'.refresh = tab[t].token /\ jar'.access = tab[t].access
  BY DEF Receive, Jar
<1>2. /\ tab \in [Tabs -> WaitingType] /\ sessions \in [Ids -> SessionType]
      /\ \A i \in Ids : sessions[i].previous # 0 => sessions[i].previous < sessions[i].current
  BY Parts DEF KeptInv, ReuseInv, Rows
<1>3. /\ tab'[t] = Idle
      /\ \A u \in Tabs \ {t} : tab'[u] = [tab[u] EXCEPT !.after = @ \ {t}]
  BY DEF Receive, Rests
<1>4. \A u \in Tabs \ {t} :
        /\ tab'[u].phase = tab[u].phase /\ tab'[u].token = tab[u].token /\ tab'[u].id = tab[u].id
        /\ tab'[u].access = tab[u].access /\ tab'[u].seen = tab[u].seen
        /\ tab'[u].retried = tab[u].retried
  <2>1. SUFFICES ASSUME NEW u \in Tabs \ {t}
                 PROVE  /\ tab'[u].phase = tab[u].phase /\ tab'[u].token = tab[u].token
                        /\ tab'[u].id = tab[u].id /\ tab'[u].access = tab[u].access
                        /\ tab'[u].seen = tab[u].seen /\ tab'[u].retried = tab[u].retried
    OBVIOUS
  <2>2. tab'[u] = [tab[u] EXCEPT !.after = @ \ {t}] /\ tab[u] \in WaitingType
    BY <1>2, <1>3
  <2>. QED
    BY <2>2 DEF WaitingType
<1>5. Idle.phase = "idle"
  BY DEF Idle, Waiting
<1>6. SUFFICES ASSUME NEW i \in Steady', Live(i)' PROVE Kept(i)'
  BY DEF StaysKept
<1>7. i \in Steady /\ i \in Ids /\ Live(i) /\ Kept(i)
  BY <1>1, <1>6 DEF Live, KeptInv, Steady
<1>8. tab[t].access = i /\ tab[t].token # 0
      /\ tab[t].token \in {sessions[i].current, sessions[i].previous}
  BY <1>1, <1>7 DEF Kept, WaitHolds
<1>9. \A u \in Tabs : MayRotate(u, i)' => MayRotate(u, i)
  BY <1>1, <1>3, <1>4, <1>5, <1>8 DEF MayRotate
<1>10. \A u \in Tabs : Alone(u, i) => Alone(u, i)'
  BY <1>9 DEF Alone
<1>11. ASSUME NEW u \in Tabs PROVE WaitHolds(tab[u], u, i)'
  <2>1. CASE u = t
    BY <1>3, <1>5, <2>1 DEF WaitHolds
  <2>2. CASE u # t
    <3>1. WaitHolds(tab[u], u, i)
      BY <1>7 DEF Kept
    <3>. QED
      BY <1>1, <1>4, <1>10, <2>2, <3>1 DEF WaitHolds, Known
  <2>. QED
    BY <2>1, <2>2
<1>12. JarHolds(i)'
  <2>1. tab[t].token # sessions[i].current => Newest(i)' # {}
    <3>1. SUFFICES ASSUME tab[t].token # sessions[i].current PROVE Newest(i)' # {}
      OBVIOUS
    <3>2. sessions[i].previous # 0 /\ tab[t].token = sessions[i].previous
      BY <1>8, <3>1
    <3>3. PICK v \in Newest(i) : t \in tab[v].after
      BY <1>1, <1>7, <3>2 DEF KeptInv, ReuseInv, Followed
    <3>4. v \in Newest(i)'
      BY <1>1, <1>4, <3>1, <3>3 DEF Newest
    <3>. QED
      BY <3>4
  <2>2. sessions[i].current # 0
    BY <1>7 DEF Kept, JarHolds
  <2>. QED
    BY <1>1, <1>8, <2>1, <2>2 DEF JarHolds
<1>. QED
  BY <1>11, <1>12 DEF Kept

\* The answer that is lost is of a session out of order, or was still to be given.
LEMMA LoseKept ==
  ASSUME KeptInv, Steady' \subseteq Steady, NEW t \in Tabs, Lose(t)
  PROVE  StaysKept
<1>1. sessions' = sessions /\ jar' = jar /\ tab[t].phase \notin {"idle", "refused"}
  BY DEF Lose
<1>2. /\ tab \in [Tabs -> WaitingType]
      /\ tab'[t] = Idle
      /\ \A u \in Tabs \ {t} : tab'[u] = [tab[u] EXCEPT !.after = @ \ {t}]
  BY Parts DEF KeptInv, ReuseInv, Lose, Rests
<1>3. ASSUME NEW u \in Tabs \ {t}
      PROVE  /\ tab'[u].phase = tab[u].phase /\ tab'[u].token = tab[u].token
             /\ tab'[u].id = tab[u].id /\ tab'[u].access = tab[u].access
             /\ tab'[u].seen = tab[u].seen /\ tab'[u].retried = tab[u].retried
  <2>1. tab'[u] = [tab[u] EXCEPT !.after = @ \ {t}] /\ tab[u] \in WaitingType
    BY <1>2
  <2>. QED
    BY <2>1 DEF WaitingType
<1>4. Idle.phase = "idle"
  BY DEF Idle, Waiting
<1>5. SUFFICES ASSUME NEW i \in Steady', Live(i)' PROVE Kept(i)'
  BY DEF StaysKept
<1>6. i \in Steady /\ i \in Ids /\ Live(i) /\ Kept(i)
  BY <1>1, <1>5 DEF Live, KeptInv, Steady
<1>7. i \notin Carried({t})
  BY <1>5 DEF Lose, Steady
<1>8. tab[t].phase # "answered"
  <2>1. WaitHolds(tab[t], t, i)
    BY <1>6 DEF Kept
  <2>. QED
    BY <1>6, <1>7, <2>1 DEF WaitHolds, Carried, Finds
<1>9. tab[t].phase \in {"sent", "read", "leaving"}
  <2>1. WaitHolds(tab[t], t, i)
    BY <1>6 DEF Kept
  <2>. QED
    BY <1>1, <1>2, <1>8, <2>1 DEF WaitingType, Phases, WaitHolds
<1>10. \A u \in Tabs : MayRotate(u, i)' => MayRotate(u, i)
  BY <1>1, <1>2, <1>3, <1>4, <1>9 DEF MayRotate
<1>11. \A u \in Tabs : Alone(u, i) => Alone(u, i)'
  BY <1>10 DEF Alone
<1>12. ASSUME NEW u \in Tabs PROVE WaitHolds(tab[u], u, i)'
  <2>1. CASE u = t
    BY <1>2, <1>4, <2>1 DEF WaitHolds
  <2>2. CASE u # t
    <3>1. WaitHolds(tab[u], u, i)
      BY <1>6 DEF Kept
    <3>. QED
      BY <1>1, <1>3, <1>11, <2>2, <3>1 DEF WaitHolds, Known
  <2>. QED
    BY <2>1, <2>2
<1>13. JarHolds(i)'
  <2>1. Newest(i) \subseteq Newest(i)'
    BY <1>1, <1>3, <1>8 DEF Newest
  <2>2. JarHolds(i) /\ jar.refresh # 0
    BY <1>6, <1>9 DEF Kept, JarHolds
  <2>. QED
    BY <1>1, <1>2, <1>3, <1>4, <1>9, <2>1, <2>2 DEF JarHolds
<1>. QED
  BY <1>12, <1>13 DEF Kept

\* A rotation: whoever else is refreshing has the token it replaces, and is the last.
LEMMA RotateKept ==
  ASSUME TwoTabs, KeptInv, NEW t \in Tabs, Rotate(t)
  PROVE  StaysKept
<1>. DEFINE new == issued + 1
<1>1. PICK i \in Ids : i = tab[t].id
  BY DEF Rotate, StillCurrent, Live
<1>2. /\ Live(i) /\ tab[t].phase = "read" /\ Steady' = Steady /\ Steady \subseteq Ids /\ sessions[i].current = tab[t].seen
      /\ sessions' = [sessions EXCEPT ![i] = Session("live", new, tab[t].seen, TRUE)]
      /\ tab' = [tab EXCEPT ![t] = Waiting("answered", new, i, 0, 0, FALSE, Answered)]
      /\ jar' = jar
  BY <1>1 DEF Rotate, StillCurrent, Answer, astray, Steady
<1>3. /\ issued \in Nat /\ tab \in [Tabs -> WaitingType] /\ sessions \in [Ids -> SessionType]
      /\ \A j \in Ids : sessions[j].previous # 0 => sessions[j].previous < sessions[j].current
  BY Parts DEF KeptInv, ReuseInv, Rows
<1>4. /\ sessions'[i].current = new /\ sessions'[i].previous = sessions[i].current
      /\ \A j \in Ids \ {i} : sessions'[j] = sessions[j]
  BY <1>2, <1>3 DEF Session
<1>5. /\ tab'[t].phase = "answered" /\ tab'[t].token = new /\ tab'[t].access = i
      /\ \A u \in Tabs \ {t} : tab'[u] = tab[u]
  BY <1>2, <1>3 DEF Waiting
<1>6. new # 0 /\ sessions[i].current # new
  BY <1>3 DEF SessionType, Issued
<1>7. SUFFICES ASSUME NEW j \in Steady', Live(j)' PROVE Kept(j)'
  BY DEF StaysKept
<1>8. Kept(i) /\ i \in Steady /\ j = i
  <2>1. Live(j) /\ j \in Steady /\ j \in Ids
    BY <1>2, <1>4, <1>7 DEF Live
  <2>2. Kept(j) /\ WaitHolds(tab[t], t, j)
    BY <2>1 DEF KeptInv, Kept
  <2>3. j = i
    BY <1>1, <1>2, <2>2 DEF WaitHolds
  <2>. QED
    BY <2>1, <2>2, <2>3
<1>9. MayRotate(t, i)
  BY <1>2 DEF MayRotate
<1>10. ASSUME NEW u \in Tabs, u # t PROVE ~Alone(u, i) /\ Alone(u, i)'
  <2>1. \A v \in Tabs : v # u => v = t
    BY <1>10 DEF TwoTabs
  <2>2. ~MayRotate(t, i)'
    BY <1>5 DEF MayRotate
  <2>. QED
    BY <1>9, <1>10, <2>1, <2>2 DEF Alone
<1>11. ASSUME NEW u \in Tabs PROVE WaitHolds(tab[u], u, i)'
  <2>1. CASE u = t
    BY <1>4, <1>5, <1>6, <2>1 DEF WaitHolds
  <2>2. CASE u # t
    <3>1. WaitHolds(tab[u], u, i) /\ tab'[u] = tab[u]
      BY <1>5, <1>8, <2>2 DEF Kept
    <3>2. ~Alone(u, i) /\ Alone(u, i)'
      BY <1>10, <2>2
    <3>3. tab[u].phase \in {"sent", "read"} =>
            tab[u].token # 0 /\ tab[u].token = sessions[i].current
      BY <3>1, <3>2 DEF WaitHolds, Known
    <3>4. tab[u].phase = "leaving" =>
            tab[u].access = i \/ (tab[u].token # 0 /\ tab[u].token = sessions[i].current)
      BY <3>1, <3>2 DEF WaitHolds, Known
    <3>5. tab[u].phase = "answered" => tab[u].token = sessions[i].current
      <4>1. SUFFICES ASSUME tab[u].phase = "answered", tab[u].token # sessions[i].current
                     PROVE  FALSE
        OBVIOUS
      <4>2. tab[u].token = sessions[i].previous /\ sessions[i].previous # 0
        BY <3>1, <4>1 DEF WaitHolds
      <4>3. PICK v \in Newest(i) : u \in tab[v].after
        BY <1>8, <4>1, <4>2 DEF KeptInv, ReuseInv, Followed
      <4>4. v \in Tabs /\ v # t /\ v # u
        BY <1>2, <4>1, <4>3 DEF Newest
      <4>. QED
        BY <2>2, <4>4 DEF TwoTabs
    <3>6. tab[u].phase = "read" =>
            tab[u].id = i /\ tab[u].seen = sessions[i].current /\ ~tab[u].retried
      BY <3>1, <3>2 DEF WaitHolds
    <3>7. tab[u].phase = "answered" => tab[u].access = i /\ tab[u].token # 0
      BY <3>1 DEF WaitHolds
    <3>. QED
      BY <1>4, <1>6, <3>1, <3>2, <3>3, <3>4, <3>5, <3>6, <3>7 DEF WaitHolds, Known
  <2>. QED
    BY <2>1, <2>2
<1>12. JarHolds(i)'
  <2>1. jar.refresh # 0 /\ jar.refresh \in {sessions[i].current, sessions[i].previous}
    BY <1>2, <1>8 DEF Kept, JarHolds
  <2>2. CASE jar.refresh # sessions[i].current
    <3>1. PICK v \in Tabs : tab[v].phase = "answered"
      BY <1>8, <2>2 DEF Kept, JarHolds, Newest
    <3>2. \A u \in Tabs : u = t \/ u = v
      BY <1>2, <3>1 DEF TwoTabs
    <3>3. \A u \in Tabs : tab'[u].phase = "answered"
      BY <1>5, <3>1, <3>2
    <3>4. t \in Newest(i)'
      BY <1>4, <1>5 DEF Newest
    <3>. QED
      BY <1>2, <1>4, <1>6, <2>1, <3>3, <3>4 DEF JarHolds
  <2>3. CASE jar.refresh = sessions[i].current
    <3>1. t \in Newest(i)'
      BY <1>4, <1>5 DEF Newest
    <3>. QED
      BY <1>2, <1>4, <1>6, <2>1, <2>3, <3>1 DEF JarHolds
  <2>. QED
    BY <2>2, <2>3
<1>13. Kept(i)'
  BY <1>8, <1>11, <1>12 DEF Kept
<1>. QED
  BY <1>8, <1>13

\* Nobody logs in over a session that is alive: its token would be in the jar.
LEMMA LoginKept ==
  ASSUME KeptInv, NEW t \in Tabs, Login(t)
  PROVE  StaysKept
<1>. DEFINE new == issued + 1
<1>1. PICK i \in Ids : /\ sessions' = [sessions EXCEPT ![i] = Session("live", new, 0, FALSE)]
                       /\ Answer(t, new, i)
  BY DEF Login
<1>2. /\ issued \in Nat /\ tab \in [Tabs -> WaitingType] /\ sessions \in [Ids -> SessionType]
      /\ jar' = jar /\ jar.refresh = 0 /\ \A u \in Tabs : tab[u].phase = "idle"
      /\ Steady' = Steady /\ Steady \subseteq Ids
  BY Parts DEF KeptInv, ReuseInv, Rows, Login, Quiet, astray, Steady
<1>3. \A j \in Steady : ~Live(j)
  BY <1>2 DEF KeptInv, Kept, JarHolds, Newest
<1>4. /\ sessions'[i].current = new /\ sessions'[i].previous = 0
      /\ \A j \in Ids \ {i} : sessions'[j] = sessions[j]
  BY <1>1, <1>2 DEF Session
<1>5. \A j \in Steady' : Live(j)' => j = i
  BY <1>2, <1>3, <1>4 DEF Live
<1>6. /\ tab'[t].phase = "answered" /\ tab'[t].token = new /\ tab'[t].access = i
      /\ \A u \in Tabs \ {t} : tab'[u].phase = "idle"
  BY <1>1, <1>2 DEF Answer, Waiting
<1>7. new # 0
  BY <1>2
<1>8. t \in Newest(i)'
  BY <1>4, <1>6 DEF Newest
<1>9. JarHolds(i)'
  BY <1>2, <1>4, <1>6, <1>7, <1>8 DEF JarHolds
<1>10. ASSUME NEW u \in Tabs PROVE WaitHolds(tab[u], u, i)'
  BY <1>4, <1>6, <1>7 DEF WaitHolds
<1>. QED
  BY <1>5, <1>9, <1>10 DEF StaysKept, Kept

\* No session has another token.
TokensStand ==
  \A i \in Ids : /\ sessions'[i].current = sessions[i].current
                 /\ sessions'[i].previous = sessions[i].previous

LEMMA TokensStay ==
  ASSUME sessions \in [Ids -> SessionType], NEW k \in Ids, GraceEnds(k) \/ Ends(k)
  PROVE  TokensStand
<1>1. SUFFICES ASSUME NEW i \in Ids
               PROVE  /\ sessions'[i].current = sessions[i].current
                      /\ sessions'[i].previous = sessions[i].previous
  BY DEF TokensStand
<1>2. sessions[i] \in SessionType /\ sessions[k] \in SessionType
  OBVIOUS
<1>3. CASE i = k
  <2>1. \/ sessions'[i] = [sessions[i] EXCEPT !.fresh = FALSE]
        \/ sessions'[i] = [sessions[i] EXCEPT !.state = IF @ = "live" THEN "ended" ELSE @]
    BY <1>3 DEF GraceEnds, Ends, Revoked
  <2>. QED
    BY <1>2, <2>1 DEF SessionType
<1>4. CASE i # k
  <2>1. sessions'[i] = sessions[i]
    BY <1>4 DEF GraceEnds, Ends, Revoked
  <2>. QED
    BY <2>1
<1>. QED
  BY <1>3, <1>4

\* A session may end while tabs wait; a cookie and the grace only when they are quiet.
LEMMA TimeKept ==
  ASSUME KeptInv, AccessExpires \/ \E i \in Ids : GraceEnds(i) \/ Ends(i)
  PROVE  StaysKept
<1>1. /\ tab' = tab /\ sessions \in [Ids -> SessionType] /\ jar \in JarType
      /\ tab \in [Tabs -> WaitingType] /\ Steady' = Steady /\ Steady \subseteq Ids
  BY Parts DEF KeptInv, ReuseInv, Rows, AccessExpires, GraceEnds, Ends, astray, Steady
<1>2. jar'.refresh = jar.refresh /\ (jar'.access = jar.access \/ Quiet)
  BY <1>1 DEF JarType, AccessExpires, GraceEnds, Ends
<1>3. TokensStand
  <2>1. ASSUME NEW k \in Ids, GraceEnds(k) \/ Ends(k) PROVE TokensStand
    BY <1>1, <2>1, TokensStay
  <2>2. AccessExpires => TokensStand
    BY DEF AccessExpires, TokensStand
  <2>. QED
    BY <2>1, <2>2
<1>4. \A j \in Ids : Live(j)' => Live(j)
  BY <1>1 DEF SessionType, Live, AccessExpires, GraceEnds, Ends, Revoked
<1>5. SUFFICES ASSUME NEW i \in Steady', Live(i)' PROVE Kept(i)'
  BY DEF StaysKept
<1>6. i \in Ids /\ Kept(i)
  BY <1>1, <1>4, <1>5 DEF KeptInv
<1>7. JarHolds(i)'
  BY <1>1, <1>2, <1>3, <1>6 DEF Kept, JarHolds, TokensStand, Newest
<1>8. ASSUME NEW u \in Tabs PROVE WaitHolds(tab[u], u, i)'
  <2>1. CASE Quiet
    BY <1>1, <2>1 DEF WaitHolds, Quiet
  <2>2. CASE ~Quiet
    <3>1. WaitHolds(tab[u], u, i) /\ (Alone(u, i) => Alone(u, i)')
      BY <1>1, <1>2, <1>6, <2>2 DEF Kept, Alone, MayRotate
    <3>. QED
      BY <1>1, <1>3, <1>6, <3>1 DEF WaitHolds, Known, TokensStand
  <2>. QED
    BY <2>1, <2>2
<1>. QED
  BY <1>7, <1>8 DEF Kept

\* A token that is issued is new, and a rotation keeps the one it replaces in its
\* session.
LEMMA OwnersStay ==
  ASSUME KeptInv, [Next]_vars
  PROVE  OneOwner'
<1>1. issued \in Nat /\ sessions \in [Ids -> SessionType] /\ tab \in [Tabs -> WaitingType]
  BY Parts DEF KeptInv, ReuseInv, Rows
<1>2. CASE TokensStand
  BY <1>2 DEF KeptInv, OneOwner, Finds, TokensStand
<1>3. ASSUME NEW i \in Ids, NEW state, NEW previous \in {0, sessions[i].current}, NEW fresh,
             sessions' = [sessions EXCEPT ![i] = Session(state, issued + 1, previous, fresh)]
      PROVE  OneOwner'
  <2>1. /\ sessions'[i].current = issued + 1 /\ sessions'[i].previous = previous
        /\ \A j \in Ids \ {i} : sessions'[j] = sessions[j]
    BY <1>1, <1>3 DEF Session
  <2>2. \A j \in Ids : sessions[j].current # issued + 1 /\ sessions[j].previous # issued + 1
    BY <1>1 DEF SessionType, Issued
  <2>3. ASSUME NEW j \in Ids, NEW k \in Ids, j # k
        PROVE  ~Finds(j, sessions[k].current)' /\ ~Finds(j, sessions[k].previous)'
    <3>1. ~Finds(j, sessions[k].current) /\ ~Finds(j, sessions[k].previous)
          /\ ~Finds(k, sessions[j].current)
      BY <2>3 DEF KeptInv, OneOwner
    <3>2. CASE j = i
      BY <2>1, <2>2, <2>3, <3>1, <3>2 DEF Finds
    <3>3. CASE k = i
      BY <2>1, <2>2, <2>3, <3>1, <3>3 DEF Finds
    <3>4. CASE j # i /\ k # i
      BY <2>1, <2>3, <3>1, <3>4 DEF Finds
    <3>. QED
      BY <3>2, <3>3, <3>4
  <2>4. SUFFICES ASSUME NEW j \in Ids, NEW k \in Ids,
                        (Finds(j, sessions[k].current) \/ Finds(j, sessions[k].previous))'
                 PROVE  j = k
    BY DEF OneOwner
  <2>. QED
    BY <2>3, <2>4
<1>4. ASSUME NEW t \in Tabs, Login(t) PROVE OneOwner'
  <2>1. PICK i \in Ids : sessions' = [sessions EXCEPT ![i] = Session("live", issued + 1, 0, FALSE)]
    BY <1>4 DEF Login
  <2>. QED
    BY <1>3, <2>1
<1>5. ASSUME NEW t \in Tabs, Rotate(t) PROVE OneOwner'
  <2>1. PICK i \in Ids : i = tab[t].id
    BY <1>5 DEF Rotate, StillCurrent, Live
  <2>2. /\ tab[t].seen = sessions[i].current
        /\ sessions' = [sessions EXCEPT ![i] = Session("live", issued + 1, tab[t].seen, TRUE)]
    BY <1>5, <2>1 DEF Rotate, StillCurrent
  <2>3. sessions[i].current \in {0, sessions[i].current}
    OBVIOUS
  <2>. QED
    BY <1>3, <2>2, <2>3
<1>6. ASSUME NEW t \in Tabs, Reuse(t) PROVE TokensStand
  <2>1. issued' = issued /\ "reuse" \in States /\ tab[t].id \in Ids \cup {0}
    BY <1>1, <1>6 DEF Reuse, States, WaitingType
  <2>. QED
    BY <1>6, <2>1, RevokedTyped DEF Reuse, TokensStand, KeptInv, ReuseInv
<1>7. ASSUME NEW t \in Tabs, Logout(t) PROVE TokensStand
  BY <1>1, <1>7 DEF Logout, TokensStand, SessionType
<1>8. ASSUME NEW k \in Ids, GraceEnds(k) \/ Ends(k) PROVE TokensStand
  BY <1>1, <1>8, TokensStay
<1>9. sessions' = sessions => TokensStand
  BY DEF TokensStand
<1>. QED
  BY <1>2, <1>4, <1>5, <1>6, <1>7, <1>8, <1>9 DEF Next, vars, Refused, Send, Receive, Lose, Leave,
     Answers, Read, Unknown, LostRace, AccessExpires

\* Whatever anybody does, a session that lives is kept.
LEMMA KeptStep ==
  ASSUME SessionsAssumption, TwoTabs, KeptInv, [Next]_vars
  PROVE  KeptInv'
<1>1. ReuseInv' /\ Steady' \subseteq Steady
  BY ReuseStep, HistoryGrows, Parts DEF KeptInv, ReuseInv
<1>2. ASSUME UNCHANGED vars PROVE StaysKept
  <2>1. sessions' = sessions /\ jar' = jar /\ tab' = tab
    BY <1>2 DEF vars
  <2>2. SUFFICES ASSUME NEW i \in Steady', Live(i)' PROVE Kept(i)'
    BY DEF StaysKept
  <2>3. Kept(i)
    BY <1>1, <2>1, <2>2 DEF KeptInv, Live
  <2>4. JarHolds(i)'
    BY <2>1, <2>3 DEF Kept, JarHolds, Newest
  <2>5. ASSUME NEW u \in Tabs PROVE WaitHolds(tab[u], u, i)'
    <3>1. WaitHolds(tab[u], u, i)
      BY <2>3 DEF Kept
    <3>. QED
      BY <2>1, <3>1 DEF WaitHolds, Known, Alone, MayRotate
  <2>. QED
    BY <2>4, <2>5 DEF Kept
<1>3. ASSUME NEW t \in Tabs, Reuse(t) PROVE StaysKept
  <2>1. ASSUME NEW i \in Steady', Live(i)' PROVE FALSE
    <3>1. i \in Steady /\ Live(i)
      BY <1>1, <1>3, <2>1 DEF Reuse, Revoked, Live, Steady, KeptInv, ReuseInv, TypeOK
    <3>2. WaitHolds(tab[t], t, i)
      BY <3>1 DEF KeptInv, Kept
    <3>. QED
      BY <1>3, <3>2 DEF Reuse, WaitHolds
  <2>. QED
    BY <2>1 DEF StaysKept
<1>4. ASSUME Next PROVE StaysKept
  <2>1. NoneReused'
    BY <1>1 DEF ReuseInv
  <2>2. ASSUME NEW t \in Tabs, Answers(t) PROVE StaysKept
    BY <1>3, <2>1, <2>2, ReadsKept, LostRaceKept, LogoutKept, RotateKept DEF Answers
  <2>3. ASSUME NEW t \in Tabs, Refused(t) \/ Send(t) \/ Receive(t) \/ Lose(t) \/ Login(t)
                              \/ Leave(t)
        PROVE  StaysKept
    BY <1>1, <2>3, AsksKept, ReceiveKept, LoseKept, LoginKept
  <2>. QED
    BY <1>4, <2>2, <2>3, TimeKept DEF Next
<1>5. StaysKept
  BY <1>2, <1>4
<1>. QED
  BY <1>1, <1>5, OwnersStay DEF KeptInv, StaysKept

\* Nobody is thrown out: whatever two tabs of a browser do at once (refresh, leave,
\* wait, auth.service.ts:166), a session that lives when they are quiet, and of which no
\* answer was lost or overtaken, is the one whose last token is in the jar.
THEOREM TwoTabsStayIn ==
  ASSUME SessionsAssumption, TwoTabs
  PROVE  Spec => []NobodyIsThrownOut
<1>1. Init => KeptInv
  <2>1. Init => ReuseInv
    BY InitTyped DEF Init, ReuseInv, Followed, Forgotten, NoneReused, ReuseIsExplained, Steady,
       NoSession, Session, Idle, Waiting
  <2>2. Init => OneOwner /\ \A i \in Ids : ~Live(i)
    BY DEF Init, Live, OneOwner, Finds, NoSession, Session
  <2>. QED
    BY <2>1, <2>2 DEF KeptInv, Steady
<1>2. KeptInv => NobodyIsThrownOut
  BY DEF KeptInv, Kept, JarHolds, Newest, NobodyIsThrownOut, Quiet
<1>. QED
  BY <1>1, <1>2, KeptStep, PTL DEF Spec

-----------------------------------------------------------------------------
(* The users and their sessions, Accounts.tla, for any number of them, of   *)
(* requests and of logins: what changes a user ends the sessions of before, *)
(* but for the three ways in which one escapes, each at its step.           *)

CONSTANTS Users, Founders, Requests, MaxLogins, MaxChanges
VARIABLES users, logins, request, dead, late, spared

Company == INSTANCE Accounts WITH MaxSessions <- MaxLogins, sessions <- logins

-----------------------------------------------------------------------------
(* Types.                                                                   *)

UserType == [role : {"", "ADMINISTRADOR", "VENDEDOR"}, active : BOOLEAN, era : Nat]

SessionTypeOfUsers ==
  [user : SUBSET Users, live : BOOLEAN, role : {"", "ADMINISTRADOR", "VENDEDOR"}, era : Nat]

RequestType ==
  [step : {"idle", "open", "sign", "end", "count", "write", "change"},
   op : Company!Changes \cup {"", "login", "refresh", "password"},
   user : SUBSET Users, session : Company!Ids \cup {0}, seen : UserType]

TypedUsers ==
  /\ users \in [Users -> UserType]
  /\ logins \in [Company!Ids -> SessionTypeOfUsers]
  /\ request \in [Requests -> RequestType]

LEMMA FirstTyped ==
  /\ Company!Nobody \in SessionTypeOfUsers /\ Company!Nobody.user = {} /\ ~Company!Nobody.live
  /\ Company!Done \in RequestType /\ Company!Done.step = "idle" /\ Company!Done.op = "" /\ Company!Done.user = {}
  /\ Company!NoRead \in UserType
<1>1. Company!NoRead \in UserType
  BY DEF Company!NoRead, UserType
<1>. QED
  BY <1>1 DEF Company!Nobody, SessionTypeOfUsers, Company!Done, Company!Asked, RequestType

\* A new era, and nothing else of the user.
LEMMA EraIs ==
  ASSUME NEW a \in UserType
  PROVE  /\ [a EXCEPT !.era = @ + 1] \in UserType
         /\ [a EXCEPT !.era = @ + 1].era = a.era + 1
         /\ [a EXCEPT !.era = @ + 1].role = a.role
         /\ [a EXCEPT !.era = @ + 1].active <=> a.active
<1>1. PICK n : n = a.era + 1
  OBVIOUS
<1>2. n \in Nat
  <2>1. a.era \in Nat
    BY DEF UserType
  <2>. QED
    BY <1>1, <2>1
<1>3. PICK b : b = [a EXCEPT !.era = n]
  OBVIOUS
<1>4. b \in UserType /\ b.era = n /\ b.role = a.role
  BY <1>2, <1>3 DEF UserType
<1>5. b.active <=> a.active
  BY <1>2, <1>3 DEF UserType
<1>6. b = [a EXCEPT !.era = @ + 1]
  BY <1>1, <1>3
<1>. QED
  BY <1>1, <1>4, <1>5, <1>6

\* A form changes a user by what it says of their role and of their being active.
WrittenAs(a, op) ==
  /\ Company!Written(a, op) \in UserType /\ Company!Written(a, op).era = a.era
  /\ op = "demote" => Company!Written(a, op).role = "VENDEDOR"
  /\ op = "promote" => Company!Written(a, op).role = "ADMINISTRADOR"
  /\ op \notin {"demote", "promote"} => Company!Written(a, op).role = a.role
  /\ op = "deactivate" => Company!Written(a, op).active = FALSE
  /\ op = "activate" => Company!Written(a, op).active = TRUE
  /\ op \notin {"activate", "deactivate"} => Company!Written(a, op).active = a.active

LEMMA WrittenIs ==
  ASSUME NEW a \in UserType, NEW op \in Company!Changes
  PROVE  WrittenAs(a, op)
<1>. USE DEF WrittenAs
<1>1. CASE op = "deactivate"
  <2>1. Company!Written(a, op) = [a EXCEPT !.active = FALSE]
    BY <1>1, Zenon DEF Company!Written
  <2>. QED
    BY <1>1, <2>1 DEF UserType
<1>2. CASE op = "activate"
  <2>1. Company!Written(a, op) = [a EXCEPT !.active = TRUE]
    BY <1>2, Zenon DEF Company!Written
  <2>. QED
    BY <1>2, <2>1 DEF UserType
<1>3. CASE op = "demote"
  <2>1. Company!Written(a, op) = [a EXCEPT !.role = "VENDEDOR"]
    BY <1>3, Zenon DEF Company!Written
  <2>. QED
    BY <1>3, <2>1 DEF UserType
<1>4. CASE op = "promote"
  <2>1. Company!Written(a, op) = [a EXCEPT !.role = "ADMINISTRADOR"]
    BY <1>4, Zenon DEF Company!Written
  <2>. QED
    BY <1>4, <2>1 DEF UserType
<1>5. CASE op = "reset"
  <2>1. Company!Written(a, op) = a
    BY <1>5, Zenon DEF Company!Written
  <2>. QED
    BY <1>5, <2>1 DEF UserType
<1>. QED
  BY <1>1, <1>2, <1>3, <1>4, <1>5 DEF Company!Changes

\* Two users of one role, both active or neither, are changed alike.
LEMMA WrittenDiffers ==
  ASSUME NEW a \in UserType, NEW b \in UserType, NEW op \in Company!Changes,
         a.role = b.role, a.active = b.active
  PROVE  Company!Written(a, op) # a <=> Company!Written(b, op) # b
<1>1. WrittenAs(a, op) /\ WrittenAs(b, op)
  BY WrittenIs
<1>2. ASSUME NEW c \in UserType, NEW d \in UserType, c.era = d.era, c.role = d.role, c.active = d.active
      PROVE  c = d
  <2>1. c = [role |-> c.role, active |-> c.active, era |-> c.era]
    BY DEF UserType
  <2>2. d = [role |-> d.role, active |-> d.active, era |-> d.era]
    BY DEF UserType
  <2>. QED
    BY <1>2, <2>1, <2>2, Zenon
<1>3. /\ Company!Written(a, op) \in UserType /\ Company!Written(a, op).era = a.era
      /\ Company!Written(b, op) \in UserType /\ Company!Written(b, op).era = b.era
  BY <1>1 DEF WrittenAs
<1>4. Company!Written(a, op).role = Company!Written(b, op).role
  <2>1. CASE op = "demote"
    <3>1. Company!Written(a, op).role = "VENDEDOR"
      BY <1>1, <2>1, Zenon DEF WrittenAs
    <3>2. Company!Written(b, op).role = "VENDEDOR"
      BY <1>1, <2>1, Zenon DEF WrittenAs
    <3>. QED
      BY <3>1, <3>2, Zenon
  <2>2. CASE op = "promote"
    <3>1. Company!Written(a, op).role = "ADMINISTRADOR"
      BY <1>1, <2>2, Zenon DEF WrittenAs
    <3>2. Company!Written(b, op).role = "ADMINISTRADOR"
      BY <1>1, <2>2, Zenon DEF WrittenAs
    <3>. QED
      BY <3>1, <3>2, Zenon
  <2>3. CASE op \notin {"demote", "promote"}
    <3>1. Company!Written(a, op).role = a.role
      BY <1>1, <2>3, Zenon DEF WrittenAs
    <3>2. Company!Written(b, op).role = b.role
      BY <1>1, <2>3, Zenon DEF WrittenAs
    <3>. QED
      BY <3>1, <3>2, Zenon
  <2>. QED
    BY <2>1, <2>2, <2>3
<1>5. Company!Written(a, op).active = Company!Written(b, op).active
  <2>1. CASE op = "deactivate"
    <3>1. Company!Written(a, op).active = FALSE
      BY <1>1, <2>1, Zenon DEF WrittenAs
    <3>2. Company!Written(b, op).active = FALSE
      BY <1>1, <2>1, Zenon DEF WrittenAs
    <3>. QED
      BY <3>1, <3>2, Zenon
  <2>2. CASE op = "activate"
    <3>1. Company!Written(a, op).active = TRUE
      BY <1>1, <2>2, Zenon DEF WrittenAs
    <3>2. Company!Written(b, op).active = TRUE
      BY <1>1, <2>2, Zenon DEF WrittenAs
    <3>. QED
      BY <3>1, <3>2, Zenon
  <2>3. CASE op \notin {"activate", "deactivate"}
    <3>1. Company!Written(a, op).active = a.active
      BY <1>1, <2>3, Zenon DEF WrittenAs
    <3>2. Company!Written(b, op).active = b.active
      BY <1>1, <2>3, Zenon DEF WrittenAs
    <3>. QED
      BY <3>1, <3>2, Zenon
  <2>. QED
    BY <2>1, <2>2, <2>3
<1>. QED
  BY <1>2, <1>3, <1>4, <1>5, Zenon

-----------------------------------------------------------------------------
(* The inductive invariant.                                                 *)

\* A session and a request are of one user.
OneUser ==
  /\ \A i \in Company!Ids : \A u, v \in logins[i].user : u = v
  /\ \A r \in Requests : \A u, v \in request[r].user : u = v
  /\ \A i \in Company!Ids : logins[i].live => logins[i].user # {}

\* What a request has read and needs to be so.
Reads(r) ==
  /\ request[r].step = "open" =>
       request[r].user # {} /\ request[r].op = "login"
  /\ request[r].step \in {"count", "write"} =>
       request[r].op \in Company!Changes /\ request[r].session = 0
  /\ request[r].step = "change" =>
       /\ request[r].op = "password" /\ request[r].session \in Company!Ids /\ request[r].user # {}
       /\ logins[request[r].session].user = request[r].user

IInv ==
  TypedUsers /\ OneUser /\ (\A r \in Requests : Reads(r)) /\ Company!ChangesEndSessions

LEMMA Starts == Company!Init => IInv
<1>. SUFFICES ASSUME Company!Init PROVE IInv
  OBVIOUS
<1>1. TypedUsers
  BY FirstTyped DEF Company!Init, TypedUsers, UserType
<1>2. \A i \in Company!Ids : logins[i].user = {} /\ ~logins[i].live
  BY FirstTyped DEF Company!Init
<1>3. \A r \in Requests : request[r].step = "idle" /\ request[r].op = "" /\ request[r].user = {}
  BY FirstTyped DEF Company!Init
<1>4. OneUser /\ Company!ChangesEndSessions
  BY <1>2, <1>3 DEF OneUser, Company!ChangesEndSessions
<1>5. \A r \in Requests : Reads(r)
  BY <1>3 DEF Reads
<1>. QED
  BY <1>1, <1>4, <1>5 DEF IInv

-----------------------------------------------------------------------------
(* Steps of a request that write nothing.                                   *)

\* The next of a request, given with what it has to be.
LEMMA RequestStep ==
  ASSUME IInv, NEW r \in Requests, NEW next \in RequestType, Company!Goes(r, next),
         UNCHANGED <<users, logins, late, spared>>, dead \subseteq dead',
         request[r].step = "end" => request[r].user \subseteq dead',
         \A u, v \in next.user : u = v,
         next.step = "open" => next.user # {} /\ next.op = "login",
         next.step \in {"count", "write"} => next.op \in Company!Changes /\ next.session = 0,
         next.step = "change" =>
           /\ next.op = "password" /\ next.session \in Company!Ids /\ next.user # {}
           /\ logins[next.session].user = next.user
  PROVE  IInv'
<1>1. /\ request'[r] = next /\ \A q \in Requests : q # r => request'[q] = request[q]
      /\ TypedUsers'
  BY DEF IInv, TypedUsers, Company!Goes
<1>2. OneUser'
  BY <1>1 DEF IInv, OneUser
<1>3. ASSUME NEW q \in Requests PROVE Reads(q)'
  <2>1. CASE q = r
    BY <1>1, <2>1 DEF Reads
  <2>2. CASE q # r
    BY <1>1, <2>2 DEF IInv, Reads
  <2>. QED
    BY <2>1, <2>2
<1>4. Company!ChangesEndSessions'
  <2>. SUFFICES ASSUME NEW i \in Company!Ids, NEW u \in logins[i].user,
                       logins[i].live, logins[i].era < users[u].era,
                       u \notin dead', i \notin late, i \notin spared
                PROVE  \E q \in Requests : /\ request'[q].step = "end" /\ u \in request'[q].user
                                           /\ request'[q].session # i
    BY DEF Company!ChangesEndSessions
  <2>1. PICK q \in Requests : /\ request[q].step = "end" /\ u \in request[q].user
                              /\ request[q].session # i
    BY DEF IInv, Company!ChangesEndSessions
  <2>2. q # r
    BY <2>1
  <2>. QED
    BY <1>1, <2>1, <2>2
<1>. QED
  BY <1>1, <1>2, <1>3, <1>4 DEF IInv

LEMMA LoginKeepsOfUsers ==
  ASSUME IInv, NEW r \in Requests, NEW u \in Users, Company!Login(r, u)
  PROVE  IInv'
<1>1. PICK next : next = Company!Asked("open", "login", {u}, 0, users[u])
  OBVIOUS
<1>2. users[u] \in UserType
  BY DEF IInv, TypedUsers
<1>3. /\ next \in RequestType /\ next.step = "open" /\ next.op = "login" /\ next.user = {u}
      /\ next.seen = users[u]
  BY <1>1, <1>2 DEF Company!Asked, RequestType
<1>4. request[r].step = "idle" /\ Company!Goes(r, next) /\ UNCHANGED <<users, logins, dead, late, spared>>
  BY <1>1, FirstTyped DEF Company!Login, Company!unfelt
<1>. QED
  BY <1>3, <1>4, RequestStep

LEMMA RefreshKeeps ==
  ASSUME IInv, NEW r \in Requests, NEW i \in Company!Ids, Company!Refresh(r, i)
  PROVE  IInv'
<1>1. PICK seen : seen = [Company!NoRead EXCEPT !.role = users[Company!Owner(i)].role]
  OBVIOUS
<1>2. PICK next : next = IF users[Company!Owner(i)].active
                         THEN Company!Asked("sign", "refresh", logins[i].user, i, seen)
                         ELSE Company!Asked("end", "refresh", logins[i].user, 0, Company!NoRead)
  OBVIOUS
<1>3. logins[i] \in SessionTypeOfUsers /\ logins[i].user # {}
  BY DEF IInv, TypedUsers, OneUser, Company!Refresh
<1>4. Company!Owner(i) \in logins[i].user /\ Company!Owner(i) \in Users
  BY <1>3 DEF Company!Owner, SessionTypeOfUsers
<1>5. users[Company!Owner(i)] \in UserType
  BY <1>4 DEF IInv, TypedUsers
<1>6. seen \in UserType
  BY <1>1, <1>5, FirstTyped DEF UserType
<1>7. /\ next \in RequestType /\ next.step \in {"sign", "end"} /\ next.op = "refresh"
      /\ next.user = logins[i].user
  BY <1>2, <1>3, <1>6, FirstTyped DEF Company!Asked, RequestType, SessionTypeOfUsers
<1>8. request[r].step = "idle" /\ Company!Goes(r, next) /\ UNCHANGED <<users, logins, dead, late, spared>>
  BY <1>1, <1>2, FirstTyped DEF Company!Refresh, Company!unfelt
<1>9. \A u, v \in next.user : u = v
  BY <1>7 DEF IInv, OneUser
<1>. QED
  BY <1>7, <1>8, <1>9, RequestStep

LEMMA ChangePasswordKeeps ==
  ASSUME IInv, NEW r \in Requests, NEW i \in Company!Ids, Company!ChangePassword(r, i)
  PROVE  IInv'
<1>1. PICK next : next = Company!Asked("change", "password", logins[i].user, i, Company!NoRead)
  OBVIOUS
<1>2. logins[i] \in SessionTypeOfUsers /\ logins[i].user # {}
  BY DEF IInv, TypedUsers, OneUser, Company!ChangePassword, Company!Valid
<1>3. /\ next \in RequestType /\ next.step = "change" /\ next.op = "password"
      /\ next.user = logins[i].user /\ next.session = i
  BY <1>1, <1>2, FirstTyped DEF Company!Asked, RequestType, SessionTypeOfUsers
<1>4. request[r].step = "idle" /\ Company!Goes(r, next) /\ UNCHANGED <<users, logins, dead, late, spared>>
  BY <1>1, FirstTyped DEF Company!ChangePassword, Company!unfelt
<1>5. \A u, v \in next.user : u = v
  BY <1>3 DEF IInv, OneUser
<1>. QED
  BY <1>2, <1>3, <1>4, <1>5, RequestStep

LEMMA AskKeeps ==
  ASSUME IInv, NEW r \in Requests, NEW i \in Company!Ids, NEW u \in Users,
         NEW op \in Company!Changes, Company!Ask(r, i, u, op)
  PROVE  IInv'
<1>1. PICK seen : seen = [users[u] EXCEPT !.era = 0]
  OBVIOUS
<1>2. seen \in UserType
  BY <1>1 DEF IInv, TypedUsers, UserType
<1>3. PICK next : next = Company!Asked("count", op, {u}, 0, seen)
  OBVIOUS
<1>4. /\ next \in RequestType /\ next.step = "count" /\ next.op = op /\ next.user = {u}
      /\ next.session = 0
  BY <1>2, <1>3 DEF Company!Asked, RequestType
<1>5. request[r].step = "idle" /\ Company!Goes(r, next) /\ UNCHANGED <<users, logins, dead, late, spared>>
  BY <1>1, <1>3, FirstTyped DEF Company!Ask, Company!unfelt
<1>. QED
  BY <1>4, <1>5, RequestStep

LEMMA CountKeeps ==
  ASSUME IInv, NEW r \in Requests, Company!Count(r)
  PROVE  IInv'
<1>1. PICK next : next = [request[r] EXCEPT !.step = "write"]
  OBVIOUS
<1>2. request[r] \in RequestType /\ Reads(r) /\ request[r].step = "count"
  BY DEF IInv, TypedUsers, Company!Count
<1>3. /\ next \in RequestType /\ next.step = "write" /\ next.op = request[r].op
      /\ next.user = request[r].user /\ next.session = request[r].session
      /\ next.seen = request[r].seen
  BY <1>1, <1>2 DEF RequestType
<1>4. Company!Goes(r, next) /\ UNCHANGED <<users, logins, dead, late, spared>>
  BY <1>1 DEF Company!Count, Company!unfelt
<1>5. \A u, v \in next.user : u = v
  BY <1>3 DEF IInv, OneUser
<1>. QED
  BY <1>2, <1>3, <1>4, <1>5, RequestStep DEF Reads

\* The history remembers who died with sessions to end.
LEMMA DieKeeps ==
  ASSUME IInv, NEW r \in Requests, Company!Die(r)
  PROVE  IInv'
<1>1. dead \subseteq dead' /\ (request[r].step = "end" => request[r].user \subseteq dead')
  BY DEF Company!Die
<1>. QED
  BY <1>1, FirstTyped, RequestStep DEF Company!Die

-----------------------------------------------------------------------------
(* Steps that write.                                                        *)

\* A session is of the user it was, and does not live again.
Fewer(i) ==
  /\ logins'[i].user = logins[i].user
  /\ logins'[i].live => logins[i].live /\ logins'[i].era = logins[i].era

\* A request is over; if it was to end the sessions of a user, it has.
Over(q) ==
  /\ request'[q] = Company!Done
  /\ request[q].step = "end" =>
       \A i \in Company!Ids : \A u \in logins[i].user :
         u \in request[q].user /\ request[q].session # i => ~logins'[i].live

LEMMA SessionsEnd ==
  ASSUME IInv, UNCHANGED <<users, dead, late, spared>>,
         logins' \in [Company!Ids -> SessionTypeOfUsers], request' \in [Requests -> RequestType],
         \A i \in Company!Ids : Fewer(i),
         \A q \in Requests : request'[q] = request[q] \/ Over(q)
  PROVE  IInv'
<1>1. TypedUsers'
  BY DEF IInv, TypedUsers
<1>2. OneUser'
  <2>1. \A i \in Company!Ids : /\ \A u, v \in logins'[i].user : u = v
                               /\ logins'[i].live => logins'[i].user # {}
    BY DEF IInv, OneUser, Fewer
  <2>2. ASSUME NEW q \in Requests PROVE \A u, v \in request'[q].user : u = v
    <3>1. CASE request'[q] = request[q]
      BY <3>1 DEF IInv, OneUser
    <3>2. CASE Over(q)
      BY <3>2, FirstTyped DEF Over
    <3>. QED
      BY <3>1, <3>2
  <2>. QED
    BY <2>1, <2>2 DEF OneUser
<1>3. ASSUME NEW q \in Requests PROVE Reads(q)'
  <2>1. CASE request'[q] = request[q]
    BY <2>1 DEF IInv, Reads, Fewer
  <2>2. CASE Over(q)
    BY <2>2, FirstTyped DEF Reads, Over
  <2>. QED
    BY <2>1, <2>2
<1>4. Company!ChangesEndSessions'
  <2>. SUFFICES ASSUME NEW i \in Company!Ids, NEW u \in logins'[i].user,
                       logins'[i].live, logins'[i].era < users[u].era,
                       u \notin dead, i \notin late, i \notin spared
                PROVE  \E q \in Requests : /\ request'[q].step = "end" /\ u \in request'[q].user
                                           /\ request'[q].session # i
    BY DEF Company!ChangesEndSessions
  <2>1. Fewer(i)
    OBVIOUS
  <2>2. PICK q \in Requests : /\ request[q].step = "end" /\ u \in request[q].user
                              /\ request[q].session # i
    BY <2>1 DEF IInv, Company!ChangesEndSessions, Fewer
  <2>3. ~Over(q)
    BY <2>1, <2>2 DEF Over, Fewer
  <2>. QED
    BY <2>2, <2>3
<1>. QED
  BY <1>1, <1>2, <1>3, <1>4 DEF IInv

LEMMA SignKeeps ==
  ASSUME IInv, NEW r \in Requests, Company!Sign(r)
  PROVE  IInv'
<1>1. /\ request[r] \in RequestType /\ request[r].seen.role \in {"", "ADMINISTRADOR", "VENDEDOR"}
      /\ logins \in [Company!Ids -> SessionTypeOfUsers] /\ request \in [Requests -> RequestType]
  BY DEF IInv, TypedUsers, RequestType, UserType
<1>2. ASSUME NEW i \in Company!Ids PROVE logins'[i] \in SessionTypeOfUsers /\ Fewer(i)
  <2>1. CASE logins'[i] = logins[i]
    BY <1>1, <2>1 DEF Fewer
  <2>2. CASE logins'[i] = [logins[i] EXCEPT !.role = request[r].seen.role]
    <3>1. logins[i] \in SessionTypeOfUsers
      BY <1>1
    <3>2. logins'[i] \in SessionTypeOfUsers
      BY <1>1, <2>2, <3>1 DEF SessionTypeOfUsers
    <3>3. logins'[i].user = logins[i].user /\ logins'[i].era = logins[i].era
      BY <2>2, <3>1 DEF SessionTypeOfUsers
    <3>4. logins'[i].live <=> logins[i].live
      BY <2>2, <3>1 DEF SessionTypeOfUsers
    <3>. QED
      BY <3>2, <3>3, <3>4 DEF Fewer
  <2>. QED
    BY <1>1, <2>1, <2>2 DEF Company!Sign
<1>3. logins' \in [Company!Ids -> SessionTypeOfUsers]
  BY <1>1, <1>2 DEF Company!Sign
<1>4. /\ request' \in [Requests -> RequestType] /\ request'[r] = Company!Done /\ request[r].step # "end"
      /\ \A q \in Requests : q # r => request'[q] = request[q]
  BY <1>1, FirstTyped DEF Company!Sign, Company!Goes
<1>5. UNCHANGED <<users, dead, late, spared>> /\ \A q \in Requests : request'[q] = request[q] \/ Over(q)
  BY <1>4 DEF Company!Sign, Company!unfelt, Over
<1>. QED
  BY <1>2, <1>3, <1>4, <1>5, SessionsEnd

LEMMA ClosedIs ==
  ASSUME NEW s \in SessionTypeOfUsers
  PROVE  /\ Company!Closed(s) \in SessionTypeOfUsers /\ Company!Closed(s).user = s.user
         /\ Company!Closed(s).live = FALSE
BY DEF Company!Closed, SessionTypeOfUsers

LEMMA LogoutKeeps ==
  ASSUME IInv, NEW i \in Company!Ids, Company!Logout(i)
  PROVE  IInv'
<1>1. logins \in [Company!Ids -> SessionTypeOfUsers] /\ request \in [Requests -> RequestType]
  BY DEF IInv, TypedUsers
<1>2. logins' = [logins EXCEPT ![i] = Company!Closed(@)] /\ UNCHANGED <<users, request, dead, late, spared>>
  BY DEF Company!Logout, Company!unfelt
<1>3. logins'[i] = Company!Closed(logins[i]) /\ logins[i] \in SessionTypeOfUsers
  BY <1>1, <1>2
<1>4. /\ logins'[i] \in SessionTypeOfUsers /\ logins'[i].live = FALSE
      /\ logins'[i].user = logins[i].user
  BY <1>3, ClosedIs
<1>5. logins' \in [Company!Ids -> SessionTypeOfUsers] /\ \A j \in Company!Ids : j # i => logins'[j] = logins[j]
  BY <1>1, <1>2, <1>4
<1>6. \A j \in Company!Ids : Fewer(j)
  BY <1>4, <1>5 DEF Fewer
<1>. QED
  BY <1>1, <1>2, <1>5, <1>6, SessionsEnd

LEMMA EndKeeps ==
  ASSUME IInv, NEW r \in Requests, Company!End(r)
  PROVE  IInv'
<1>1. logins \in [Company!Ids -> SessionTypeOfUsers] /\ request \in [Requests -> RequestType]
  BY DEF IInv, TypedUsers
<1>2. PICK u \in request[r].user : logins' = Company!Ended(u, request[r].session)
  BY DEF Company!End
<1>3. \A v \in request[r].user : v = u
  BY DEF IInv, OneUser
<1>4. ASSUME NEW i \in Company!Ids
      PROVE  /\ logins'[i] \in SessionTypeOfUsers /\ Fewer(i)
             /\ u \in logins[i].user /\ request[r].session # i => ~logins'[i].live
  <2>1. logins[i] \in SessionTypeOfUsers
    BY <1>1
  <2>2. CASE ~(u \in logins[i].user /\ i # request[r].session)
    <3>1. logins'[i] = logins[i]
      BY <1>2, <2>2 DEF Company!Ended
    <3>. QED
      BY <2>1, <2>2, <3>1 DEF Fewer
  <2>3. CASE u \in logins[i].user /\ i # request[r].session
    <3>1. logins'[i] = Company!Closed(logins[i])
      BY <1>2, <2>3 DEF Company!Ended
    <3>2. /\ logins'[i] \in SessionTypeOfUsers /\ logins'[i].live = FALSE
          /\ logins'[i].user = logins[i].user
      BY <2>1, <3>1, ClosedIs
    <3>. QED
      BY <3>2 DEF Fewer
  <2>. QED
    BY <2>2, <2>3
<1>5. logins' \in [Company!Ids -> SessionTypeOfUsers]
  BY <1>2, <1>4 DEF Company!Ended
<1>6. /\ request' \in [Requests -> RequestType] /\ request'[r] = Company!Done
      /\ \A q \in Requests : q # r => request'[q] = request[q]
      /\ UNCHANGED <<users, dead, late, spared>>
  BY <1>1, FirstTyped DEF Company!End, Company!Goes, Company!unfelt
<1>7. Over(r)
  BY <1>3, <1>4, <1>6 DEF Over
<1>8. \A q \in Requests : request'[q] = request[q] \/ Over(q)
  BY <1>6, <1>7
<1>. QED
  BY <1>4, <1>5, <1>6, <1>8, SessionsEnd

LEMMA OpenKeeps ==
  ASSUME IInv, NEW r \in Requests, Company!Open(r)
  PROVE  IInv'
<1>1. PICK i \in Company!Ids : /\ logins[i] = Company!Nobody
                               /\ logins' = [logins EXCEPT ![i] =
                                    [user |-> request[r].user, live |-> TRUE,
                                     role |-> request[r].seen.role, era |-> request[r].seen.era]]
                               /\ late' = IF \E u \in request[r].user :
                                               request[r].seen.era # users[u].era
                                          THEN late \cup {i} ELSE late
  BY DEF Company!Open
<1>2. /\ logins \in [Company!Ids -> SessionTypeOfUsers] /\ request \in [Requests -> RequestType]
      /\ request[r] \in RequestType /\ request[r].seen \in UserType /\ Reads(r)
      /\ request[r].step = "open" /\ UNCHANGED <<users, dead, spared>>
  BY DEF IInv, TypedUsers, RequestType, Company!Open
<1>3. /\ request' \in [Requests -> RequestType] /\ request'[r] = Company!Done
      /\ \A q \in Requests : q # r => request'[q] = request[q]
  BY <1>2, FirstTyped DEF Company!Open, Company!Goes
<1>4. /\ logins' \in [Company!Ids -> SessionTypeOfUsers] /\ \A j \in Company!Ids : j # i => logins'[j] = logins[j]
      /\ logins'[i].user = request[r].user /\ logins'[i].era = request[r].seen.era
  BY <1>1, <1>2 DEF SessionTypeOfUsers, RequestType, UserType
<1>5. TypedUsers'
  BY <1>2, <1>3, <1>4 DEF IInv, TypedUsers
<1>6. OneUser'
  <2>1. ASSUME NEW j \in Company!Ids
        PROVE  /\ \A u, v \in logins'[j].user : u = v
               /\ logins'[j].live => logins'[j].user # {}
    <3>1. CASE j = i
      BY <1>2, <1>4, <3>1 DEF IInv, OneUser, Reads
    <3>2. CASE j # i
      BY <1>4, <3>2 DEF IInv, OneUser
    <3>. QED
      BY <3>1, <3>2
  <2>2. ASSUME NEW q \in Requests PROVE \A u, v \in request'[q].user : u = v
    <3>1. CASE q = r
      BY <1>3, <3>1, FirstTyped
    <3>2. CASE q # r
      BY <1>3, <3>2 DEF IInv, OneUser
    <3>. QED
      BY <3>1, <3>2
  <2>. QED
    BY <2>1, <2>2 DEF OneUser
<1>7. ASSUME NEW q \in Requests PROVE Reads(q)'
  <2>1. CASE q = r
    BY <1>3, <2>1, FirstTyped DEF Reads
  <2>2. CASE q # r
    <3>1. Reads(q) /\ request'[q] = request[q]
      BY <1>3, <2>2 DEF IInv
    <3>2. request[q].step = "change" => request[q].session # i
      BY <1>1, <3>1, FirstTyped DEF Reads
    <3>. QED
      BY <1>2, <1>4, <3>1, <3>2 DEF Reads
  <2>. QED
    BY <2>1, <2>2
<1>8. Company!ChangesEndSessions'
  <2>. SUFFICES ASSUME NEW j \in Company!Ids, NEW u \in logins'[j].user,
                       logins'[j].live, logins'[j].era < users[u].era,
                       u \notin dead, j \notin late', j \notin spared
                PROVE  \E q \in Requests : /\ request'[q].step = "end" /\ u \in request'[q].user
                                           /\ request'[q].session # j
    BY <1>2 DEF Company!ChangesEndSessions
  <2>1. j # i
    <3>. SUFFICES ASSUME j = i PROVE FALSE
      OBVIOUS
    <3>1. u \in request[r].user /\ u \in Users
      BY <1>2, <1>4 DEF RequestType
    <3>2. request[r].seen.era = users[u].era
      BY <1>1, <3>1
    <3>3. logins'[j].era = users[u].era /\ users[u].era \in Nat
      BY <1>4, <3>1, <3>2 DEF IInv, TypedUsers, UserType
    <3>. QED
      BY <3>3
  <2>2. PICK q \in Requests : /\ request[q].step = "end" /\ u \in request[q].user
                              /\ request[q].session # j
    BY <1>1, <1>4, <2>1 DEF IInv, Company!ChangesEndSessions
  <2>3. q # r
    BY <1>2, <2>2
  <2>. QED
    BY <1>3, <2>2, <2>3
<1>. QED
  BY <1>5, <1>6, <1>7, <1>8 DEF IInv

\* A session is what it was, unless u has made it theirs again.
KeptOfUsers(i, u) ==
  /\ logins'[i].user = logins[i].user
  /\ logins'[i].live <=> logins[i].live
  /\ u \notin logins[i].user => logins'[i].era = logins[i].era

\* If row leaves a session of u behind, it was behind, or `next` ends it, or it is spared.
Owed(i, u, row, next) ==
  u \in logins[i].user /\ logins'[i].era < row.era =>
    \/ logins[i].era < users[u].era
    \/ next.step = "end" /\ next.session # i
    \/ i \in spared'

\* What is left of a request after its row is written.
LeftOfUsers(r, next) ==
  \/ next = Company!Done
  \/ /\ next.step = "end" /\ next.user = request[r].user
     /\ next.session = request[r].session

\* What a request that has to end sessions goes on with.
LEMMA ToEndIs ==
  ASSUME NEW r \in Requests, request[r] \in RequestType
  PROVE  /\ Company!ToEnd(r) \in RequestType /\ Company!ToEnd(r).step = "end"
         /\ Company!ToEnd(r).user = request[r].user
         /\ Company!ToEnd(r).session = request[r].session
BY FirstTyped DEF Company!ToEnd, Company!Asked, RequestType

\* The step that writes the row of a user: a session of theirs that the new era
\* leaves behind was behind already, or it is for this request to end it, or spared.
LEMMA RowWritten ==
  ASSUME IInv, NEW r \in Requests, request[r].step \in {"write", "change"},
         NEW u \in request[r].user,
         NEW row \in UserType, users' = [users EXCEPT ![u] = row],
         NEW next \in RequestType, Company!Goes(r, next), LeftOfUsers(r, next),
         UNCHANGED <<dead, late>>, spared \subseteq spared',
         logins' \in [Company!Ids -> SessionTypeOfUsers],
         \A i \in Company!Ids : KeptOfUsers(i, u),
         \A i \in Company!Ids : Owed(i, u, row, next)
  PROVE  IInv'
<1>1. /\ users \in [Users -> UserType] /\ request \in [Requests -> RequestType]
      /\ request[r] \in RequestType /\ u \in Users /\ Reads(r)
  BY DEF IInv, TypedUsers, RequestType
<1>2. /\ users' \in [Users -> UserType] /\ users'[u] = row
      /\ \A v \in Users : v # u => users'[v] = users[v]
  BY <1>1
<1>3. /\ request' \in [Requests -> RequestType] /\ request'[r] = next
      /\ \A q \in Requests : q # r => request'[q] = request[q]
  BY <1>1 DEF Company!Goes
<1>4. TypedUsers'
  BY <1>2, <1>3 DEF TypedUsers
<1>5. OneUser'
  <2>1. \A i \in Company!Ids : /\ \A v, w \in logins'[i].user : v = w
                               /\ logins'[i].live => logins'[i].user # {}
    BY DEF IInv, OneUser, KeptOfUsers
  <2>2. ASSUME NEW q \in Requests PROVE \A v, w \in request'[q].user : v = w
    <3>1. \A v, w \in request[q].user : v = w
      BY DEF IInv, OneUser
    <3>2. CASE q = r
      BY <1>3, <3>1, <3>2, FirstTyped DEF LeftOfUsers
    <3>3. CASE q # r
      BY <1>3, <3>1, <3>3
    <3>. QED
      BY <3>2, <3>3
  <2>. QED
    BY <2>1, <2>2 DEF OneUser
<1>6. ASSUME NEW q \in Requests PROVE Reads(q)'
  <2>1. CASE q = r
    BY <1>3, <2>1, FirstTyped DEF Reads, LeftOfUsers
  <2>2. CASE q # r
    <3>1. Reads(q) /\ request'[q] = request[q] /\ request[q] \in RequestType
      BY <1>1, <1>3, <2>2 DEF IInv
    <3>2. request[q].step = "change" =>
            logins'[request[q].session].user = logins[request[q].session].user
      BY <3>1 DEF Reads, KeptOfUsers
    <3>. QED
      BY <3>1, <3>2 DEF Reads
  <2>. QED
    BY <2>1, <2>2
<1>7. Company!ChangesEndSessions'
  <2>. SUFFICES ASSUME NEW i \in Company!Ids, NEW v \in logins'[i].user,
                       logins'[i].live, logins'[i].era < users'[v].era,
                       v \notin dead, i \notin late, i \notin spared'
                PROVE  \E q \in Requests : /\ request'[q].step = "end" /\ v \in request'[q].user
                                           /\ request'[q].session # i
    BY DEF Company!ChangesEndSessions
  <2>1. v \in logins[i].user /\ logins[i].live /\ v \in Users
    BY DEF IInv, TypedUsers, SessionTypeOfUsers, KeptOfUsers
  <2>2. CASE logins[i].era < users[v].era
    <3>1. PICK q \in Requests : /\ request[q].step = "end" /\ v \in request[q].user
                                /\ request[q].session # i
      BY <2>1, <2>2 DEF IInv, Company!ChangesEndSessions
    <3>2. q # r
      BY <3>1
    <3>. QED
      BY <1>3, <3>1, <3>2
  <2>3. CASE ~(logins[i].era < users[v].era)
    <3>1. v = u
      <4>. SUFFICES ASSUME v # u PROVE FALSE
        OBVIOUS
      <4>1. u \notin logins[i].user
        BY <2>1 DEF IInv, OneUser
      <4>. QED
        BY <1>2, <2>1, <2>3, <4>1 DEF KeptOfUsers
    <3>2. next.step = "end" /\ next.session # i
      BY <1>2, <2>1, <2>3, <3>1 DEF Owed
    <3>3. next.user = request[r].user
      BY <3>2, FirstTyped DEF LeftOfUsers
    <3>. QED
      BY <1>3, <3>1, <3>2, <3>3
  <2>. QED
    BY <2>2, <2>3
<1>. QED
  BY <1>4, <1>5, <1>6, <1>7 DEF IInv

\* Unless somebody else changed the user in between, what was read says the same of the
\* change as the row that is written.
LEMMA WriteKeeps ==
  ASSUME IInv, NEW r \in Requests, Company!Write(r)
  PROVE  IInv'
<1>1. /\ users \in [Users -> UserType] /\ logins \in [Company!Ids -> SessionTypeOfUsers]
      /\ request[r] \in RequestType /\ Reads(r) /\ request[r].step = "write"
  BY DEF IInv, TypedUsers, Company!Write
<1>2. PICK op : op = request[r].op
  OBVIOUS
<1>3. op \in Company!Changes
  BY <1>1, <1>2 DEF Reads
<1>4. PICK u \in request[r].user :
        /\ users' = [users EXCEPT ![u] =
             [Company!Written(users[u], op) EXCEPT
                !.era = IF op # "activate" /\ (op = "reset" \/ Company!Written(users[u], op) # users[u])
                        THEN @ + 1 ELSE @]]
        /\ spared' = IF Company!Crossed(request[r].seen, u) /\ ~Company!EndsSessions(request[r].seen, op)
                     THEN spared \cup {i \in Company!Ids : u \in logins[i].user} ELSE spared
  BY <1>2 DEF Company!Write
<1>5. u \in Users /\ users[u] \in UserType
  BY <1>1 DEF RequestType
<1>6. Company!Written(users[u], op) \in UserType /\ Company!Written(users[u], op).era = users[u].era
  <2>1. WrittenAs(users[u], op)
    BY <1>3, <1>5, WrittenIs
  <2>. QED
    BY <2>1 DEF WrittenAs
<1>7. PICK row : row = [Company!Written(users[u], op) EXCEPT
                          !.era = IF op # "activate" /\ (op = "reset" \/ Company!Written(users[u], op) # users[u])
                                  THEN @ + 1 ELSE @]
  OBVIOUS
<1>8. /\ row \in UserType
      /\ row.era # users[u].era => op # "activate" /\ (op = "reset" \/ Company!Written(users[u], op) # users[u])
  <2>1. CASE op # "activate" /\ (op = "reset" \/ Company!Written(users[u], op) # users[u])
    <3>1. row = [Company!Written(users[u], op) EXCEPT !.era = @ + 1]
      BY <1>7, <2>1
    <3>. QED
      BY <1>6, <2>1, <3>1, EraIs
  <2>2. CASE ~(op # "activate" /\ (op = "reset" \/ Company!Written(users[u], op) # users[u]))
    <3>1. row = [Company!Written(users[u], op) EXCEPT !.era = @]
      BY <1>7, <2>2
    <3>2. row = Company!Written(users[u], op)
      BY <1>6, <3>1 DEF UserType
    <3>. QED
      BY <1>6, <3>2
  <2>. QED
    BY <2>1, <2>2
<1>9. users' = [users EXCEPT ![u] = row]
  BY <1>4, <1>7
<1>10. PICK next : next = IF Company!EndsSessions(request[r].seen, op)
                          THEN Company!ToEnd(r) ELSE Company!Done
  OBVIOUS
<1>11. Company!Goes(r, next) /\ UNCHANGED <<logins, dead, late>> /\ spared \subseteq spared'
  BY <1>2, <1>4, <1>10 DEF Company!Write
<1>12. CASE Company!EndsSessions(request[r].seen, op)
  <2>1. next = Company!ToEnd(r)
    BY <1>10, <1>12
  <2>2. /\ next \in RequestType /\ next.step = "end" /\ next.user = request[r].user
        /\ next.session = 0
    BY <1>1, <2>1, ToEndIs DEF Reads
  <2>3. request[r].session = 0
    BY <1>1 DEF Reads
  <2>4. \A i \in Company!Ids : KeptOfUsers(i, u)
    BY <1>11 DEF KeptOfUsers
  <2>5. \A i \in Company!Ids : Owed(i, u, row, next)
    BY <2>2 DEF Owed, Company!Ids
  <2>6. LeftOfUsers(r, next)
    BY <2>2, <2>3 DEF LeftOfUsers
  <2>. QED
    BY <1>1, <1>8, <1>9, <1>11, <2>2, <2>4, <2>5, <2>6, RowWritten
<1>13. CASE ~Company!EndsSessions(request[r].seen, op)
  <2>1. next = Company!Done
    BY <1>10, <1>13
  <2>2. ASSUME Company!Crossed(request[r].seen, u)
        PROVE  \A i \in Company!Ids : Owed(i, u, row, next)
    <3>1. \A i \in Company!Ids : u \in logins[i].user => i \in spared'
      BY <1>4, <1>13, <2>2
    <3>. QED
      BY <3>1 DEF Owed
  <2>3. ASSUME ~Company!Crossed(request[r].seen, u)
        PROVE  \A i \in Company!Ids : Owed(i, u, row, next)
    <3>1. request[r].seen \in UserType
      BY <1>1 DEF RequestType
    <3>2. request[r].seen.role = users[u].role
      BY <2>3 DEF Company!Crossed
    <3>3. request[r].seen.active = users[u].active
      BY <2>3, Zenon DEF Company!Crossed
    <3>4. Company!Written(request[r].seen, op) # request[r].seen <=> Company!Written(users[u], op) # users[u]
      BY <1>3, <1>5, <3>1, <3>2, <3>3, WrittenDiffers, Zenon
    <3>5. row.era = users[u].era
      BY <1>8, <1>13, <3>4, Zenon DEF Company!EndsSessions
    <3>. QED
      BY <1>11, <3>5 DEF Owed
  <2>4. \A i \in Company!Ids : KeptOfUsers(i, u)
    BY <1>11 DEF KeptOfUsers
  <2>5. \A i \in Company!Ids : Owed(i, u, row, next)
    BY <2>2, <2>3
  <2>6. LeftOfUsers(r, next) /\ next \in RequestType
    BY <2>1, FirstTyped DEF LeftOfUsers
  <2>. QED
    BY <1>1, <1>8, <1>9, <1>11, <2>4, <2>5, <2>6, RowWritten
<1>. QED
  BY <1>12, <1>13

LEMMA ChangeKeeps ==
  ASSUME IInv, NEW r \in Requests, Company!Change(r)
  PROVE  IInv'
<1>1. /\ users \in [Users -> UserType] /\ logins \in [Company!Ids -> SessionTypeOfUsers]
      /\ request[r] \in RequestType /\ Reads(r) /\ request[r].step = "change"
  BY DEF IInv, TypedUsers, Company!Change
<1>2. PICK k : k = request[r].session
  OBVIOUS
<1>3. k \in Company!Ids /\ logins[k].user = request[r].user /\ logins[k] \in SessionTypeOfUsers
  BY <1>1, <1>2 DEF Reads
<1>4. PICK u \in request[r].user :
        /\ users' = [users EXCEPT ![u].era = @ + 1]
        /\ logins' = [logins EXCEPT ![k].era = users[u].era + 1]
  BY <1>2 DEF Company!Change
<1>5. u \in Users /\ users[u] \in UserType
  BY <1>1 DEF RequestType
<1>6. PICK row : row = [users[u] EXCEPT !.era = @ + 1]
  OBVIOUS
<1>7. row \in UserType /\ row.era = users[u].era + 1
  BY <1>5, <1>6, EraIs
<1>8. users' = [users EXCEPT ![u] = row]
  BY <1>4, <1>6
<1>9. PICK next : next = Company!ToEnd(r)
  OBVIOUS
<1>10. /\ next \in RequestType /\ next.step = "end" /\ next.user = request[r].user
       /\ next.session = k
  BY <1>1, <1>2, <1>9, ToEndIs
<1>11. Company!Goes(r, next) /\ UNCHANGED <<dead, late, spared>>
  BY <1>9 DEF Company!Change, Company!unfelt
<1>12. logins'[k] = [logins[k] EXCEPT !.era = users[u].era + 1]
  BY <1>1, <1>3, <1>4
<1>13. /\ logins'[k] \in SessionTypeOfUsers /\ logins'[k].era = row.era
       /\ logins'[k].user = logins[k].user
  BY <1>3, <1>5, <1>7, <1>12 DEF SessionTypeOfUsers, UserType
<1>14. logins'[k].live <=> logins[k].live
  BY <1>3, <1>12 DEF SessionTypeOfUsers
<1>15. /\ logins' \in [Company!Ids -> SessionTypeOfUsers]
       /\ \A i \in Company!Ids : i # k => logins'[i] = logins[i]
  BY <1>1, <1>4, <1>13
<1>16. ASSUME NEW i \in Company!Ids PROVE KeptOfUsers(i, u)
  <2>1. CASE i = k
    BY <1>3, <1>13, <1>14, <2>1 DEF KeptOfUsers
  <2>2. CASE i # k
    BY <1>15, <2>2 DEF KeptOfUsers
  <2>. QED
    BY <2>1, <2>2
<1>17. ASSUME NEW i \in Company!Ids PROVE Owed(i, u, row, next)
  <2>1. row.era \in Nat
    BY <1>7 DEF UserType
  <2>2. CASE i = k
    BY <1>13, <2>1, <2>2 DEF Owed
  <2>3. CASE i # k
    BY <1>10, <2>3 DEF Owed
  <2>. QED
    BY <2>2, <2>3
<1>18. LeftOfUsers(r, next)
  BY <1>2, <1>10 DEF LeftOfUsers
<1>. QED
  BY <1>1, <1>7, <1>8, <1>10, <1>11, <1>15, <1>16, <1>17, <1>18, RowWritten

-----------------------------------------------------------------------------

LEMMA NextKeeps ==
  ASSUME IInv, [Company!Next]_(Company!vars)
  PROVE  IInv'
<1>1. CASE UNCHANGED Company!vars
  BY <1>1 DEF Company!vars, Company!unfelt, IInv, TypedUsers, OneUser, Reads, Company!ChangesEndSessions
<1>2. ASSUME NEW r \in Requests,
             Company!Open(r) \/ Company!Sign(r) \/ Company!Count(r) \/ Company!Write(r) \/ Company!End(r) \/ Company!Change(r) \/ Company!Die(r)
      PROVE  IInv'
  BY <1>2, OpenKeeps, SignKeeps, CountKeeps, WriteKeeps, EndKeeps, ChangeKeeps, DieKeeps
<1>3. ASSUME NEW r \in Requests, NEW u \in Users, Company!Login(r, u) PROVE IInv'
  BY <1>3, LoginKeepsOfUsers
<1>4. ASSUME NEW r \in Requests, NEW i \in Company!Ids, Company!Refresh(r, i) \/ Company!ChangePassword(r, i) PROVE IInv'
  BY <1>4, RefreshKeeps, ChangePasswordKeeps
<1>5. ASSUME NEW r \in Requests, NEW i \in Company!Ids, NEW u \in Users, NEW op \in Company!Changes, Company!Ask(r, i, u, op)
      PROVE  IInv'
  BY <1>5, AskKeeps
<1>6. ASSUME NEW i \in Company!Ids, Company!Logout(i) PROVE IInv'
  BY <1>6, LogoutKeeps
<1>. QED
  BY <1>1, <1>2, <1>3, <1>4, <1>5, <1>6 DEF Company!Next

\* ChangesEndSessions for any number of users, requests and logins, whatever overlaps: a
\* session opened before a change of role, a deactivation or a new password
\* (users.service.ts:70) is, while it lives, about to be ended by a request in progress;
\* the only ones that are not are those of a user whose change died before ending them,
\* those a login opened with what it had read before the change, and those of a user
\* changed by who had read them before another change.
THEOREM ChangesAreFelt == Company!Spec => []Company!ChangesEndSessions
<1>1. Company!Init => IInv
  BY Starts
<1>2. IInv /\ [Company!Next]_(Company!vars) => IInv'
  BY NextKeeps
<1>3. IInv => Company!ChangesEndSessions
  BY DEF IInv
<1>. QED
  BY <1>1, <1>2, <1>3, PTL DEF Company!Spec

=============================================================================
