------------------------------ MODULE Sessions ------------------------------
(* The sessions of one browser (auth.service.ts, auth.controller.ts, and    *)
(* api.ts in the web application): its tabs share a cookie jar, each tab    *)
(* refreshes by itself, and the server rotates the refresh token by reading *)
(* the session and then updating it only if nobody rotated in between.      *)
(*                                                                          *)
(* A token is a number, in the order in which they are issued; 0 is none.   *)
EXTENDS Integers

CONSTANTS
  Tabs,
  MaxTokens,    \* bound on the tokens issued
  MaxSessions   \* bound on the logins

SessionsAssumption == MaxTokens \in Nat /\ MaxSessions \in Nat

VARIABLES
  sessions,  \* the rows of sessions
  issued,    \* the tokens issued
  jar,       \* the cookies of the browser: a refresh token, the session of the access token
  tab,       \* what each tab is waiting for
  lost,      \* history: the sessions of which an answer never arrived
  overtaken  \* history: the sessions of which an answer arrived after a later one

astray == <<lost, overtaken>>
vars == <<sessions, issued, jar, tab, astray>>

Ids == 1..MaxSessions

\* "live", or why it ended.  `fresh`: rotated less than REFRESH_GRACE_MS ago.
Session(state, current, previous, fresh) ==
  [state |-> state, current |-> current, previous |-> previous, fresh |-> fresh]
NoSession == Session("none", 0, 0, FALSE)

Jar(refresh, access) == [refresh |-> refresh, access |-> access]

\* `token` and `access` are the cookies sent, or those of the answer; `seen` the
\* session and the current token the server has read; `after` the tabs whose
\* answers were given before.
Waiting(phase, token, access, id, seen, retried, after) ==
  [phase |-> phase, token |-> token, access |-> access, id |-> id, seen |-> seen,
   retried |-> retried, after |-> after]
Idle == Waiting("idle", 0, 0, 0, 0, FALSE, {})

Init ==
  /\ sessions = [i \in Ids |-> NoSession]
  /\ issued = 0
  /\ jar = Jar(0, 0)
  /\ tab = [t \in Tabs |-> Idle]
  /\ lost = {} /\ overtaken = {}

Live(i) == i \in Ids /\ sessions[i].state = "live"

\* The session a token belongs to: the current one or the previous one.
Finds(i, token) == token # 0 /\ token \in {sessions[i].current, sessions[i].previous}

Answered == {t \in Tabs : tab[t].phase = "answered"}
Quiet == \A t \in Tabs : tab[t].phase = "idle"

Answer(t, token, access) ==
  tab' = [tab EXCEPT ![t] = Waiting("answered", token, access, 0, 0, FALSE, Answered)]

\* clearAuthCookies
Clear(t) == Answer(t, 0, 0)

-----------------------------------------------------------------------------
(* The browser.                                                             *)

\* A request without a valid access token is answered 401.
Refused(t) ==
  /\ tab[t].phase = "idle" /\ jar.refresh # 0 /\ ~Live(jar.access)
  /\ tab' = [tab EXCEPT ![t].phase = "refused"]
  /\ UNCHANGED <<sessions, issued, jar, astray>>

\* tryRefresh: with the cookie there is in the jar by then.
Send(t) ==
  /\ tab[t].phase = "refused"
  /\ tab' = [tab EXCEPT ![t] = Waiting("sent", jar.refresh, 0, 0, 0, FALSE, {})]
  /\ UNCHANGED <<sessions, issued, jar, astray>>

Rests(t) == tab' = [u \in Tabs |-> IF u = t THEN Idle ELSE [tab[u] EXCEPT !.after = @ \ {t}]]

\* The sessions all of whose answers arrived, each after those given before it.
Steady == Ids \ (lost \cup overtaken)

\* The sessions whose token the answers to these tabs carry.
Carried(S) == {i \in Ids : \E t \in S : tab[t].phase = "answered" /\ Finds(i, tab[t].token)}

\* The answer arrives with its cookies, in whatever order.
Receive(t) ==
  /\ tab[t].phase = "answered"
  /\ jar' = Jar(tab[t].token, tab[t].access)
  /\ Rests(t)
  /\ overtaken' = overtaken \cup Carried(tab[t].after)
  /\ UNCHANGED <<sessions, issued, lost>>

\* It never does: the network drops the request or its answer, the page is left
\* while it waits, or the process dies at any step of it.
Lose(t) ==
  /\ tab[t].phase \notin {"idle", "refused"}
  /\ Rests(t)
  /\ lost' = lost \cup Carried({t})
  /\ UNCHANGED <<sessions, issued, jar, overtaken>>

\* The access cookie lasts for minutes: longer than any request.
AccessExpires ==
  /\ Quiet /\ jar.access # 0
  /\ jar' = [jar EXCEPT !.access = 0]
  /\ UNCHANGED <<sessions, issued, tab, astray>>

\* A person sends their credentials when nothing is going on; an open session
\* shows no login (middleware.ts).
Login(t) ==
  /\ Quiet /\ jar.refresh = 0 /\ jar.access = 0
  /\ issued < MaxTokens
  /\ \E i \in Ids :
       /\ sessions[i] = NoSession /\ \A j \in Ids : j < i => sessions[j] # NoSession
       /\ sessions' = [sessions EXCEPT ![i] = Session("live", issued + 1, 0, FALSE)]
       /\ Answer(t, issued + 1, i)
  /\ issued' = issued + 1
  /\ UNCHANGED <<jar, astray>>

Leave(t) ==
  /\ tab[t].phase = "idle" /\ jar.refresh # 0
  /\ tab' = [tab EXCEPT ![t] = Waiting("leaving", jar.refresh, jar.access, 0, 0, FALSE, {})]
  /\ UNCHANGED <<sessions, issued, jar, astray>>

-----------------------------------------------------------------------------
(* The server.                                                              *)

\* Mutant: the previous token is a reuse at once.
WithinNoGrace(i, token) == token = sessions[i].current

\* What is not a reuse: the current token, or the previous one for a while.
WithinGrace(i, token) == token = sessions[i].current \/ sessions[i].fresh

\* refresh: the session is read.
Read(t) ==
  /\ tab[t].phase = "sent"
  /\ \E i \in Ids :
       /\ Live(i) /\ Finds(i, tab[t].token)
       /\ tab' = [tab EXCEPT ![t] =
                    Waiting(IF WithinGrace(i, tab[t].token) THEN "read" ELSE "reused",
                            tab[t].token, 0, i, sessions[i].current, tab[t].retried, {})]
  /\ UNCHANGED <<sessions, issued, jar, astray>>

Unknown(t) ==
  /\ tab[t].phase = "sent"
  /\ \A i \in Ids : ~(Live(i) /\ Finds(i, tab[t].token))
  /\ Clear(t)
  /\ UNCHANGED <<sessions, issued, jar, astray>>

Revoked(i, why) ==
  sessions' = [sessions EXCEPT ![i].state = IF @ = "live" THEN why ELSE @]

Reuse(t) ==
  /\ tab[t].phase = "reused"
  /\ Revoked(tab[t].id, "reuse")
  /\ Clear(t)
  /\ UNCHANGED <<issued, jar, astray>>

StillCurrent(t) == Live(tab[t].id) /\ sessions[tab[t].id].current = tab[t].seen

\* Mutant: the new token is kept as the one it replaces.
RotateSwapped(t) ==
  /\ tab[t].phase = "read" /\ StillCurrent(t)
  /\ issued < MaxTokens
  /\ sessions' = [sessions EXCEPT ![tab[t].id] = Session("live", tab[t].seen, issued + 1, TRUE)]
  /\ issued' = issued + 1
  /\ Answer(t, issued + 1, tab[t].id)
  /\ UNCHANGED <<jar, astray>>

\* Mutant: the browser is answered the token that was read.
RotateAnswersSeen(t) ==
  /\ tab[t].phase = "read" /\ StillCurrent(t)
  /\ issued < MaxTokens
  /\ sessions' = [sessions EXCEPT ![tab[t].id] = Session("live", issued + 1, tab[t].seen, TRUE)]
  /\ issued' = issued + 1
  /\ Answer(t, tab[t].seen, tab[t].id)
  /\ UNCHANGED <<jar, astray>>

\* The rotation asks for the token that was read: what it replaces is kept.
Rotate(t) ==
  /\ tab[t].phase = "read" /\ StillCurrent(t)
  /\ issued < MaxTokens
  /\ sessions' = [sessions EXCEPT ![tab[t].id] = Session("live", issued + 1, tab[t].seen, TRUE)]
  /\ issued' = issued + 1
  /\ Answer(t, issued + 1, tab[t].id)
  /\ UNCHANGED <<jar, astray>>

\* Mutant: nobody tries again.
LostRaceGivesUp(t) ==
  /\ tab[t].phase = "read" /\ ~StillCurrent(t)
  /\ Clear(t)
  /\ UNCHANGED <<sessions, issued, jar, astray>>

\* Another tab rotated in between: once more, with the same token.
LostRace(t) ==
  /\ tab[t].phase = "read" /\ ~StillCurrent(t)
  /\ IF tab[t].retried THEN Clear(t)
     ELSE tab' = [tab EXCEPT ![t] = Waiting("sent", tab[t].token, 0, 0, 0, TRUE, {})]
  /\ UNCHANGED <<sessions, issued, jar, astray>>

\* Mutant: only by the current token.
LeftByCurrent(i, t) == Live(i) /\ (i = tab[t].access \/ sessions[i].current = tab[t].token)

\* The sessions a logout names: by its access token, by its refresh token.
Left(i, t) == Live(i) /\ (i = tab[t].access \/ Finds(i, tab[t].token))

Logout(t) ==
  /\ tab[t].phase = "leaving"
  /\ sessions' = [i \in Ids |-> IF Left(i, t) THEN [sessions[i] EXCEPT !.state = "logout"]
                                              ELSE sessions[i]]
  /\ Clear(t)
  /\ UNCHANGED <<issued, jar, astray>>

\* The grace, thirty seconds, is longer than a request.
GraceEnds(i) ==
  /\ Quiet /\ sessions[i].fresh
  /\ sessions' = [sessions EXCEPT ![i].fresh = FALSE]
  /\ UNCHANGED <<issued, jar, tab, astray>>

\* revokeAllSessions, the thirty days of the session: from elsewhere.
Ends(i) ==
  /\ Live(i)
  /\ Revoked(i, "ended")
  /\ UNCHANGED <<issued, jar, tab, astray>>

-----------------------------------------------------------------------------

Answers(t) == Read(t) \/ Unknown(t) \/ Reuse(t) \/ Rotate(t) \/ LostRace(t) \/ Logout(t)

Next ==
  \/ \E t \in Tabs : Refused(t) \/ Send(t) \/ Receive(t) \/ Lose(t) \/ Login(t) \/ Leave(t)
                     \/ Answers(t)
  \/ AccessExpires
  \/ \E i \in Ids : GraceEnds(i) \/ Ends(i)

Spec == Init /\ [][Next]_vars

-----------------------------------------------------------------------------
(* Properties.                                                              *)

Phases == {"idle", "refused", "sent", "read", "reused", "leaving", "answered"}
States == {"none", "live", "reuse", "logout", "ended"}

Issued == 0..issued

\* Types of the rows, the jar and the tabs: no token was not issued, and what a
\* rotation replaces is older than what replaces it.
TypeOK ==
  /\ sessions \in [Ids -> [state : States, current : Issued, previous : Issued, fresh : BOOLEAN]]
  /\ \A i \in Ids : sessions[i].previous # 0 => sessions[i].previous < sessions[i].current
  /\ issued \in Nat
  /\ jar \in [refresh : Issued, access : Ids \cup {0}]
  /\ tab \in [Tabs -> [phase : Phases, token : Issued, access : Ids \cup {0}, id : Ids \cup {0},
                       seen : Issued, retried : BOOLEAN, after : SUBSET Tabs]]
  /\ lost \in SUBSET Ids /\ overtaken \in SUBSET Ids

\* A browser that only presents what it was given is never taken for a reuse
\* (auth.service.ts:166, 168).
NeverReadAsReuse == \A i \in Ids : sessions[i].state # "reuse"

\* Nor is one whose answers all arrived, however many of its tabs refresh at once
\* (auth.service.ts:219).
TabsAreNoReuse == \A i \in Ids : sessions[i].state = "reuse" => i \in lost

\* A session is taken for a reuse only if the answer to one of its refreshes never
\* arrived, or arrived after a later one: refreshing at once, waiting, leaving,
\* logging in again and losing the race for a rotation are never enough.
ReuseIsExplained == \A i \in Steady : sessions[i].state # "reuse"

\* When nothing is going on, a live session all of whose answers arrived in order is
\* in the jar with the token the server last gave it, not one that it replaced:
\* nobody is thrown out by two tabs that refresh at once, and a logout ends the
\* session even when it runs while another tab is rotating the token it names.
NobodyIsThrownOut ==
  Quiet => \A i \in Steady : Live(i) => jar.refresh = sessions[i].current
=============================================================================
