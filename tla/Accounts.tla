------------------------------ MODULE Accounts ------------------------------
(* Users, their roles and their sessions (users.service.ts and the parts of *)
(* auth.service.ts that log in, refresh and change a password).  An         *)
(* operation is a request of its own, in steps where the code awaits, and   *)
(* the process that serves it may die between two of them.                  *)
EXTENDS Integers, FiniteSets

CONSTANTS
  Users,
  Founders,     \* the administrators at the start
  Requests,     \* requests in progress
  MaxSessions,  \* bound on the logins
  MaxChanges    \* bound on the changes that end sessions

VARIABLES
  users,     \* role, active, and `era`: the changes that end the sessions of before
  sessions,  \* user, live, the role its access token carries, the era of its login
  request,   \* what each request has read and has left to do
  dead,      \* history: the users whose change died before ending their sessions
  late,      \* history: the sessions opened with a user that had changed by then
  spared     \* history: the sessions of users changed by what was read before another
             \* change, which said that nothing would change

unfelt == <<dead, late, spared>>
vars == <<users, sessions, request, unfelt>>

Ids == 1..MaxSessions
Nobody == [user |-> {}, live |-> FALSE, role |-> "", era |-> 0]
Asked(step, op, user, session, seen) ==
  [step |-> step, op |-> op, user |-> user, session |-> session, seen |-> seen]
NoRead == [role |-> "", active |-> FALSE, era |-> 0]
Done == Asked("idle", "", {}, 0, NoRead)

Init ==
  /\ users = [u \in Users |-> [role |-> IF u \in Founders THEN "ADMINISTRADOR" ELSE "VENDEDOR",
                               active |-> TRUE, era |-> 0]]
  /\ sessions = [i \in Ids |-> Nobody]
  /\ request = [r \in Requests |-> Done]
  /\ dead = {} /\ late = {} /\ spared = {}

Admin(u) == users[u].role = "ADMINISTRADOR" /\ users[u].active
Owner(i) == CHOOSE u \in Users : u \in sessions[i].user

\* validateAccessToken: one read of the session with its user.
Valid(i) ==
  /\ sessions[i].live
  /\ users[Owner(i)].active /\ users[Owner(i)].role = sessions[i].role

Goes(r, next) == request' = [request EXCEPT ![r] = next]

\* It has still to end the sessions of its user.
ToEnd(r) == Asked("end", "", request[r].user, request[r].session, NoRead)

\* A revoked session: nothing reads the rest of its row.
Closed(s) == [s EXCEPT !.live = FALSE, !.role = "", !.era = 0]

\* revokeAllSessions(userId, exceptSessionId): one statement.
Ended(u, kept) ==
  [i \in Ids |-> IF u \in sessions[i].user /\ i # kept THEN Closed(sessions[i])
                                                      ELSE sessions[i]]

-----------------------------------------------------------------------------
(* login, refresh                                                           *)

\* The user is read and the password given is theirs; verifying it takes time.
Login(r, u) ==
  /\ request[r] = Done /\ users[u].active
  /\ \E i \in Ids : sessions[i] = Nobody
  /\ Goes(r, Asked("open", "login", {u}, 0, users[u]))
  /\ UNCHANGED <<users, sessions, unfelt>>

\* The session is created, and its token signed, with what was read.
Open(r) ==
  /\ request[r].step = "open"
  /\ \E i \in Ids :
       /\ sessions[i] = Nobody /\ \A j \in 1..(i - 1) : sessions[j] # Nobody
       /\ sessions' = [sessions EXCEPT ![i] = [user |-> request[r].user, live |-> TRUE,
                                               role |-> request[r].seen.role,
                                               era |-> request[r].seen.era]]
       /\ late' = IF \E u \in request[r].user : request[r].seen.era # users[u].era
                  THEN late \cup {i} ELSE late
  /\ Goes(r, Done)
  /\ UNCHANGED <<users, dead, spared>>

\* Rotation is Sessions' concern; here, that the user is read with the session
\* and the token is signed with the role that was read.
Refresh(r, i) ==
  /\ request[r] = Done /\ sessions[i].live
  /\ IF users[Owner(i)].active
     THEN Goes(r, Asked("sign", "refresh", sessions[i].user, i,
                        [NoRead EXCEPT !.role = users[Owner(i)].role]))
     ELSE Goes(r, Asked("end", "refresh", sessions[i].user, 0, NoRead))
  /\ UNCHANGED <<users, sessions, unfelt>>

\* The update asks for a session that is not revoked.
Sign(r) ==
  /\ request[r].step = "sign"
  /\ sessions' = IF sessions[request[r].session].live
                 THEN [sessions EXCEPT ![request[r].session].role = request[r].seen.role]
                 ELSE sessions
  /\ Goes(r, Done)
  /\ UNCHANGED <<users, unfelt>>

Logout(i) ==
  /\ sessions[i].live
  /\ sessions' = [sessions EXCEPT ![i] = Closed(@)]
  /\ UNCHANGED <<users, request, unfelt>>

-----------------------------------------------------------------------------
(* changePassword and UsersService.update                                   *)

Changes == {"deactivate", "activate", "demote", "promote", "reset"}

\* update: an administrator, with a valid session, sends the form of a user, and the
\* row is read.
Ask(r, i, u, op) ==
  /\ request[r] = Done
  /\ Valid(i) /\ sessions[i].role = "ADMINISTRADOR"
  /\ u \in sessions[i].user => op \in {"activate", "reset"}
  /\ Goes(r, Asked("count", op, {u}, 0, [users[u] EXCEPT !.era = 0]))
  /\ UNCHANGED <<users, sessions, unfelt>>

\* Whether, by what was read, there is an administrator less.
LosesAdmin(r) ==
  /\ request[r].seen.role = "ADMINISTRADOR" /\ request[r].seen.active
  /\ request[r].op \in {"deactivate", "demote"}

Others(r) == {u \in Users \ request[r].user : Admin(u)}

\* The other active administrators are counted, outside the transaction.
Count(r) ==
  /\ request[r].step = "count"
  /\ LosesAdmin(r) => Others(r) # {}
  /\ Goes(r, [request[r] EXCEPT !.step = "write"])
  /\ UNCHANGED <<users, sessions, unfelt>>

\* The columns that the form brings.
Written(u, op) ==
  CASE op = "deactivate" -> [u EXCEPT !.active = FALSE]
    [] op = "activate"   -> [u EXCEPT !.active = TRUE]
    [] op = "demote"     -> [u EXCEPT !.role = "VENDEDOR"]
    [] op = "promote"    -> [u EXCEPT !.role = "ADMINISTRADOR"]
    [] OTHER             -> u

\* Mutant: a deactivation does not end the sessions.
EndsSessionsNotInactive(seen, op) ==
  \/ op = "reset"
  \/ op \in {"demote", "promote"} /\ Written(seen, op) # seen

\* roleChanged || deactivated || passwordReset, by what was read.
EndsSessions(seen, op) ==
  op = "reset" \/ (op # "activate" /\ Written(seen, op) # seen)

\* The user is no longer what was read: another request changed them in between.
Crossed(seen, u) == seen.role # users[u].role \/ seen.active # users[u].active

\* The changes so far, of all the users.
Eras == UNION {{u} \X (1..users[u].era) : u \in Users}

\* The transaction: the columns and the audit row.
Write(r) ==
  /\ request[r].step = "write"
  /\ \E u \in request[r].user :
       /\ Cardinality(Eras) < MaxChanges
       /\ users' = [users EXCEPT ![u] =
            [Written(users[u], request[r].op) EXCEPT
               !.era = IF request[r].op # "activate" /\ (request[r].op = "reset"
                            \/ Written(users[u], request[r].op) # users[u]) THEN @ + 1 ELSE @]]
       /\ spared' = IF Crossed(request[r].seen, u)
                        /\ ~EndsSessions(request[r].seen, request[r].op)
                    THEN spared \cup {i \in Ids : u \in sessions[i].user} ELSE spared
  /\ IF EndsSessions(request[r].seen, request[r].op)
     THEN Goes(r, ToEnd(r))
     ELSE Goes(r, Done)
  /\ UNCHANGED <<sessions, dead, late>>

\* The other sessions of the user end, in a statement of its own.
End(r) ==
  /\ request[r].step = "end"
  /\ \E u \in request[r].user : sessions' = Ended(u, request[r].session)
  /\ Goes(r, Done)
  /\ UNCHANGED <<users, unfelt>>

\* changePassword: the current one is read and verified.
ChangePassword(r, i) ==
  /\ request[r] = Done /\ Valid(i)
  /\ Goes(r, Asked("change", "password", sessions[i].user, i, NoRead))
  /\ UNCHANGED <<users, sessions, unfelt>>

\* The new one is written, whatever happened since; the session that asked
\* goes on, and belongs to the new password.
Change(r) ==
  /\ request[r].step = "change"
  /\ \E u \in request[r].user :
       /\ Cardinality(Eras) < MaxChanges
       /\ users' = [users EXCEPT ![u].era = @ + 1]
       /\ sessions' = [sessions EXCEPT ![request[r].session].era = users[u].era + 1]
  /\ Goes(r, ToEnd(r))
  /\ UNCHANGED unfelt

-----------------------------------------------------------------------------

\* A check fails (a wrong password, a restart, a connection that drops).
Die(r) ==
  /\ request[r] # Done
  /\ Goes(r, Done)
  /\ dead' = IF request[r].step = "end" THEN dead \cup request[r].user ELSE dead
  /\ UNCHANGED <<users, sessions, late, spared>>

Next ==
  \/ \E r \in Requests :
       \/ Open(r) \/ Sign(r) \/ Count(r) \/ Write(r) \/ End(r) \/ Change(r) \/ Die(r)
       \/ \E u \in Users : Login(r, u)
       \/ \E i \in Ids : Refresh(r, i) \/ ChangePassword(r, i)
       \/ \E i \in Ids, u \in Users, op \in Changes : Ask(r, i, u, op)
  \/ \E i \in Ids : Logout(i)

Spec == Init /\ [][Next]_vars

-----------------------------------------------------------------------------
(* Properties.                                                              *)

\* There is always an administrator who can log in (users.service.ts:91).
LastAdminStays == \E u \in Users : Admin(u)

\* A change of role, a deactivation and a new password end the sessions opened
\* before them (users.service.ts:70): one that is still alive is about to be ended by a
\* request in progress, or by nobody, because the request that had to has died, because
\* it was opened with what its login had read before the change, or because who
\* changed the user had read them before somebody else did.
ChangesEndSessions ==
  \A i \in Ids : \A u \in sessions[i].user :
    sessions[i].live /\ sessions[i].era < users[u].era =>
      \/ u \in dead \/ i \in late \/ i \in spared
      \/ \E r \in Requests : request[r].step = "end" /\ u \in request[r].user
                             /\ request[r].session # i
=============================================================================
