--------------------------- MODULE AccountsProofs ---------------------------
(***************************************************************************)
(* Safety of accounts, sessions and reset links, for every number of rows  *)
(* and of requests handled at the same time.                               *)
(***************************************************************************)
EXTENDS Accounts, TLAPS

-----------------------------------------------------------------------------
(* Types *)

LEMMA IdleType == Idle \in RequestVariables
BY DEF Idle, RequestVariables, PCs

LEMMA EndedType == Ended \in SessionRow
BY DEF Ended, NoSession, SessionRow

\* A password change and a revocation write sessions.
LEMMA RestaleType ==
    ASSUME TypeOK, NEW u, NEW own
    PROVE  Restale(u, own) \in [Sessions -> SessionRow]
BY DEF TypeOK, Restale, SessionRow

LEMMA RevokeType ==
    ASSUME NEW ss \in [Sessions -> SessionRow], NEW which
    PROVE  RevokeAll(ss, which) \in [Sessions -> SessionRow]
BY EndedType DEF RevokeAll

LEMMA RestaleLoginsType ==
    ASSUME NEW rr \in [Requests -> RequestVariables], NEW u
    PROVE  RestaleLogins(rr, u) \in [Requests -> RequestVariables]
BY DEF RestaleLogins, RequestVariables

\* A password change marks sessions and logins and leaves everything else of them alone.
LEMMA RestaleKeeps ==
    ASSUME TypeOK, NEW u, NEW own, NEW s \in Sessions
    PROVE  /\ Restale(u, own)[s].state = session[s].state
           /\ Restale(u, own)[s].user = session[s].user
BY DEF TypeOK, Restale, SessionRow

LEMMA RestaleLoginsKeeps ==
    ASSUME NEW rr \in [Requests -> RequestVariables], NEW u, NEW r \in Requests
    PROVE  LET q == RestaleLogins(rr, u)[r] IN
           /\ q.pc = rr[r].pc /\ q.user = rr[r].user /\ q.session = rr[r].session
           /\ q.email = rr[r].email /\ q.seen = rr[r].seen /\ q.marking = rr[r].marking
           /\ q.newPassword = rr[r].newPassword /\ q.token = rr[r].token
BY DEF RestaleLogins, RequestVariables

\* Who logs in or asks for a link, and whoever a live session belongs to, is a user.
Owned ==
    /\ \A r \in Requests : request[r].pc \in {"login", "reset", "supersede", "insert"} => request[r].user \in Users
    /\ \A s \in Sessions : Live(s) => session[s].user \in Users

TypeInv == TypeOK /\ Owned

LEMMA TypeInvInit == Init => TypeInv
BY IdleType DEF Init, TypeInv, TypeOK, Owned, At, Live, NoSession, SessionRow, TokenRow, Idle

\* What the first statement of CreatePasswordResetToken does to the request.
LEMMA SupersedeSteps ==
    ASSUME TypeOK, NEW r \in Requests, StartSupersede(r) \/ Supersede(r)
    PROVE  \E pc \in {"supersede", "insert"}, m \in SUBSET Tokens :
              request' = [request EXCEPT ![r].pc = pc, ![r].marking = m]
<1>1. CASE StartSupersede(r)
  <2> DEFINE mine == {t \in Tokens : Fresh(t) /\ token[t].user = request[r].user}
  <2>1. request' = [request EXCEPT ![r].pc = "supersede", ![r].marking = mine]
    BY <1>1 DEF StartSupersede
  <2>2. mine \in SUBSET Tokens
    OBVIOUS
  <2> HIDE DEF mine
  <2> QED
    BY <2>1, <2>2
<1>2. CASE Supersede(r)
  <2> DEFINE unused == {t \in request[r].marking : token[t].state # "used"}
  <2>1. request' = [request EXCEPT ![r].pc = "insert", ![r].marking = unused]
    BY <1>2 DEF Supersede
  <2>2. unused \in SUBSET Tokens
    BY DEF TypeOK, RequestVariables
  <2> HIDE DEF unused
  <2> QED
    BY <2>1, <2>2
<1> QED
  BY <1>1, <1>2

LEMMA TypeStep == TypeOK /\ Owned /\ [Next]_vars => TypeOK'
<1> SUFFICES ASSUME TypeOK, Owned, [Next]_vars PROVE TypeOK'
  OBVIOUS
<1> USE IdleType, EndedType
<1>1. ASSUME NEW r \in Requests, Done(r) PROVE request' \in [Requests -> RequestVariables]
  BY <1>1 DEF Done, TypeOK
<1>2. ASSUME NEW r \in Requests, NEW u \in Users, CheckCredentials(r, u) PROVE TypeOK'
  BY <1>2 DEF CheckCredentials, TypeOK, RequestVariables, PCs, Idle
<1>3. ASSUME NEW r \in Requests, NEW u \in Users, CreateUser(r, u) PROVE TypeOK'
  BY <1>1, <1>3 DEF CreateUser, TypeOK, RequestVariables
<1>4. ASSUME NEW r \in Requests, NEW u \in Users, RequestReset(r, u) PROVE TypeOK'
  BY <1>4 DEF RequestReset, TypeOK, RequestVariables, PCs, Idle
<1>5. ASSUME NEW r \in Requests, NEW s \in Sessions, CreateSession(r, s) PROVE TypeOK'
  BY <1>1, <1>5 DEF CreateSession, TypeOK, RequestVariables, SessionRow
<1>6. ASSUME NEW r \in Requests, NEW s \in Sessions, Authenticate(r, s) PROVE TypeOK'
  <2>1. session[s].user \in Users /\ email[session[s].user] \in Emails \cup {Nobody}
    BY <1>6 DEF Authenticate, TypeOK, Owned
  <2> QED
    BY <1>6, <2>1 DEF Authenticate, TypeOK, RequestVariables, PCs, Idle
<1>7. ASSUME NEW r \in Requests, NEW e \in Emails, CheckEmail(r, e) PROVE TypeOK'
  BY <1>7 DEF CheckEmail, TypeOK, RequestVariables, PCs, Idle
<1>8. ASSUME NEW r \in Requests, NEW e \in Emails, NEW new \in BOOLEAN, CheckProfile(r, e, new)
      PROVE  TypeOK'
  <2> DEFINE pc == IF NeedsPassword(request[r].seen, e, new) THEN "verify" ELSE "update"
             asked == [request[r] EXCEPT !.pc = pc, !.email = e, !.newPassword = new]
  <2>1. asked \in RequestVariables
    BY DEF TypeOK, RequestVariables, PCs
  <2>2. request' = [request EXCEPT ![r] = asked]
    BY <1>8 DEF CheckProfile, TypeOK, RequestVariables
  <2> QED
    BY <1>8, <2>1, <2>2 DEF CheckProfile, TypeOK
<1>9. ASSUME NEW r \in Requests, NEW t \in Tokens, InsertToken(r, t) PROVE TypeOK'
  <2>1. token' \in [Tokens -> TokenRow]
    <3>1. request[r].user \in Users
      BY <1>9 DEF InsertToken, Owned, At
    <3>2. \A x \in Tokens : /\ [token[t] EXCEPT !.state = "fresh", !.user = request[r].user] \in TokenRow
                            /\ [token[x] EXCEPT !.state = "used"] \in TokenRow
                            /\ token[x] \in TokenRow
      BY <3>1 DEF TypeOK, TokenRow
    <3> QED
      BY <1>9, <3>2 DEF InsertToken
  <2>2. request' \in [Requests -> RequestVariables]
    <3> DEFINE mailing == [request[r] EXCEPT !.pc = "mail", !.token = t, !.marking = {}]
    <3>1. mailing \in RequestVariables
      BY DEF TypeOK, RequestVariables, PCs
    <3>2. request' = [request EXCEPT ![r] = mailing]
      BY <1>9 DEF InsertToken, TypeOK, RequestVariables
    <3> QED
      BY <3>1, <3>2 DEF TypeOK
  <2> QED
    BY <1>9, <2>1, <2>2 DEF InsertToken, TypeOK
<1>10. ASSUME NEW r \in Requests, NEW t \in Tokens, FindToken(r, t) PROVE TypeOK'
  <2>1. token[t].user \in Users \cup {Nobody}
    BY DEF TypeOK, TokenRow
  <2> QED
    BY <1>10, <2>1 DEF FindToken, TypeOK, RequestVariables, PCs, Idle
<1>11. ASSUME NEW r \in Requests, Logout(r) PROVE TypeOK'
  BY <1>1, <1>11 DEF Logout, TypeOK
<1>12. ASSUME NEW r \in Requests, VerifyPassword(r) PROVE TypeOK'
  BY <1>12 DEF VerifyPassword, TypeOK, RequestVariables, PCs
<1>13. ASSUME NEW r \in Requests, UpdateUser(r) PROVE TypeOK'
  <2> DEFINE revoking == [request EXCEPT ![r].pc = "revoke"]
  <2>1. revoking \in [Requests -> RequestVariables]
    BY DEF TypeOK, RequestVariables, PCs
  <2>2. /\ RestaleLogins(revoking, request[r].user) \in [Requests -> RequestVariables]
        /\ Restale(request[r].user, request[r].session) \in [Sessions -> SessionRow]
    BY <2>1, RestaleLoginsType, RestaleType
  <2>3. request[r].email \in Emails \cup {Nobody}
    BY DEF TypeOK, RequestVariables
  <2>4. email' \in [Users -> Emails \cup {Nobody}]
    BY <1>13, <2>3 DEF UpdateUser, TypeOK
  <2>5. session' \in [Sessions -> SessionRow] /\ request' \in [Requests -> RequestVariables]
    BY <1>1, <1>13, <2>2 DEF UpdateUser, TypeOK
  <2> QED
    BY <1>13, <2>4, <2>5 DEF UpdateUser, TypeOK
<1>14. ASSUME NEW r \in Requests, RevokeOtherSessions(r) PROVE TypeOK'
  BY <1>1, <1>14, RevokeType DEF RevokeOtherSessions, TypeOK
<1>15. ASSUME NEW r \in Requests, StartSupersede(r) \/ Supersede(r) PROVE TypeOK'
  <2>1. request' \in [Requests -> RequestVariables]
    <3>1. PICK pc \in {"supersede", "insert"}, m \in SUBSET Tokens :
             request' = [request EXCEPT ![r].pc = pc, ![r].marking = m]
      BY <1>15, SupersedeSteps
    <3> DEFINE marking == [request[r] EXCEPT !.pc = pc, !.marking = m]
    <3>2. marking \in RequestVariables
      BY DEF TypeOK, RequestVariables, PCs
    <3>3. request' = [request EXCEPT ![r] = marking]
      BY <3>1 DEF TypeOK, RequestVariables
    <3> QED
      BY <3>2, <3>3 DEF TypeOK
  <2>2. overlapped' \subseteq Users
    <3>1. CASE Supersede(r)
      BY <3>1 DEF Supersede, TypeOK
    <3>2. CASE StartSupersede(r)
      BY <3>2 DEF StartSupersede, Owned, At, TypeOK
    <3> QED
      BY <1>15, <3>1, <3>2
  <2> QED
    BY <1>15, <2>1, <2>2 DEF StartSupersede, Supersede, TypeOK
<1>16. ASSUME NEW r \in Requests, SendReset(r) PROVE TypeOK'
  BY <1>1, <1>16 DEF SendReset, TypeOK
<1>17. ASSUME NEW r \in Requests, CompleteReset(r) PROVE TypeOK'
  <2> DEFINE u == request[r].user
             ended == [request EXCEPT ![r] = Idle]
  <2>1. RevokeAll(Restale(u, Nobody), LiveOf(u)) \in [Sessions -> SessionRow]
    BY RestaleType, RevokeType
  <2>2. ended \in [Requests -> RequestVariables]
    BY DEF TypeOK
  <2>3. RestaleLogins(ended, u) \in [Requests -> RequestVariables]
    BY <2>2, RestaleLoginsType
  <2>4. token' \in [Tokens -> TokenRow]
    BY <1>17 DEF CompleteReset, TypeOK, TokenRow
  <2>5. session' \in [Sessions -> SessionRow] /\ request' \in [Requests -> RequestVariables]
    BY <1>1, <1>17, <2>1, <2>3 DEF CompleteReset, TypeOK
  <2> QED
    BY <1>17, <2>4, <2>5 DEF CompleteReset, TypeOK
<1>18. ASSUME NEW r \in Requests, Fail(r) PROVE TypeOK'
  <2>1. session' \in [Sessions -> SessionRow]
    BY <1>18 DEF Fail, TypeOK, SessionRow
  <2> QED
    BY <1>1, <1>18, <2>1 DEF Fail, TypeOK
<1>19. ASSUME NEW s \in Sessions, ExpireSession(s) PROVE TypeOK'
  BY <1>19 DEF ExpireSession, TypeOK
<1>20. ASSUME NEW t \in Tokens, ExpireToken(t) PROVE TypeOK'
  BY <1>20 DEF ExpireToken, TypeOK, TokenRow
<1>21. CASE UNCHANGED vars
  BY <1>21 DEF vars, TypeOK
<1> QED
  BY <1>2, <1>3, <1>4, <1>5, <1>6, <1>7, <1>8, <1>9, <1>10, <1>11, <1>12, <1>13, <1>14, <1>15,
     <1>16, <1>17, <1>18, <1>19, <1>20, <1>21 DEF Next, RequestStep

LEMMA OwnedStep == TypeOK /\ Owned /\ [Next]_vars => Owned'
<1> SUFFICES ASSUME TypeOK, Owned, [Next]_vars PROVE Owned'
  OBVIOUS
<1> USE IdleType DEF Owned, At, Live
<1>1. ASSUME NEW r \in Requests, Done(r), session' = session PROVE Owned'
  BY <1>1 DEF Done, Idle, TypeOK
<1>2. ASSUME NEW r \in Requests, NEW u \in Users, CheckCredentials(r, u) PROVE Owned'
  BY <1>2 DEF CheckCredentials, TypeOK, Idle
<1>3. ASSUME NEW r \in Requests, NEW u \in Users, CreateUser(r, u) PROVE Owned'
  BY <1>1, <1>3 DEF CreateUser
<1>4. ASSUME NEW r \in Requests, NEW u \in Users, RequestReset(r, u) PROVE Owned'
  BY <1>4 DEF RequestReset, TypeOK, Idle
<1>5. ASSUME NEW r \in Requests, NEW s \in Sessions, CreateSession(r, s) PROVE Owned'
  BY <1>5 DEF CreateSession, Done, Idle, TypeOK
<1>6. ASSUME NEW r \in Requests, NEW s \in Sessions, Authenticate(r, s) PROVE Owned'
  BY <1>6 DEF Authenticate, TypeOK, Idle
<1>7. ASSUME NEW r \in Requests, NEW e \in Emails, CheckEmail(r, e) PROVE Owned'
  BY <1>7 DEF CheckEmail, TypeOK, Idle
<1>8. ASSUME NEW r \in Requests, NEW e \in Emails, NEW new \in BOOLEAN, CheckProfile(r, e, new)
      PROVE  Owned'
  BY <1>8 DEF CheckProfile, TypeOK, RequestVariables
<1>9. ASSUME NEW r \in Requests, NEW t \in Tokens, InsertToken(r, t) PROVE Owned'
  BY <1>9 DEF InsertToken, TypeOK, RequestVariables
<1>10. ASSUME NEW r \in Requests, NEW t \in Tokens, FindToken(r, t) PROVE Owned'
  BY <1>10 DEF FindToken, TypeOK, Idle
<1>11. ASSUME NEW r \in Requests, Logout(r) PROVE Owned'
  BY <1>11 DEF Logout, Done, Idle, Ended, NoSession, TypeOK
<1>12. ASSUME NEW r \in Requests, VerifyPassword(r) PROVE Owned'
  BY <1>12 DEF VerifyPassword, TypeOK, RequestVariables
<1>13. ASSUME NEW r \in Requests, UpdateUser(r) PROVE Owned'
  <2> DEFINE revoking == [request EXCEPT ![r].pc = "revoke"]
             q == request[r]
  <2>1. /\ revoking \in [Requests -> RequestVariables]
        /\ \A x \in Requests : /\ revoking[x].pc = IF x = r THEN "revoke" ELSE request[x].pc
                               /\ revoking[x].user = request[x].user
    BY DEF TypeOK, RequestVariables, PCs
  <2>2. CASE Done(r) /\ UNCHANGED session
    BY <1>1, <2>2
  <2>3. CASE session' = Restale(q.user, q.session) /\ request' = RestaleLogins(revoking, q.user)
    <3> HIDE DEF revoking
    <3>1. \A x \in Requests : /\ request'[x].pc = revoking[x].pc
                              /\ request'[x].user = request[x].user
      BY <2>1, <2>3, RestaleLoginsKeeps
    <3>2. \A s \in Sessions : session'[s].state = session[s].state /\ session'[s].user = session[s].user
      BY <2>3, RestaleKeeps
    <3> QED
      BY <2>1, <3>1, <3>2
  <2> QED
    BY <1>13, <2>2, <2>3 DEF UpdateUser
<1>14. ASSUME NEW r \in Requests, RevokeOtherSessions(r) PROVE Owned'
  BY <1>14 DEF RevokeOtherSessions, RevokeAll, Ended, NoSession, Done, Idle, TypeOK
<1>15. ASSUME NEW r \in Requests, StartSupersede(r) \/ Supersede(r) PROVE Owned'
  <2>1. PICK pc \in {"supersede", "insert"}, m \in SUBSET Tokens :
           request' = [request EXCEPT ![r].pc = pc, ![r].marking = m]
    BY <1>15, SupersedeSteps
  <2>2. /\ request[r].user \in Users /\ session' = session
    BY <1>15 DEF StartSupersede, Supersede, At
  <2> QED
    BY <2>1, <2>2 DEF TypeOK, RequestVariables
<1>16. ASSUME NEW r \in Requests, SendReset(r) PROVE Owned'
  BY <1>1, <1>16 DEF SendReset
<1>17. ASSUME NEW r \in Requests, CompleteReset(r) PROVE Owned'
  <2> DEFINE ended == [request EXCEPT ![r] = Idle]
             u == request[r].user
  <2>1. /\ ended \in [Requests -> RequestVariables]
        /\ \A x \in Requests : ended[x] = IF x = r THEN Idle ELSE request[x]
    BY DEF TypeOK
  <2>2. CASE Done(r) /\ UNCHANGED session
    BY <1>1, <2>2
  <2>3. CASE /\ session' = RevokeAll(Restale(u, Nobody), LiveOf(u))
             /\ request' = RestaleLogins(ended, u)
    <3> HIDE DEF ended
    <3>1. \A x \in Requests : request'[x].pc = ended[x].pc /\ request'[x].user = ended[x].user
      BY <2>1, <2>3, RestaleLoginsKeeps
    <3>2. \A s \in Sessions : session'[s] = Ended \/ session'[s] = Restale(u, Nobody)[s]
      BY <2>3 DEF RevokeAll
    <3>3. \A s \in Sessions : Live(s)' => /\ session'[s].state = session[s].state
                                         /\ session'[s].user = session[s].user
      BY <3>2, RestaleKeeps DEF Ended, NoSession
    <3> QED
      BY <2>1, <3>1, <3>3 DEF Idle
  <2> QED
    BY <1>17, <2>2, <2>3 DEF CompleteReset
<1>18. ASSUME NEW r \in Requests, Fail(r) PROVE Owned'
  BY <1>18 DEF Fail, Done, Idle, TypeOK, SessionRow
<1>19. ASSUME NEW s \in Sessions, ExpireSession(s) PROVE Owned'
  BY <1>19 DEF ExpireSession, Ended, NoSession, TypeOK
<1>20. ASSUME NEW t \in Tokens, ExpireToken(t) PROVE Owned'
  BY <1>20 DEF ExpireToken
<1>21. CASE UNCHANGED vars
  BY <1>21 DEF vars
<1> QED
  BY <1>2, <1>3, <1>4, <1>5, <1>6, <1>7, <1>8, <1>9, <1>10, <1>11, <1>12, <1>13, <1>14, <1>15,
     <1>16, <1>17, <1>18, <1>19, <1>20, <1>21 DEF Next, RequestStep

LEMMA TypeInvariant == Spec => []TypeInv
BY TypeInvInit, TypeStep, OwnedStep, PTL DEF Spec, TypeInv

\* The tables and the requests keep their types, whatever requests interleave.
THEOREM TypeCorrect == Spec => []TypeOK
BY TypeInvariant, PTL DEF TypeInv

-----------------------------------------------------------------------------
(* Addresses *)

\* Only two actions write users.email.
LEMMA EmailWrites ==
    ASSUME [Next]_vars, email' # email
    PROVE  \/ \E r \in Requests, u \in Users : CreateUser(r, u)
           \/ \E r \in Requests : UpdateUser(r)
<1>1. ASSUME NEW r \in Requests, RequestStep(r)
      PROVE  UpdateUser(r) \/ \E u \in Users : CreateUser(r, u)
  <2>1. /\ \A u \in Users : ~CheckCredentials(r, u) /\ ~RequestReset(r, u)
        /\ \A s \in Sessions : ~CreateSession(r, s) /\ ~Authenticate(r, s)
        /\ \A e \in Emails : ~CheckEmail(r, e)
        /\ \A e \in Emails, new \in BOOLEAN : ~CheckProfile(r, e, new)
    BY DEF CheckCredentials, RequestReset, CreateSession, Authenticate, CheckEmail, CheckProfile
  <2>2. \A t \in Tokens : ~InsertToken(r, t) /\ ~FindToken(r, t)
    BY DEF InsertToken, FindToken
  <2>3. ~Logout(r) /\ ~VerifyPassword(r) /\ ~RevokeOtherSessions(r) /\ ~SendReset(r) /\ ~Fail(r)
    BY DEF Logout, VerifyPassword, RevokeOtherSessions, SendReset, Fail
  <2>4. ~StartSupersede(r) /\ ~Supersede(r) /\ ~CompleteReset(r)
    BY DEF StartSupersede, Supersede, CompleteReset
  <2> QED
    BY <1>1, <2>1, <2>2, <2>3, <2>4 DEF RequestStep
<1>2. (\A s \in Sessions : ~ExpireSession(s)) /\ (\A t \in Tokens : ~ExpireToken(t))
  BY DEF ExpireSession, ExpireToken
<1> QED
  BY <1>1, <1>2 DEF Next, vars

\* Two accounts never have one address: the index on users.email decides, and not the query
\* that Register and UpdateProfile ask before.
THEOREM AddressesUnique == Spec => []EmailsUnique
<1>1. Init => EmailsUnique
  BY DEF Init, EmailsUnique
<1>2. TypeOK /\ EmailsUnique /\ [Next]_vars => EmailsUnique'
  <2> SUFFICES ASSUME TypeOK, EmailsUnique, [Next]_vars, email' # email PROVE EmailsUnique'
    BY DEF EmailsUnique
  <2>1. ASSUME NEW r \in Requests, NEW u \in Users, CreateUser(r, u) PROVE EmailsUnique'
    BY <2>1 DEF CreateUser, EmailFree, EmailsUnique, TypeOK
  <2>2. ASSUME NEW r \in Requests, UpdateUser(r) PROVE EmailsUnique'
    BY <2>2 DEF UpdateUser, EmailFree, EmailsUnique, TypeOK
  <2> QED
    BY <2>1, <2>2, EmailWrites
<1> QED
  BY <1>1, <1>2, TypeCorrect, PTL DEF Spec

\* A save that was not asked for the password keeps the address the middleware has read.
SavedAddress == \A r \in Requests : At(r, "update") => request[r].email = request[r].seen

LEMMA SavedAddressStep == TypeOK /\ SavedAddress /\ [Next]_vars => SavedAddress'
<1> SUFFICES ASSUME TypeOK, SavedAddress, [Next]_vars PROVE SavedAddress'
  OBVIOUS
<1> USE IdleType DEF SavedAddress, At
<1>1. ASSUME NEW r \in Requests, Done(r) PROVE SavedAddress'
  BY <1>1 DEF Done, Idle, TypeOK
<1>2. ASSUME NEW r \in Requests, NEW u \in Users,
             CheckCredentials(r, u) \/ CreateUser(r, u) \/ RequestReset(r, u)
      PROVE  SavedAddress'
  BY <1>1, <1>2 DEF CheckCredentials, CreateUser, RequestReset, Idle, TypeOK
<1>3. ASSUME NEW r \in Requests, NEW s \in Sessions, CreateSession(r, s) \/ Authenticate(r, s)
      PROVE  SavedAddress'
  BY <1>1, <1>3 DEF CreateSession, Authenticate, Idle, TypeOK
<1>4. ASSUME NEW r \in Requests, NEW e \in Emails, CheckEmail(r, e) PROVE SavedAddress'
  BY <1>4 DEF CheckEmail, Idle, TypeOK
<1>5. ASSUME NEW r \in Requests, NEW e \in Emails, NEW new \in BOOLEAN, CheckProfile(r, e, new)
      PROVE  SavedAddress'
  BY <1>5 DEF CheckProfile, NeedsPassword, TypeOK, RequestVariables
<1>6. ASSUME NEW r \in Requests, NEW t \in Tokens, InsertToken(r, t) \/ FindToken(r, t)
      PROVE  SavedAddress'
  <2>1. CASE InsertToken(r, t)
    <3>1. request' = [request EXCEPT ![r].pc = "mail", ![r].token = t, ![r].marking = {}]
      BY <2>1 DEF InsertToken
    <3> QED
      BY <3>1 DEF TypeOK, RequestVariables
  <2>2. CASE FindToken(r, t)
    BY <2>2 DEF FindToken, Idle, TypeOK
  <2> QED
    BY <1>6, <2>1, <2>2
<1>7. ASSUME NEW r \in Requests, VerifyPassword(r) \/ StartSupersede(r) \/ Supersede(r)
      PROVE  SavedAddress'
  <2>1. CASE VerifyPassword(r)
    BY <2>1 DEF VerifyPassword, TypeOK, RequestVariables
  <2>2. CASE StartSupersede(r) \/ Supersede(r)
    <3>1. PICK pc \in {"supersede", "insert"}, m \in SUBSET Tokens :
             request' = [request EXCEPT ![r].pc = pc, ![r].marking = m]
      BY <2>2, SupersedeSteps
    <3> QED
      BY <3>1 DEF TypeOK, RequestVariables
  <2> QED
    BY <1>7, <2>1, <2>2
<1>8. ASSUME NEW r \in Requests, Logout(r) \/ RevokeOtherSessions(r) \/ SendReset(r) \/ Fail(r)
      PROVE  SavedAddress'
  BY <1>1, <1>8 DEF Logout, RevokeOtherSessions, SendReset, Fail
<1>9. ASSUME NEW r \in Requests, UpdateUser(r) PROVE SavedAddress'
  <2> DEFINE revoking == [request EXCEPT ![r].pc = "revoke"]
  <2>1. /\ revoking \in [Requests -> RequestVariables]
        /\ \A x \in Requests : /\ revoking[x].pc = IF x = r THEN "revoke" ELSE request[x].pc
                               /\ revoking[x].email = request[x].email
                               /\ revoking[x].seen = request[x].seen
    BY DEF TypeOK, RequestVariables, PCs
  <2>2. CASE request' = RestaleLogins(revoking, request[r].user)
    <3> HIDE DEF revoking
    <3> QED
      BY <2>1, <2>2, RestaleLoginsKeeps
  <2> QED
    BY <1>1, <1>9, <2>2 DEF UpdateUser
<1>10. ASSUME NEW r \in Requests, CompleteReset(r) PROVE SavedAddress'
  <2> DEFINE ended == [request EXCEPT ![r] = Idle]
  <2>1. /\ ended \in [Requests -> RequestVariables]
        /\ \A x \in Requests : ended[x] = IF x = r THEN Idle ELSE request[x]
    BY DEF TypeOK
  <2>2. CASE request' = RestaleLogins(ended, request[r].user)
    <3> HIDE DEF ended
    <3> QED
      BY <2>1, <2>2, RestaleLoginsKeeps DEF Idle
  <2> QED
    BY <1>1, <1>10, <2>2 DEF CompleteReset
<1>11. CASE UNCHANGED request
  BY <1>11
<1> QED
  BY <1>2, <1>3, <1>4, <1>5, <1>6, <1>7, <1>8, <1>9, <1>10, <1>11
  DEF Next, RequestStep, ExpireSession, ExpireToken, vars

\* The address of an account changes only with the password, or back to the one its session was
\* read with.
THEOREM AddressChangesVerified == Spec => EmailChangeVerified
<1> DEFINE Change ==
      \A u \in Users :
         email[u] # Nobody /\ email'[u] # email[u] =>
            \E r \in Requests : /\ request[r].user = u
                                /\ \/ At(r, "verified")
                                   \/ At(r, "update") /\ email'[u] = request[r].seen
<1>1. Init => SavedAddress
  BY DEF Init, SavedAddress, At, Idle
<1>2. TypeOK /\ SavedAddress /\ [Next]_vars => [Change]_vars
  <2> SUFFICES ASSUME TypeOK, SavedAddress, [Next]_vars, email' # email PROVE Change
    OBVIOUS
  <2>1. ASSUME NEW r \in Requests, NEW v \in Users, CreateUser(r, v) PROVE Change
    BY <2>1 DEF CreateUser, TypeOK
  <2>2. ASSUME NEW r \in Requests, UpdateUser(r) PROVE Change
    BY <2>2 DEF UpdateUser, SavedAddress, At, TypeOK
  <2> QED
    BY <2>1, <2>2, EmailWrites
<1> QED
  BY <1>1, <1>2, SavedAddressStep, TypeCorrect, PTL DEF Spec, EmailChangeVerified

-----------------------------------------------------------------------------
(* Sessions *)

\* A step of one request leaves the others' variables alone, but for the mark on logins.
LEMMA RequestsApart ==
    ASSUME TypeOK, NEW r \in Requests, RequestStep(r), NEW x \in Requests \ {r}
    PROVE  /\ request'[x].pc = request[x].pc /\ request'[x].user = request[x].user
           /\ request'[x].session = request[x].session
           /\ request'[x].marking = request[x].marking /\ request'[x].token = request[x].token
<1> DEFINE Apart == /\ request'[x].pc = request[x].pc /\ request'[x].user = request[x].user
                    /\ request'[x].session = request[x].session
                    /\ request'[x].marking = request[x].marking
                    /\ request'[x].token = request[x].token
<1> USE IdleType
<1>1. request'[x] = request[x] => Apart
  OBVIOUS
<1>2. CASE Done(r)
  BY <1>2 DEF Done, TypeOK
<1>3. ASSUME NEW u \in Users, CheckCredentials(r, u) \/ CreateUser(r, u) \/ RequestReset(r, u)
      PROVE  Apart
  BY <1>2, <1>3 DEF CheckCredentials, CreateUser, RequestReset, TypeOK
<1>4. ASSUME NEW s \in Sessions, CreateSession(r, s) \/ Authenticate(r, s) PROVE Apart
  BY <1>2, <1>4 DEF CreateSession, Authenticate, TypeOK
<1>5. ASSUME NEW e \in Emails, NEW new \in BOOLEAN, CheckProfile(r, e, new) PROVE Apart
  BY <1>5 DEF CheckProfile, TypeOK
<1>6. ASSUME NEW e \in Emails, CheckEmail(r, e) PROVE Apart
  BY <1>6 DEF CheckEmail, TypeOK
<1>7. ASSUME NEW t \in Tokens, InsertToken(r, t) \/ FindToken(r, t) PROVE Apart
  <2>1. CASE InsertToken(r, t)
    <3>1. request' = [request EXCEPT ![r].pc = "mail", ![r].token = t, ![r].marking = {}]
      BY <2>1 DEF InsertToken
    <3> QED
      BY <3>1 DEF TypeOK
  <2> QED
    BY <1>7, <2>1 DEF FindToken, TypeOK
<1>8. CASE Logout(r) \/ VerifyPassword(r) \/ RevokeOtherSessions(r) \/ SendReset(r) \/ Fail(r)
  BY <1>2, <1>8 DEF Logout, VerifyPassword, RevokeOtherSessions, SendReset, Fail, TypeOK
<1>9. CASE StartSupersede(r) \/ Supersede(r)
  <2>1. PICK pc \in {"supersede", "insert"}, m \in SUBSET Tokens :
           request' = [request EXCEPT ![r].pc = pc, ![r].marking = m]
    BY <1>9, SupersedeSteps
  <2> QED
    BY <2>1 DEF TypeOK
<1>10. CASE UpdateUser(r)
  <2> DEFINE revoking == [request EXCEPT ![r].pc = "revoke"]
  <2>1. revoking \in [Requests -> RequestVariables] /\ revoking[x] = request[x]
    BY DEF TypeOK, RequestVariables, PCs
  <2>2. CASE request' = RestaleLogins(revoking, request[r].user)
    <3> HIDE DEF revoking
    <3> QED
      BY <2>1, <2>2, RestaleLoginsKeeps
  <2> QED
    BY <1>2, <1>10, <2>2 DEF UpdateUser
<1>11. CASE CompleteReset(r)
  <2> DEFINE ended == [request EXCEPT ![r] = Idle]
  <2>1. ended \in [Requests -> RequestVariables] /\ ended[x] = request[x]
    BY DEF TypeOK
  <2>2. CASE request' = RestaleLogins(ended, request[r].user)
    <3> HIDE DEF ended
    <3> QED
      BY <2>1, <2>2, RestaleLoginsKeeps
  <2> QED
    BY <1>2, <1>11, <2>2 DEF CompleteReset
<1> QED
  BY <1>3, <1>4, <1>5, <1>6, <1>7, <1>8, <1>9, <1>10, <1>11 DEF RequestStep

\* A request that is to revoke sessions waits for that, or ends.
LEMMA RevokingStays ==
    ASSUME TypeOK, [Next]_vars, NEW r \in Requests, At(r, "revoke")
    PROVE  \/ /\ request'[r].pc = "revoke" /\ request'[r].user = request[r].user
              /\ request'[r].session = request[r].session
           \/ RevokeOtherSessions(r) \/ Fail(r)
<1>1. CASE UNCHANGED request
  BY <1>1 DEF At
<1>2. ASSUME NEW q \in Requests, RequestStep(q), q # r
      PROVE  /\ request'[r].pc = "revoke" /\ request'[r].user = request[r].user
             /\ request'[r].session = request[r].session
  BY <1>2, RequestsApart DEF At
<1>3. CASE RequestStep(r)
  <2>1. /\ \A u \in Users : ~CheckCredentials(r, u) /\ ~CreateUser(r, u) /\ ~RequestReset(r, u)
        /\ \A s \in Sessions : ~CreateSession(r, s) /\ ~Authenticate(r, s)
        /\ \A e \in Emails : ~CheckEmail(r, e)
        /\ \A e \in Emails, new \in BOOLEAN : ~CheckProfile(r, e, new)
    BY DEF At, CheckCredentials, CreateUser, RequestReset, CreateSession, Authenticate,
           CheckEmail, CheckProfile
  <2>2. /\ \A t \in Tokens : ~InsertToken(r, t) /\ ~FindToken(r, t)
        /\ ~Logout(r) /\ ~VerifyPassword(r) /\ ~SendReset(r)
        /\ ~UpdateUser(r) /\ ~StartSupersede(r) /\ ~Supersede(r) /\ ~CompleteReset(r)
    BY DEF At, InsertToken, FindToken, Logout, VerifyPassword, SendReset, UpdateUser,
           StartSupersede, Supersede, CompleteReset
  <2> QED
    BY <1>3, <2>1, <2>2 DEF RequestStep
<1> QED
  BY <1>1, <1>2, <1>3 DEF Next, ExpireSession, ExpireToken, vars

\* The sessions a password change leaves behind, and those that are still to be revoked.
LeftOver(s) == Live(s) /\ session[s].stale /\ ~session[s].kept

RevokeDue ==
    \A s \in Sessions : LeftOver(s) =>
        \E r \in Requests : /\ At(r, "revoke") /\ request[r].user = session[s].user
                            /\ request[r].session # s

\* Only a change of the password leaves a session behind, and it goes on to revoke it.
LEMMA NewLeftOver ==
    ASSUME TypeOK, [Next]_vars, NEW s \in Sessions, LeftOver(s)'
    PROVE  \/ LeftOver(s) /\ session'[s].user = session[s].user
           \/ \E r \in Requests : /\ request'[r].pc = "revoke"
                                  /\ request'[r].user = session'[s].user
                                  /\ request'[r].session # s
<1> DEFINE Old == LeftOver(s) /\ session'[s].user = session[s].user
           New == \E r \in Requests : /\ request'[r].pc = "revoke"
                                      /\ request'[r].user = session'[s].user
                                      /\ request'[r].session # s
<1> USE DEF LeftOver, Live
<1>1. CASE session'[s] = session[s]
  BY <1>1
<1>2. session'[s] # Ended
  BY DEF Ended, NoSession
<1>3. ASSUME NEW r \in Requests, NEW x \in Sessions, CreateSession(r, x) PROVE Old
  BY <1>3 DEF CreateSession, TypeOK, SessionRow
<1>4. ASSUME NEW r \in Requests, Logout(r) PROVE Old
  BY <1>2, <1>4 DEF Logout, TypeOK
<1>5. ASSUME NEW r \in Requests, UpdateUser(r), session'[s] # session[s] PROVE New
  <2> DEFINE revoking == [request EXCEPT ![r].pc = "revoke"]
             q == request[r]
  <2>1. session' = Restale(q.user, q.session) /\ request' = RestaleLogins(revoking, q.user)
    BY <1>5 DEF UpdateUser
  <2>2. /\ revoking \in [Requests -> RequestVariables]
        /\ revoking[r].pc = "revoke" /\ revoking[r].user = q.user /\ revoking[r].session = q.session
    BY DEF TypeOK, RequestVariables, PCs
  <2>3. /\ session[s].user = q.user /\ session'[s].user = q.user
        /\ session'[s].kept = (s = q.session)
    BY <1>5, <2>1 DEF Restale, LiveOf, TypeOK, SessionRow
  <2>4. s # q.session
    BY <2>3
  <2>5. request'[r].pc = "revoke" /\ request'[r].user = q.user /\ request'[r].session = q.session
    <3> HIDE DEF revoking, New
    <3> QED
      BY <2>1, <2>2, RestaleLoginsKeeps
  <2> QED
    BY <2>3, <2>4, <2>5
<1>6. ASSUME NEW r \in Requests, RevokeOtherSessions(r) PROVE Old
  BY <1>2, <1>6 DEF RevokeOtherSessions, RevokeAll
<1>7. ASSUME NEW r \in Requests, CompleteReset(r) PROVE Old
  BY <1>2, <1>7 DEF CompleteReset, RevokeAll, Restale
<1>8. ASSUME NEW r \in Requests, Fail(r) PROVE Old
  BY <1>8 DEF Fail, TypeOK, SessionRow
<1>9. ASSUME NEW x \in Sessions, ExpireSession(x) PROVE Old
  BY <1>2, <1>9 DEF ExpireSession, TypeOK
<1>10. ASSUME NEW r \in Requests, RequestStep(r), session' # session
       PROVE  \/ Logout(r) \/ UpdateUser(r) \/ RevokeOtherSessions(r) \/ CompleteReset(r) \/ Fail(r)
              \/ \E x \in Sessions : CreateSession(r, x)
  <2>1. /\ \A u \in Users : ~CheckCredentials(r, u) /\ ~CreateUser(r, u) /\ ~RequestReset(r, u)
        /\ \A x \in Sessions : ~Authenticate(r, x)
        /\ \A e \in Emails : ~CheckEmail(r, e)
        /\ \A e \in Emails, new \in BOOLEAN : ~CheckProfile(r, e, new)
    BY <1>10 DEF CheckCredentials, CreateUser, RequestReset, Authenticate, CheckEmail, CheckProfile
  <2>2. \A t \in Tokens : ~InsertToken(r, t) /\ ~FindToken(r, t)
    BY <1>10 DEF InsertToken, FindToken
  <2>3. ~VerifyPassword(r) /\ ~SendReset(r) /\ ~StartSupersede(r) /\ ~Supersede(r)
    BY <1>10 DEF VerifyPassword, SendReset, StartSupersede, Supersede
  <2> QED
    BY <1>10, <2>1, <2>2, <2>3 DEF RequestStep
<1>11. ASSUME NEW r \in Requests, RequestStep(r), session'[s] # session[s] PROVE Old \/ New
  <2> HIDE DEF Old, New
  <2> QED
    BY <1>3, <1>4, <1>5, <1>6, <1>7, <1>8, <1>10, <1>11
<1> QED
  BY <1>1, <1>9, <1>11 DEF Next, ExpireToken, vars

\* No session outlives its password, but for the cases kept stands for.
THEOREM SessionsRevoked == Spec => []OldSessionsRevoked
<1>1. Init => RevokeDue
  BY DEF Init, RevokeDue, LeftOver, Live, NoSession
<1>2. TypeOK /\ RevokeDue /\ [Next]_vars => RevokeDue'
  <2> SUFFICES ASSUME TypeOK, RevokeDue, [Next]_vars, NEW s \in Sessions, LeftOver(s)'
               PROVE  \E r \in Requests : /\ request'[r].pc = "revoke"
                                          /\ request'[r].user = session'[s].user
                                          /\ request'[r].session # s
    BY DEF RevokeDue, At
  <2>1. CASE LeftOver(s) /\ session'[s].user = session[s].user
    <3>1. PICK r \in Requests : /\ At(r, "revoke") /\ request[r].user = session[s].user
                                /\ request[r].session # s
      BY <2>1 DEF RevokeDue
    <3>2. ~RevokeOtherSessions(r)
      BY <2>1, <3>1 DEF RevokeOtherSessions, RevokeAll, LiveOf, LeftOver, Live, Ended, NoSession
    <3>3. ~Fail(r)
      BY <2>1, <3>1 DEF Fail, LiveOf, LeftOver, Live, TypeOK, SessionRow
    <3> QED
      BY <2>1, <3>1, <3>2, <3>3, RevokingStays
  <2> QED
    BY <2>1, NewLeftOver
<1>3. RevokeDue => OldSessionsRevoked
  BY DEF RevokeDue, OldSessionsRevoked, LeftOver
<1> QED
  BY <1>1, <1>2, <1>3, TypeCorrect, PTL DEF Spec

-----------------------------------------------------------------------------
(* Reset links *)

\* What writes the table of links, and the history of overlapping requests.
LEMMA LinkWrites ==
    ASSUME [Next]_vars, token' # token \/ overlapped' # overlapped
    PROVE  \/ \E r \in Requests, t \in Tokens : InsertToken(r, t)
           \/ \E r \in Requests : StartSupersede(r) \/ CompleteReset(r)
           \/ \E t \in Tokens : ExpireToken(t)
<1>1. ASSUME NEW r \in Requests, RequestStep(r)
      PROVE  StartSupersede(r) \/ CompleteReset(r) \/ \E t \in Tokens : InsertToken(r, t)
  <2>1. /\ \A u \in Users : ~CheckCredentials(r, u) /\ ~CreateUser(r, u) /\ ~RequestReset(r, u)
        /\ \A s \in Sessions : ~CreateSession(r, s) /\ ~Authenticate(r, s)
        /\ \A e \in Emails : ~CheckEmail(r, e)
        /\ \A e \in Emails, new \in BOOLEAN : ~CheckProfile(r, e, new)
    BY DEF CheckCredentials, CreateUser, RequestReset, CreateSession, Authenticate, CheckEmail,
           CheckProfile
  <2>2. /\ \A t \in Tokens : ~FindToken(r, t)
        /\ ~Logout(r) /\ ~VerifyPassword(r) /\ ~RevokeOtherSessions(r) /\ ~SendReset(r) /\ ~Fail(r)
    BY DEF FindToken, Logout, VerifyPassword, RevokeOtherSessions, SendReset, Fail
  <2>3. ~UpdateUser(r) /\ ~Supersede(r)
    BY DEF UpdateUser, Supersede
  <2> QED
    BY <1>1, <2>1, <2>2, <2>3 DEF RequestStep
<1>2. \A s \in Sessions : ~ExpireSession(s)
  BY DEF ExpireSession
<1> QED
  BY <1>1, <1>2 DEF Next, vars

\* A used or superseded link resets no password, however many requests have read it as valid.
THEOREM LinksUsedOnce == Spec => UsedLinksAreDead
<1> DEFINE Dead == \A t \in Tokens : token[t].state = "used" => token'[t].resets = token[t].resets
<1>1. TypeOK /\ [Next]_vars => [Dead]_vars
  <2> SUFFICES ASSUME TypeOK, [Next]_vars, token' # token PROVE Dead
    OBVIOUS
  <2>1. ASSUME NEW r \in Requests, NEW t \in Tokens, InsertToken(r, t) PROVE Dead
    <3> SUFFICES ASSUME NEW x \in Tokens PROVE token'[x].resets = token[x].resets
      OBVIOUS
    <3>1. \/ token'[x] = [token[t] EXCEPT !.state = "fresh", !.user = request[r].user] /\ x = t
          \/ token'[x] = [token[x] EXCEPT !.state = "used"]
          \/ token'[x] = token[x]
      BY <2>1 DEF InsertToken
    <3>2. token[x] \in TokenRow /\ token[t] \in TokenRow
      BY DEF TypeOK
    <3>3. /\ [token[t] EXCEPT !.state = "fresh", !.user = request[r].user].resets = token[t].resets
          /\ [token[x] EXCEPT !.state = "used"].resets = token[x].resets
      BY <3>2 DEF TokenRow
    <3> QED
      BY <3>1, <3>3
  <2>2. ASSUME NEW r \in Requests, CompleteReset(r) PROVE Dead
    BY <2>2 DEF CompleteReset, Usable, TypeOK, TokenRow
  <2>3. ASSUME NEW t \in Tokens, ExpireToken(t) PROVE Dead
    BY <2>3 DEF ExpireToken, TypeOK, TokenRow
  <2>4. ASSUME NEW r \in Requests, StartSupersede(r) PROVE Dead
    BY <2>4 DEF StartSupersede
  <2> QED
    BY <2>1, <2>2, <2>3, <2>4, LinkWrites
<1> QED
  BY <1>1, TypeCorrect, PTL DEF Spec, UsedLinksAreDead

\* A transaction that is about to insert a link: it has its snapshot.
Marking(r) == request[r].pc \in {"supersede", "insert"}

\* It has come from StartSupersede, and keeps of its snapshot what is valid.
LEMMA MarkingStays ==
    ASSUME TypeOK, [Next]_vars, NEW r \in Requests, Marking(r)'
    PROVE  \/ /\ Marking(r) /\ request[r].user = request'[r].user
              /\ \A t \in request[r].marking : Fresh(t) => t \in request'[r].marking
           \/ StartSupersede(r)
<1> USE DEF Marking
<1>1. CASE UNCHANGED request
  BY <1>1
<1>2. ASSUME NEW q \in Requests, RequestStep(q), q # r
      PROVE  /\ Marking(r) /\ request[r].user = request'[r].user
             /\ request[r].marking = request'[r].marking
  BY <1>2, RequestsApart
<1>3. CASE RequestStep(r)
  <2> USE IdleType DEF At
  <2>1. ~Done(r)
    BY DEF Done, Idle, TypeOK
  <2>2. /\ \A u \in Users : ~CheckCredentials(r, u) /\ ~CreateUser(r, u) /\ ~RequestReset(r, u)
        /\ \A s \in Sessions : ~CreateSession(r, s) /\ ~Authenticate(r, s)
        /\ \A e \in Emails : ~CheckEmail(r, e)
        /\ \A t \in Tokens : ~FindToken(r, t)
    <3>1. \A u \in Users : ~CheckCredentials(r, u) /\ ~CreateUser(r, u)
      BY <2>1 DEF CheckCredentials, CreateUser, Idle, TypeOK
    <3>2. \A u \in Users : ~RequestReset(r, u)
      BY DEF RequestReset, Idle, TypeOK
    <3>3. \A s \in Sessions : ~CreateSession(r, s) /\ ~Authenticate(r, s)
      BY <2>1 DEF CreateSession, Authenticate, Idle, TypeOK
    <3>4. (\A e \in Emails : ~CheckEmail(r, e)) /\ (\A t \in Tokens : ~FindToken(r, t))
      BY DEF CheckEmail, FindToken, Idle, TypeOK
    <3> QED
      BY <3>1, <3>2, <3>3, <3>4
  <2>3. \A e \in Emails, new \in BOOLEAN : ~CheckProfile(r, e, new)
    BY DEF CheckProfile, TypeOK, RequestVariables
  <2>4. ASSUME NEW t \in Tokens, InsertToken(r, t) PROVE FALSE
    <3>1. request' = [request EXCEPT ![r].pc = "mail", ![r].token = t, ![r].marking = {}]
      BY <2>4 DEF InsertToken
    <3> QED
      BY <3>1 DEF TypeOK, RequestVariables
  <2>5. ~Logout(r) /\ ~VerifyPassword(r) /\ ~RevokeOtherSessions(r) /\ ~SendReset(r) /\ ~Fail(r)
    BY <2>1 DEF Logout, VerifyPassword, RevokeOtherSessions, SendReset, Fail, TypeOK, RequestVariables
  <2>6. ~UpdateUser(r)
    <3> DEFINE revoking == [request EXCEPT ![r].pc = "revoke"]
    <3>1. revoking \in [Requests -> RequestVariables] /\ revoking[r].pc = "revoke"
      BY DEF TypeOK, RequestVariables, PCs
    <3>2. request' # RestaleLogins(revoking, request[r].user)
      <4> HIDE DEF revoking
      <4> QED
        BY <3>1, RestaleLoginsKeeps
    <3> QED
      BY <2>1, <3>2 DEF UpdateUser
  <2>7. ~CompleteReset(r)
    <3> DEFINE ended == [request EXCEPT ![r] = Idle]
    <3>1. ended \in [Requests -> RequestVariables] /\ ended[r].pc = "idle"
      BY DEF TypeOK, Idle
    <3>2. request' # RestaleLogins(ended, request[r].user)
      <4> HIDE DEF ended
      <4> QED
        BY <3>1, RestaleLoginsKeeps
    <3> QED
      BY <2>1, <3>2 DEF CompleteReset
  <2>8. ASSUME Supersede(r)
        PROVE  /\ Marking(r) /\ request[r].user = request'[r].user
               /\ \A t \in request[r].marking : Fresh(t) => t \in request'[r].marking
    <3> DEFINE unused == {t \in request[r].marking : token[t].state # "used"}
    <3>1. request' = [request EXCEPT ![r].pc = "insert", ![r].marking = unused]
      BY <2>8 DEF Supersede
    <3>2. \A t \in request[r].marking : Fresh(t) => t \in unused
      BY DEF Fresh
    <3>3. Marking(r)
      BY <2>8 DEF Supersede
    <3> HIDE DEF unused
    <3> QED
      BY <3>1, <3>2, <3>3 DEF TypeOK, RequestVariables
  <2> QED
    BY <1>3, <2>2, <2>3, <2>4, <2>5, <2>6, <2>7, <2>8 DEF RequestStep
<1> QED
  BY <1>1, <1>2, <1>3 DEF Next, ExpireSession, ExpireToken, vars

\* Until its transaction commits, a request of a user without overlapping ones is the only such
\* request, and its snapshot has all of the user's valid links.
LinkInv ==
    /\ OneValidLink
    /\ \A r \in Requests : Marking(r) /\ request[r].user \notin overlapped =>
          \A t \in Tokens : Fresh(t) /\ token[t].user = request[r].user => t \in request[r].marking
    /\ \A r, q \in Requests : Marking(r) /\ Marking(q) /\ request[r].user = request[q].user =>
          r = q \/ request[r].user \in overlapped

\* A link is valid only if it was valid before, or has just been inserted.
LEMMA ValidBefore ==
    ASSUME TypeOK, [Next]_vars, NEW t \in Tokens, Fresh(t)',
           \A r \in Requests : ~InsertToken(r, t)
    PROVE  Fresh(t) /\ token'[t].user = token[t].user
<1> USE DEF Fresh
<1>1. ASSUME NEW r \in Requests, NEW x \in Tokens, InsertToken(r, x)
      PROVE  Fresh(t) /\ token'[t].user = token[t].user
  <2>1. t # x
    BY <1>1
  <2>2. token'[t] = [token[t] EXCEPT !.state = "used"] \/ token'[t] = token[t]
    BY <1>1, <2>1 DEF InsertToken
  <2>3. token'[t] = token[t]
    BY <2>2 DEF TypeOK, TokenRow
  <2> QED
    BY <2>3
<1>2. ASSUME NEW r \in Requests, CompleteReset(r) PROVE Fresh(t) /\ token'[t].user = token[t].user
  BY <1>2 DEF CompleteReset, TypeOK, TokenRow
<1>3. ASSUME NEW x \in Tokens, ExpireToken(x) PROVE Fresh(t) /\ token'[t].user = token[t].user
  BY <1>3 DEF ExpireToken, TypeOK, TokenRow
<1>4. CASE token' = token
  BY <1>4
<1> QED
  BY <1>1, <1>2, <1>3, <1>4, LinkWrites DEF StartSupersede

LEMMA LinkInvStep == TypeOK /\ LinkInv /\ [Next]_vars => LinkInv'
<1> SUFFICES ASSUME TypeOK, LinkInv, [Next]_vars PROVE LinkInv'
  OBVIOUS
<1>1. ASSUME NEW r \in Requests, StartSupersede(r) PROVE LinkInv'
  <2> DEFINE u == request[r].user
             mine == {t \in Tokens : Fresh(t) /\ token[t].user = u}
             beside == \E q \in Requests : Marking(q) /\ request[q].user = u
  <2>1. /\ At(r, "reset") /\ token' = token
        /\ request' = [request EXCEPT ![r].pc = "supersede", ![r].marking = mine]
        /\ overlapped' = IF beside THEN overlapped \cup {u} ELSE overlapped
    BY <1>1, Zenon DEF StartSupersede, Superseding, Marking
  <2>2. /\ request'[r].pc = "supersede" /\ request'[r].user = u /\ request'[r].marking = mine
        /\ \A q \in Requests \ {r} : request'[q] = request[q]
    <3> HIDE DEF mine, beside
    <3> QED
      BY <2>1 DEF TypeOK, RequestVariables
  <2>3. overlapped \subseteq overlapped' /\ (beside => u \in overlapped')
    <3> HIDE DEF beside
    <3> QED
      BY <2>1
  <2>4. OneValidLink'
    BY <2>1, <2>3 DEF LinkInv, OneValidLink, Fresh
  <2>5. ASSUME NEW q \in Requests, Marking(q)', request'[q].user \notin overlapped',
               NEW t \in Tokens, Fresh(t)', token'[t].user = request'[q].user
        PROVE  t \in request'[q].marking
    <3>1. Fresh(t) /\ token[t].user = request'[q].user
      BY <2>1, <2>5 DEF Fresh
    <3>2. CASE q = r
      BY <2>2, <3>1, <3>2
    <3>3. CASE q # r
      BY <2>2, <2>3, <2>5, <3>1, <3>3 DEF LinkInv, Marking
    <3> QED
      BY <3>2, <3>3
  <2>6. ASSUME NEW p \in Requests, NEW q \in Requests, Marking(p)', Marking(q)',
               request'[p].user = request'[q].user, p # q
        PROVE  request'[p].user \in overlapped'
    <3>1. CASE p = r \/ q = r
      BY <2>2, <2>3, <2>6, <3>1 DEF Marking
    <3>2. CASE p # r /\ q # r
      BY <2>2, <2>3, <2>6, <3>2 DEF LinkInv, Marking
    <3> QED
      BY <3>1, <3>2
  <2> HIDE DEF u, mine, beside
  <2> QED
    BY <2>4, <2>5, <2>6 DEF LinkInv
<1>2. ASSUME \A r \in Requests : ~StartSupersede(r) PROVE LinkInv'
  <2>1. overlapped' = overlapped
    BY <1>2, LinkWrites DEF InsertToken, CompleteReset, ExpireToken
  <2>2. \A r \in Requests : Marking(r)' =>
           /\ Marking(r) /\ request[r].user = request'[r].user
           /\ \A t \in request[r].marking : Fresh(t) => t \in request'[r].marking
    BY <1>2, MarkingStays
  <2>3. ASSUME NEW r \in Requests, NEW t \in Tokens, InsertToken(r, t) PROVE LinkInv'
    <3> DEFINE u == request[r].user
    <3>1. /\ Marking(r)
          /\ token' = [x \in Tokens |->
                IF x = t THEN [token[x] EXCEPT !.state = "fresh", !.user = u]
                ELSE IF x \in request[r].marking THEN [token[x] EXCEPT !.state = "used"]
                ELSE token[x]]
          /\ request' = [request EXCEPT ![r].pc = "mail", ![r].token = t, ![r].marking = {}]
      BY <2>3 DEF InsertToken, At, Marking
    <3>2. ~Marking(r)'
      BY <3>1 DEF Marking, TypeOK, RequestVariables
    <3>3. token'[t].user = u
      <4>1. token'[t] = [token[t] EXCEPT !.state = "fresh", !.user = u]
        BY <3>1
      <4>2. token[t] \in TokenRow
        BY DEF TypeOK
      <4> QED
        BY <4>1, <4>2 DEF TokenRow
    <3>4. \A x \in Tokens \ {t} : Fresh(x)' =>
             Fresh(x) /\ token'[x].user = token[x].user /\ x \notin request[r].marking
      <4> SUFFICES ASSUME NEW x \in Tokens \ {t}, Fresh(x)'
                   PROVE  Fresh(x) /\ token'[x].user = token[x].user /\ x \notin request[r].marking
        OBVIOUS
      <4>1. /\ x \in request[r].marking => token'[x] = [token[x] EXCEPT !.state = "used"]
            /\ x \notin request[r].marking => token'[x] = token[x]
        BY <3>1
      <4>2. token[x] \in TokenRow
        BY DEF TypeOK
      <4> QED
        BY <4>1, <4>2 DEF Fresh, TokenRow
    <3>5. OneValidLink'
      <4> SUFFICES ASSUME NEW x \in Tokens, NEW y \in Tokens, Fresh(x)', Fresh(y)', x # y,
                          token'[x].user = token'[y].user
                   PROVE  token'[x].user \in overlapped
        BY <2>1 DEF OneValidLink
      <4>1. CASE x = t \/ y = t
        BY <3>1, <3>3, <3>4, <4>1 DEF LinkInv
      <4>2. CASE x # t /\ y # t
        BY <3>4, <4>2 DEF LinkInv, OneValidLink
      <4> QED
        BY <4>1, <4>2
    <3>6. ASSUME NEW q \in Requests, Marking(q)', request'[q].user \notin overlapped',
                 NEW x \in Tokens, Fresh(x)', token'[x].user = request'[q].user
          PROVE  x \in request'[q].marking
      <4>1. /\ q # r /\ Marking(q) /\ request[q].user = request'[q].user
            /\ \A y \in request[q].marking : Fresh(y) => y \in request'[q].marking
        BY <2>2, <3>2, <3>6
      <4>2. x # t
        <5>1. request[q].user # u
          <6>1. Marking(r)
            BY <3>1
          <6>2. request[r].user = request[q].user => r = q \/ request[r].user \in overlapped
            BY <4>1, <6>1 DEF LinkInv
          <6>3. request[q].user \notin overlapped
            BY <2>1, <3>6, <4>1
          <6> QED
            BY <4>1, <6>2, <6>3
        <5> QED
          BY <3>3, <3>6, <4>1, <5>1
      <4> QED
        BY <2>1, <3>4, <3>6, <4>1, <4>2 DEF LinkInv
    <3> QED
      BY <2>1, <2>2, <3>5, <3>6 DEF LinkInv
  <2>4. CASE \A r \in Requests, t \in Tokens : ~InsertToken(r, t)
    <3>1. \A t \in Tokens : Fresh(t)' => Fresh(t) /\ token'[t].user = token[t].user
      BY <2>4, ValidBefore
    <3>2. OneValidLink'
      BY <2>1, <3>1 DEF LinkInv, OneValidLink
    <3> QED
      BY <2>1, <2>2, <3>1, <3>2 DEF LinkInv
  <2> QED
    BY <2>3, <2>4
<1> QED
  BY <1>1, <1>2

\* A user has one valid link at a time, unless two of his reset requests have overlapped.
THEOREM OneLink == Spec => []OneValidLink
<1>1. Init => LinkInv
  BY DEF Init, LinkInv, OneValidLink, Fresh, Marking, Idle
<1> QED
  BY <1>1, LinkInvStep, TypeCorrect, PTL DEF Spec, LinkInv

-----------------------------------------------------------------------------
(* What a link is good for *)

\* A link resets a password at most once, and has been used then.
ResetOnce ==
    \A t \in Tokens : \/ token[t].resets = 0
                      \/ token[t].resets = 1 /\ token[t].state = "used"

\* Who confirms a reset acts for the user his link was sent to.
OwnLink ==
    \A r \in Requests : At(r, "confirm") =>
        LET t == request[r].token IN
        /\ t \in Tokens
        /\ token[t].state # "none"
        /\ token[t].user = request[r].user

\* A reset ends the sessions of the user its link was sent to.
ResetEndsSessions ==
    [][\A t \in Tokens, s \in Sessions :
         token'[t].resets # token[t].resets /\ Live(s) /\ session[s].user = token[t].user =>
            session'[s] = Ended]_vars

\* A request comes to confirm a reset by reading its link, and in no other way.
LEMMA ConfirmingComes ==
    ASSUME TypeOK, NEW r \in Requests, RequestStep(r), request'[r].pc = "confirm"
    PROVE  \E t \in Tokens : FindToken(r, t)
<1> USE IdleType
<1>1. ~Done(r)
  BY DEF Done, Idle, TypeOK
<1>2. ASSUME NEW u \in Users PROVE ~CheckCredentials(r, u) /\ ~CreateUser(r, u) /\ ~RequestReset(r, u)
  BY <1>1 DEF CheckCredentials, CreateUser, RequestReset, TypeOK, Idle
<1>3. ASSUME NEW s \in Sessions PROVE ~CreateSession(r, s) /\ ~Authenticate(r, s)
  BY <1>1 DEF CreateSession, Authenticate, TypeOK, Idle
<1>4. ASSUME NEW e \in Emails PROVE ~CheckEmail(r, e)
  BY DEF CheckEmail, TypeOK, Idle
<1>5. ASSUME NEW e \in Emails, NEW new \in BOOLEAN PROVE ~CheckProfile(r, e, new)
  BY DEF CheckProfile, TypeOK, RequestVariables
<1>6. ASSUME NEW t \in Tokens PROVE ~InsertToken(r, t)
  <2> SUFFICES ASSUME InsertToken(r, t) PROVE FALSE
    OBVIOUS
  <2>1. request' = [request EXCEPT ![r].pc = "mail", ![r].token = t, ![r].marking = {}]
    BY DEF InsertToken
  <2> QED
    BY <2>1 DEF TypeOK, RequestVariables
<1>7. ~Logout(r) /\ ~RevokeOtherSessions(r) /\ ~SendReset(r) /\ ~Fail(r)
  BY <1>1 DEF Logout, RevokeOtherSessions, SendReset, Fail
<1>8. ~VerifyPassword(r)
  BY DEF VerifyPassword, TypeOK, RequestVariables
<1>9. ~StartSupersede(r) /\ ~Supersede(r)
  <2> SUFFICES ASSUME StartSupersede(r) \/ Supersede(r) PROVE FALSE
    OBVIOUS
  <2>1. PICK pc \in {"supersede", "insert"}, m \in SUBSET Tokens :
           request' = [request EXCEPT ![r].pc = pc, ![r].marking = m]
    BY SupersedeSteps
  <2> QED
    BY <2>1 DEF TypeOK, RequestVariables
<1>10. ~UpdateUser(r)
  <2> SUFFICES ASSUME UpdateUser(r) PROVE FALSE
    OBVIOUS
  <2> DEFINE revoking == [request EXCEPT ![r].pc = "revoke"]
  <2>1. revoking \in [Requests -> RequestVariables] /\ revoking[r].pc = "revoke"
    BY DEF TypeOK, RequestVariables, PCs
  <2>2. request' = RestaleLogins(revoking, request[r].user)
    BY <1>1 DEF UpdateUser
  <2> HIDE DEF revoking
  <2> QED
    BY <2>1, <2>2, RestaleLoginsKeeps
<1>11. ~CompleteReset(r)
  <2> SUFFICES ASSUME CompleteReset(r) PROVE FALSE
    OBVIOUS
  <2> DEFINE ended == [request EXCEPT ![r] = Idle]
  <2>1. ended \in [Requests -> RequestVariables] /\ ended[r].pc = "idle"
    BY DEF TypeOK, Idle
  <2>2. request' = RestaleLogins(ended, request[r].user)
    BY <1>1 DEF CompleteReset
  <2> HIDE DEF ended
  <2> QED
    BY <2>1, <2>2, RestaleLoginsKeeps
<1> QED
  BY <1>2, <1>3, <1>4, <1>5, <1>6, <1>7, <1>8, <1>9, <1>10, <1>11 DEF RequestStep

\* A link that exists stays the same user's.
LEMMA LinkKeepsUser ==
    ASSUME TypeOK, [Next]_vars, NEW x \in Tokens, token[x].state # "none"
    PROVE  token'[x].state # "none" /\ token'[x].user = token[x].user
<1> DEFINE Kept == token'[x].state # "none" /\ token'[x].user = token[x].user
<1>0. token[x] \in TokenRow
  BY DEF TypeOK
<1> SUFFICES ASSUME token' # token PROVE Kept
  OBVIOUS
<1>1. ASSUME NEW r \in Requests, NEW t \in Tokens, InsertToken(r, t) PROVE Kept
  <2>1. token'[x] = [token[x] EXCEPT !.state = "used"] \/ token'[x] = token[x]
    BY <1>1 DEF InsertToken
  <2> QED
    BY <1>0, <2>1 DEF TokenRow
<1>2. ASSUME NEW r \in Requests, CompleteReset(r) PROVE Kept
  BY <1>0, <1>2 DEF CompleteReset, TypeOK, TokenRow
<1>3. ASSUME NEW t \in Tokens, ExpireToken(t) PROVE Kept
  BY <1>0, <1>3 DEF ExpireToken, TypeOK, TokenRow
<1>4. ASSUME NEW r \in Requests, StartSupersede(r) PROVE Kept
  BY <1>4 DEF StartSupersede
<1> QED
  BY <1>1, <1>2, <1>3, <1>4, LinkWrites

LEMMA OwnLinkStep == TypeOK /\ OwnLink /\ [Next]_vars => OwnLink'
<1> SUFFICES ASSUME TypeOK, OwnLink, [Next]_vars, NEW x \in Requests, request'[x].pc = "confirm"
             PROVE  LET t == request'[x].token IN
                    /\ t \in Tokens /\ token'[t].state # "none"
                    /\ token'[t].user = request'[x].user
  BY DEF OwnLink, At
<1>1. ASSUME /\ request'[x].pc = request[x].pc /\ request'[x].user = request[x].user
             /\ request'[x].token = request[x].token
      PROVE  LET t == request'[x].token IN
             t \in Tokens /\ token'[t].state # "none" /\ token'[t].user = request'[x].user
  BY <1>1, LinkKeepsUser DEF OwnLink, At
<1>2. ASSUME NEW r \in Requests \ {x}, RequestStep(r)
      PROVE  /\ request'[x].pc = request[x].pc /\ request'[x].user = request[x].user
             /\ request'[x].token = request[x].token
  BY <1>2, RequestsApart
<1>3. ASSUME NEW t \in Tokens, FindToken(x, t)
      PROVE  LET y == request'[x].token IN
             y \in Tokens /\ token'[y].state # "none" /\ token'[y].user = request'[x].user
  BY <1>3, IdleType DEF FindToken, Fresh, TypeOK, TokenRow, RequestVariables
<1>4. CASE UNCHANGED request
  BY <1>1, <1>4
<1>5. ASSUME NEW r \in Requests, RequestStep(r)
      PROVE  LET t == request'[x].token IN
             t \in Tokens /\ token'[t].state # "none" /\ token'[t].user = request'[x].user
  <2>1. CASE r = x
    BY <1>3, <1>5, <2>1, ConfirmingComes
  <2>2. CASE r # x
    BY <1>1, <1>2, <1>5, <2>2
  <2> QED
    BY <2>1, <2>2
<1> QED
  BY <1>4, <1>5 DEF Next, vars, ExpireSession, ExpireToken

LEMMA ResetOnceStep == TypeOK /\ OwnLink /\ ResetOnce /\ [Next]_vars => ResetOnce'
<1> SUFFICES ASSUME TypeOK, OwnLink, ResetOnce, [Next]_vars, NEW x \in Tokens
             PROVE  token'[x].resets = 0 \/ (token'[x].resets = 1 /\ token'[x].state = "used")
  BY DEF ResetOnce
<1> DEFINE Once == token'[x].resets = 0 \/ (token'[x].resets = 1 /\ token'[x].state = "used")
<1>0. /\ token[x] \in TokenRow
      /\ token[x].resets = 0 \/ (token[x].resets = 1 /\ token[x].state = "used")
  BY DEF TypeOK, ResetOnce
<1>1. ASSUME NEW r \in Requests, NEW t \in Tokens, InsertToken(r, t) PROVE Once
  <2>1. \/ /\ token'[x] = [token[x] EXCEPT !.state = "fresh", !.user = request[r].user]
           /\ token[x].state = "none"
        \/ token'[x] = [token[x] EXCEPT !.state = "used"]
        \/ token'[x] = token[x]
    BY <1>1 DEF InsertToken
  <2> QED
    BY <1>0, <2>1 DEF TokenRow
<1>2. ASSUME NEW r \in Requests, CompleteReset(r) PROVE Once
  BY <1>0, <1>2 DEF CompleteReset, Usable, TypeOK, TokenRow
<1>3. ASSUME NEW t \in Tokens, ExpireToken(t) PROVE Once
  BY <1>0, <1>3 DEF ExpireToken, Fresh, TypeOK, TokenRow
<1>4. ASSUME NEW r \in Requests, StartSupersede(r) PROVE Once
  BY <1>0, <1>4 DEF StartSupersede
<1> QED
  BY <1>0, <1>1, <1>2, <1>3, <1>4, LinkWrites

\* What a reset does to the sessions of its link's user.
LEMMA ResetEnds ==
    ASSUME TypeOK, OwnLink, [Next]_vars, NEW t \in Tokens, NEW s \in Sessions,
           token'[t].resets # token[t].resets, Live(s), session[s].user = token[t].user
    PROVE  session'[s] = Ended
<1>0. token[t] \in TokenRow
  BY DEF TypeOK
<1>1. \A r \in Requests, x \in Tokens : ~InsertToken(r, x)
  <2> SUFFICES ASSUME NEW r \in Requests, NEW x \in Tokens, InsertToken(r, x) PROVE FALSE
    OBVIOUS
  <2>1. \/ token'[t] = [token[t] EXCEPT !.state = "fresh", !.user = request[r].user]
        \/ token'[t] = [token[t] EXCEPT !.state = "used"]
        \/ token'[t] = token[t]
    BY DEF InsertToken
  <2> QED
    BY <1>0, <2>1 DEF TokenRow
<1>2. \A x \in Tokens : ~ExpireToken(x)
  BY <1>0 DEF ExpireToken, TypeOK, TokenRow
<1>3. \A r \in Requests : ~StartSupersede(r)
  BY DEF StartSupersede
<1>4. PICK r \in Requests : CompleteReset(r)
  BY <1>1, <1>2, <1>3, LinkWrites
<1>5. /\ request[r].token = t /\ request[r].user = token[t].user
      /\ session' = RevokeAll(Restale(request[r].user, Nobody), LiveOf(request[r].user))
  BY <1>0, <1>4 DEF CompleteReset, OwnLink, TypeOK, TokenRow
<1> QED
  BY <1>5 DEF RevokeAll, LiveOf

\* A link resets a password at most once, only that of the user it was sent to, and the
\* reset ends every session of that user: ConfirmPasswordReset takes the user's id from the
\* link it has read, and CompletePasswordReset writes by that id in a later transaction.
THEOREM LinkServesItsUser == Spec => [](ResetOnce /\ OwnLink) /\ ResetEndsSessions
<1>1. Init => OwnLink /\ ResetOnce
  BY DEF Init, OwnLink, ResetOnce, At, Idle
<1>2. TypeOK /\ OwnLink /\ [Next]_vars =>
        [\A t \in Tokens, s \in Sessions :
           token'[t].resets # token[t].resets /\ Live(s) /\ session[s].user = token[t].user =>
              session'[s] = Ended]_vars
  BY ResetEnds
<1> QED
  BY <1>1, <1>2, OwnLinkStep, ResetOnceStep, TypeCorrect, PTL DEF Spec, ResetEndsSessions
=============================================================================
