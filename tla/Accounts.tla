------------------------------ MODULE Accounts ------------------------------
(***************************************************************************)
(* Accounts, sessions and password-reset tokens of the API service          *)
(* (internal/service/auth_service.go, internal/repository/                  *)
(* auth_repository.go).  A request runs its SQL statements one at a time,   *)
(* and other requests run theirs in between; only CreatePasswordResetToken  *)
(* and CompletePasswordReset are transactions.                              *)
(*                                                                          *)
(* Password values are left out: a check is passed by who knows the present *)
(* password, and each change makes another one.  What remains of them is    *)
(* whether the password has changed since a login was checked (`stale').    *)
(***************************************************************************)
EXTENDS Naturals, FiniteSets

CONSTANTS
    Users,      \* rows that users can hold
    Emails,     \* addresses
    Sessions,   \* rows that access_sessions can hold
    Tokens,     \* rows that password_reset_tokens can hold
    Requests,   \* requests handled at the same time
    Nobody      \* stands for a missing user, address, session or token

ASSUME NobodyAssumption ==
    Nobody \notin Users \cup Emails \cup Sessions \cup Tokens

VARIABLES
    email,      \* users.email; Nobody: there is no such row
    session,    \* access_sessions, with the history fields stale (the password
                \* has changed since) and kept (and the code does not revoke it)
    token,      \* password_reset_tokens, with the history field resets
    request,    \* where each request is, and its local variables
    overlapped  \* history: users with overlapping reset requests

vars == <<email, session, token, request, overlapped>>

Idle == [pc |-> "idle", user |-> Nobody, session |-> Nobody, token |-> Nobody,
         seen |-> Nobody, email |-> Nobody, newPassword |-> FALSE,
         stale |-> FALSE, marking |-> {}]

NoSession == [state |-> "none", user |-> Nobody, stale |-> FALSE, kept |-> FALSE]

\* A session that is revoked or has expired; no query tells the two apart.
Ended == [NoSession EXCEPT !.state = "ended"]

Init ==
    \E u \in Users, e \in Emails :
        /\ email = [v \in Users |-> IF v = u THEN e ELSE Nobody]
        /\ session = [s \in Sessions |-> NoSession]
        /\ token = [t \in Tokens |-> [state |-> "none", user |-> Nobody, resets |-> 0]]
        /\ request = [r \in Requests |-> Idle]
        /\ overlapped = {}

At(r, pc) == request[r].pc = pc

Done(r) == request' = [request EXCEPT ![r] = Idle]

Live(s) == session[s].state = "live"

LiveOf(u) == {s \in Sessions : Live(s) /\ session[s].user = u}

Fresh(t) == token[t].state = "fresh"

(* The unique index on users.email. *)
EmailFree(e, u) == \A v \in Users \ {u} : email[v] /= e

\* Rows a transaction of another request has updated and not yet committed.
LockedFor(r) == UNION {request[q].marking : q \in {p \in Requests \ {r} : At(p, "insert")}}

-----------------------------------------------------------------------------
(* Login and registration *)

\* Login: FindUserByCredentials finds the user.
CheckCredentials(r, u) ==
    /\ At(r, "idle")
    /\ email[u] /= Nobody
    /\ request' = [request EXCEPT ![r] = [Idle EXCEPT !.pc = "login", !.user = u]]
    /\ UNCHANGED <<email, session, token, overlapped>>

\* Login: CreateSession.
CreateSession(r, s) ==
    /\ At(r, "login")
    /\ session[s].state = "none"
    /\ session' = [session EXCEPT ![s] =
            [state |-> "live", user |-> request[r].user,
             stale |-> request[r].stale, kept |-> request[r].stale]]
    /\ Done(r)
    /\ UNCHANGED <<email, token, overlapped>>

\* Register: EmailExists.
CheckEmail(r, e) ==
    /\ At(r, "idle")
    /\ EmailFree(e, Nobody)
    /\ request' = [request EXCEPT ![r] = [Idle EXCEPT !.pc = "register", !.email = e]]
    /\ UNCHANGED <<email, session, token, overlapped>>

\* Faulty variant: without the unique index.
CreateUserUnchecked(r, u) ==
    /\ At(r, "register")
    /\ email[u] = Nobody
    /\ email' = [email EXCEPT ![u] = request[r].email]
    /\ Done(r)
    /\ UNCHANGED <<session, token, overlapped>>

\* Register: CreateUser, which the unique index refuses if the address is
\* taken by now.
CreateUser(r, u) ==
    /\ At(r, "register")
    /\ email[u] = Nobody
    /\ email' = IF EmailFree(request[r].email, u)
                THEN [email EXCEPT ![u] = request[r].email] ELSE email
    /\ Done(r)
    /\ UNCHANGED <<session, token, overlapped>>

-----------------------------------------------------------------------------
(* Requests of a user who is logged in *)

\* The middleware: FindSessionUserByTokenHash.
Authenticate(r, s) ==
    /\ At(r, "idle")
    /\ Live(s)
    /\ LET u == session[s].user IN
       request' = [request EXCEPT ![r] = [Idle EXCEPT
            !.pc = "authed", !.user = u, !.session = s, !.seen = email[u]]]
    /\ UNCHANGED <<email, session, token, overlapped>>

\* Logout: RevokeSession.
Logout(r) ==
    /\ At(r, "authed")
    /\ LET s == request[r].session IN
       session' = IF Live(s) THEN [session EXCEPT ![s] = Ended] ELSE session
    /\ Done(r)
    /\ UNCHANGED <<email, token, overlapped>>

\* Faulty variant: only a new password asks for the old one.
NeedsPasswordForPassword(seen, e, newPassword) == newPassword

\* UpdateProfile wants the password for a new address or a new password; the
\* address is compared with the one the middleware has read.
NeedsPassword(seen, e, newPassword) == e /= seen \/ newPassword

\* UpdateProfile: EmailExistsForOtherUser.
CheckProfile(r, e, newPassword) ==
    /\ At(r, "authed")
    /\ EmailFree(e, request[r].user)
    /\ request' = [request EXCEPT
            ![r].pc = IF NeedsPassword(request[r].seen, e, newPassword)
                      THEN "verify" ELSE "update",
            ![r].email = e, ![r].newPassword = newPassword]
    /\ UNCHANGED <<email, session, token, overlapped>>

\* UpdateProfile: VerifyUserPassword.
VerifyPassword(r) ==
    /\ At(r, "verify")
    /\ request' = [request EXCEPT ![r].pc = "verified"]
    /\ UNCHANGED <<email, session, token, overlapped>>

\* The password of u changes: sessions and logins checked against the old one
\* are stale now, and all are to be revoked but the one that makes the change.
Restale(u, own) ==
    [s \in Sessions |-> IF s \in LiveOf(u)
                        THEN [session[s] EXCEPT !.stale = TRUE, !.kept = (s = own)]
                        ELSE session[s]]

RestaleLogins(rr, u) ==
    [q \in Requests |-> IF rr[q].pc = "login" /\ rr[q].user = u
                        THEN [rr[q] EXCEPT !.stale = TRUE] ELSE rr[q]]

\* UpdateProfile: UpdateUserProfile.  With a new password RevokeOtherSessions
\* is still to come, as a statement of its own.
UpdateUser(r) ==
    LET q == request[r] IN
    /\ q.pc \in {"update", "verified"}
    /\ IF ~EmailFree(q.email, q.user)
       THEN Done(r) /\ UNCHANGED <<email, session>>
       ELSE /\ email' = [email EXCEPT ![q.user] = q.email]
            /\ IF q.newPassword
               THEN /\ session' = Restale(q.user, q.session)
                    /\ request' = RestaleLogins(
                            [request EXCEPT ![r].pc = "revoke"], q.user)
               ELSE Done(r) /\ UNCHANGED session
    /\ UNCHANGED <<token, overlapped>>

\* Faulty variant: nothing is revoked.
RevokeNone(ss, which) == ss

RevokeAll(ss, which) == [s \in Sessions |-> IF s \in which THEN Ended ELSE ss[s]]

\* UpdateProfile: RevokeOtherSessions.
RevokeOtherSessions(r) ==
    /\ At(r, "revoke")
    /\ session' = RevokeAll(session, LiveOf(request[r].user) \ {request[r].session})
    /\ Done(r)
    /\ UNCHANGED <<email, token, overlapped>>

-----------------------------------------------------------------------------
(* Password reset *)

\* RequestPasswordReset: FindUserByEmail.
RequestReset(r, u) ==
    /\ At(r, "idle")
    /\ email[u] /= Nobody
    /\ request' = [request EXCEPT ![r] = [Idle EXCEPT !.pc = "reset", !.user = u]]
    /\ UNCHANGED <<email, session, token, overlapped>>

\* Another reset request of u has found its rows and not yet committed.
Superseding(u) == \E q \in Requests : request[q].pc \in {"supersede", "insert"} /\ request[q].user = u

\* CreatePasswordResetToken, first statement: the snapshot of the user's unused, unexpired
\* tokens that its UPDATE goes by.  It has none of the rows that others have inserted and
\* not committed, nor those they commit while it waits.
StartSupersede(r) ==
    LET u == request[r].user IN
    /\ At(r, "reset")
    /\ request' = [request EXCEPT ![r].pc = "supersede",
                       ![r].marking = {t \in Tokens : Fresh(t) /\ token[t].user = u}]
    /\ overlapped' = IF Superseding(u) THEN overlapped \cup {u} ELSE overlapped
    /\ UNCHANGED <<email, session, token>>

\* Faulty variant: the user's other tokens stay valid.
SupersedeNone(r) ==
    /\ At(r, "supersede")
    /\ request' = [request EXCEPT ![r].pc = "insert", ![r].marking = {}]
    /\ UNCHANGED <<email, session, token, overlapped>>

\* The UPDATE waits for rows of the snapshot that others have locked, and marks those that
\* are still unused then.
Supersede(r) ==
    /\ At(r, "supersede")
    /\ request[r].marking \cap LockedFor(r) = {}
    /\ request' = [request EXCEPT ![r].pc = "insert",
                       ![r].marking = {t \in request[r].marking : token[t].state /= "used"}]
    /\ UNCHANGED <<email, session, token, overlapped>>

\* CreatePasswordResetToken, second statement and commit.
InsertToken(r, t) ==
    /\ At(r, "insert")
    /\ token[t].state = "none"
    /\ token' = [x \in Tokens |->
            IF x = t THEN [token[x] EXCEPT !.state = "fresh", !.user = request[r].user]
            ELSE IF x \in request[r].marking THEN [token[x] EXCEPT !.state = "used"]
            ELSE token[x]]
    /\ request' = [request EXCEPT ![r].pc = "mail", ![r].token = t, ![r].marking = {}]
    /\ UNCHANGED <<email, session, overlapped>>

\* RequestPasswordReset: SendPasswordReset, which may deliver the link even
\* when it reports an error (see Fail).
SendReset(r) ==
    /\ At(r, "mail")
    /\ Done(r)
    /\ UNCHANGED <<email, session, token, overlapped>>

\* ConfirmPasswordReset: FindPasswordResetToken, and the checks on what it read.
FindToken(r, t) ==
    /\ At(r, "idle")
    /\ Fresh(t)
    /\ ~\E q \in Requests : At(q, "mail") /\ request[q].token = t
    /\ request' = [request EXCEPT ![r] = [Idle EXCEPT
            !.pc = "confirm", !.user = token[t].user, !.token = t]]
    /\ UNCHANGED <<email, session, token, overlapped>>

\* Faulty variant: the transaction relies on what was read before it.
UsableAsRead(t) == TRUE

\* The transaction updates a token only while used_at is null; expires_at is
\* not looked at again.
Usable(t) == token[t].state /= "used"

\* CompletePasswordReset: one transaction on the user's row, the token's and
\* the sessions', rolled back if the token has been used.  The row lock on
\* the user keeps two of them apart, so it is one step.
CompleteReset(r) ==
    LET u == request[r].user  t == request[r].token IN
    /\ At(r, "confirm")
    /\ t \notin LockedFor(r)
    /\ IF Usable(t)
       THEN /\ token' = [token EXCEPT ![t].state = "used", ![t].resets = @ + 1]
            /\ session' = RevokeAll(Restale(u, Nobody), LiveOf(u))
            /\ request' = RestaleLogins([request EXCEPT ![r] = Idle], u)
       ELSE Done(r) /\ UNCHANGED <<token, session>>
    /\ UNCHANGED <<email, overlapped>>

-----------------------------------------------------------------------------
(* Time and failures *)

ExpireSession(s) ==
    /\ Live(s)
    /\ session' = [session EXCEPT ![s] = Ended]
    /\ UNCHANGED <<email, token, request, overlapped>>

ExpireToken(t) ==
    /\ Fresh(t)
    /\ token' = [token EXCEPT ![t].state = "expired"]
    /\ UNCHANGED <<email, session, request, overlapped>>

\* A statement, the mailer or the connection fails, or the input is refused:
\* the request ends, and an open transaction is rolled back.
Fail(r) ==
    /\ ~At(r, "idle")
    /\ Done(r)
    /\ session' = IF At(r, "revoke")
                  THEN [s \in Sessions |-> IF s \in LiveOf(request[r].user)
                            THEN [session[s] EXCEPT !.kept = TRUE] ELSE session[s]]
                  ELSE session
    /\ UNCHANGED <<email, token, overlapped>>

RequestStep(r) ==
    \/ \E u \in Users : CheckCredentials(r, u) \/ CreateUser(r, u) \/ RequestReset(r, u)
    \/ \E s \in Sessions : CreateSession(r, s) \/ Authenticate(r, s)
    \/ \E e \in Emails : CheckEmail(r, e)
    \/ \E e \in Emails, new \in BOOLEAN : CheckProfile(r, e, new)
    \/ \E t \in Tokens : InsertToken(r, t) \/ FindToken(r, t)
    \/ Logout(r) \/ VerifyPassword(r) \/ UpdateUser(r) \/ RevokeOtherSessions(r)
    \/ StartSupersede(r) \/ Supersede(r) \/ SendReset(r) \/ CompleteReset(r) \/ Fail(r)

Next ==
    \/ \E r \in Requests : RequestStep(r)
    \/ \E s \in Sessions : ExpireSession(s)
    \/ \E t \in Tokens : ExpireToken(t)

Spec == Init /\ [][Next]_vars

-----------------------------------------------------------------------------
(* Properties *)

PCs == {"idle", "login", "register", "authed", "verify", "verified", "update",
        "revoke", "reset", "supersede", "insert", "mail", "confirm"}

SessionRow == [state : {"none", "live", "ended"}, user : Users \cup {Nobody},
               stale : BOOLEAN, kept : BOOLEAN]
TokenRow   == [state : {"none", "fresh", "used", "expired"}, user : Users \cup {Nobody},
               resets : Nat]
RequestVariables ==
    [pc : PCs, user : Users \cup {Nobody}, session : Sessions \cup {Nobody},
     token : Tokens \cup {Nobody}, seen : Emails \cup {Nobody}, email : Emails \cup {Nobody},
     newPassword : BOOLEAN, stale : BOOLEAN, marking : SUBSET Tokens]

\* The types of the rows and of the requests' local variables.
TypeOK ==
    /\ email \in [Users -> Emails \cup {Nobody}]
    /\ session \in [Sessions -> SessionRow]
    /\ token \in [Tokens -> TokenRow]
    /\ request \in [Requests -> RequestVariables]
    /\ overlapped \subseteq Users

\* Two accounts never have one address, although Register and UpdateProfile
\* ask for it in a query before they write it.
EmailsUnique ==
    \A u, v \in Users : u /= v /\ email[u] = email[v] => email[u] = Nobody

\* No password is reset with a link that has been used or superseded, however
\* many confirmations have read it as valid before: CompletePasswordReset asks
\* for used_at again, in its transaction.
UsedLinksAreDead ==
    [][\A t \in Tokens :
         token[t].state = "used" => token'[t].resets = token[t].resets]_vars

\* A user has one valid link at a time, unless two of his reset requests ran
\* side by side: then neither marks the link that the other one inserts, not
\* even if it has waited for it.
OneValidLink ==
    \A t, x \in Tokens :
        Fresh(t) /\ Fresh(x) /\ token[t].user = token[x].user =>
            t = x \/ token[t].user \in overlapped

\* No session outlives the password it was opened with, except: the session
\* that made the change; one whose login checked the old password before the
\* change and was inserted after it; any, while RevokeOtherSessions is still
\* to come or after it has failed.
OldSessionsRevoked ==
    \A s \in Sessions : Live(s) /\ session[s].stale =>
        \/ session[s].kept
        \/ \E r \in Requests : At(r, "revoke") /\ request[r].user = session[s].user

\* The address of an account changes only in a request that has verified the
\* password, or back to the address that request's session was read with.
EmailChangeVerified ==
    [][\A u \in Users :
         email[u] /= Nobody /\ email'[u] /= email[u] =>
            \E r \in Requests : /\ request[r].user = u
                                /\ \/ At(r, "verified")
                                   \/ At(r, "update") /\ email'[u] = request[r].seen]_vars
=============================================================================
