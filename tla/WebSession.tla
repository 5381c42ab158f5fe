----------------------------- MODULE WebSession -----------------------------
(***************************************************************************)
(* Who is signed in, and what is shown, in one tab of a browser: the token   *)
(* in localStorage, which other tabs change too, and in React's state; the   *)
(* query for /auth/me; the guards of the routes; login, logout and the forms *)
(* without a session; and the cached answers that outlive a page.            *)
(*                                                                           *)
(* Code: web-client/src: pages/auth, app/router.tsx and its guards,          *)
(* shared/lib/{tokenStorage,queryKeys}.ts, shared/api/http.ts.               *)
(*                                                                           *)
(* What a request brings is the user it was answered for, or Denied.  The    *)
(* query for files stands for the keys that clearSession removes.            *)
(***************************************************************************)
EXTENDS Naturals, FiniteSets

CONSTANTS
    Users,
    Admins,     \* the users with the role admin
    MaxTokens,  \* bound on the access tokens that are issued
    MaxPending, \* bound on the requests of a tab under way, /auth/me apart
    Opened,     \* pages that are opened later, by their URL or through the history
    None,       \* no user, no token, no page
    Denied,     \* the answer of a request without a valid session
    Idle,       \* no request is under way
    Paused      \* a request that waits for the network

\* Access tokens, in the order they are issued.
Tokens == 1 .. MaxTokens

ASSUME SessionAssumption ==
    /\ MaxTokens \in Nat /\ MaxPending \in Nat
    /\ Admins \subseteq Users
    /\ None \notin Users \cup Tokens
    /\ {Denied, Idle, Paused} \cap (Users \cup Tokens \cup {None}) = {}
    /\ Denied # Idle /\ Denied # Paused /\ Idle # Paused

PublicPages == {"login", "register", "forgot", "reset"}

\* "files" stands for every page of a user, "analytics" for every page of an
\* admin; "folder" is the page of files with a folder in its query string; "app"
\* is the index that leads on, "unknown" is any other path.
UserPages == {"files", "folder"}
AdminPages == {"analytics"}
PrivatePages == UserPages \cup AdminPages \cup {"app", "profile"}
Pages == PublicPages \cup PrivatePages \cup {"landing", "unknown"}

ASSUME OpenedAssumption == Opened \subseteq Pages

VARIABLES
    owner,      \* server: whom a token has been issued to
    live,       \* server: tokens whose session is valid
    storage,    \* localStorage: the token
    tab         \* the state of the tab

vars == <<owner, live, storage, tab>>

\* A location: its page and the page that RequireAuth came from.
At(page, from) == [page |-> page, from |-> from]

\* What the API service answers to a request that carries token k.
Answer(k) == IF k \in live THEN owner[k] ELSE Denied

\* The interceptor of http.ts takes the token from localStorage, not from the tab.
Bearer == storage

\* A page that has just been loaded: token is read once.  location is the
\* router's, shown the one React has rendered.  me and asked are the data and the
\* request of the /auth/me query, login whether one is pending and from the page it
\* was asked for on the way to, form the other form that is pending, save the answer to a profile update,
\* logout the token a pending logout was sent with.  Histories: mixed, since then another
\* tab has changed localStorage, or this one has signed in over a session (a login
\* that waited for the network like the session's restoration); late, an answer
\* for an earlier session has been stored.
Loaded(page, asked) ==
    [token |-> storage, location |-> At(page, None), shown |-> At(page, None),
     me |-> None, asked |-> asked, login |-> FALSE, from |-> None, form |-> Idle, logout |-> Idle,
     save |-> Idle, files |-> None, fetch |-> Idle, mixed |-> FALSE, late |-> FALSE]

Init ==
    /\ owner = [k \in Tokens |-> None] /\ live = {}
    /\ storage = None
    /\ \E page \in Pages : tab = Loaded(page, Idle)

-----------------------------------------------------------------------------
(* useAuthSession: what the rest of the program is told *)

\* me holds the login's answer from the start, so it never needs the fallback
\* to the mutation's data.
UserOf == IF tab.token = None THEN None ELSE tab.me

Restoring ==
    /\ tab.token # None /\ tab.me = None
    /\ tab.asked \notin {Idle, Paused}

\* Faulty variant: everybody starts at the files.
FilesForAll(u) == "files"

Home(u) == IF u \in Admins THEN "analytics" ELSE "files"

MayEnter(u, page) ==
    /\ page \in UserPages => u \notin Admins
    /\ page \in AdminPages => u \in Admins

-----------------------------------------------------------------------------
(* The guards: where the rendered page sends the tab, if anywhere *)

PublicOnly == IF UserOf = None THEN {} ELSE {At(Home(UserOf), None)}

RequireAuth == IF UserOf = None THEN {At("login", tab.shown.page)} ELSE {}

RequireRole ==
    IF UserOf = None \/ MayEnter(UserOf, tab.shown.page)
    THEN {} ELSE {At(Home(UserOf), None)}

RoleIndexRedirect ==
    IF tab.shown.page # "app" \/ UserOf = None
    THEN {} ELSE {At(Home(UserOf), None)}

Redirects ==
    LET page == tab.shown.page IN
    IF page = "unknown" THEN {At("files", None)}
    ELSE IF page = "landing" \/ Restoring THEN {}
    ELSE IF page \in PublicPages THEN PublicOnly
    ELSE RequireAuth \cup RequireRole \cup RoleIndexRedirect

\* The page itself is on the screen, not a spinner or a redirect.
Rendered == Redirects = {} /\ (tab.shown.page = "landing" \/ ~Restoring)

\* <Navigate> acts when it is rendered, and once.
Redirect ==
    /\ Redirects # {} /\ tab.location \notin Redirects
    /\ \E target \in Redirects : tab' = [tab EXCEPT !.location = target]
    /\ UNCHANGED <<owner, live, storage>>

\* A location is rendered in a transition, after updates of the session.
Render ==
    /\ tab.shown # tab.location
    /\ tab' = [tab EXCEPT !.shown = tab.location]
    /\ UNCHANGED <<owner, live, storage>>

-----------------------------------------------------------------------------
(* tokenStorage and clearSession *)

Store(k, new) == storage' = k /\ tab' = new

\* Faulty variant: the files of the last user stay in the cache.
ClearedButFiles ==
    [tab EXCEPT !.token = None, !.me = None, !.asked = Idle,
                   !.mixed = FALSE, !.late = FALSE]

\* clearSession: what is under way for a removed query comes to nothing.
Cleared ==
    [tab EXCEPT !.token = None, !.me = None, !.asked = Idle,
                   !.files = None, !.fetch = Idle,
                   !.mixed = FALSE, !.late = FALSE]

-----------------------------------------------------------------------------
(* The /auth/me query *)

\* Sent again after a reconnect, or for the first time when the network is back.
AskMe ==
    /\ tab.token # None /\ tab.asked \in {Idle, Paused}
    /\ tab' = [tab EXCEPT !.asked = Answer(Bearer)]
    /\ UNCHANGED <<owner, live, storage>>

MeArrives ==
    /\ tab.asked \in Users
    /\ tab' = [tab EXCEPT !.me = tab.asked, !.asked = Idle, !.late = FALSE]
    /\ UNCHANGED <<owner, live, storage>>

\* Faulty variant: only the tab forgets the token.
MeFailsInTab ==
    /\ tab.asked \in Users \cup {Denied}
    /\ Store(storage, Cleared)
    /\ UNCHANGED <<owner, live>>

\* The effect of AuthSessionProvider: any error, of the network too, ends the
\* session in the browser.
MeFails ==
    /\ tab.asked \in Users \cup {Denied}
    /\ Store(None, Cleared)
    /\ UNCHANGED <<owner, live>>

-----------------------------------------------------------------------------
(* Where the code leads the tab *)

\* useBlocker: a profile form with unsaved changes asks first, and the user may stay.
Lead(page) ==
    {At(page, None)} \cup (IF tab.shown.page = "profile" THEN {tab.location} ELSE {})

-----------------------------------------------------------------------------
(* The pages without a session *)

\* What is under way is bounded.
Pending ==
    Cardinality({r \in {"form", "logout", "save", "fetch"} : tab[r] # Idle})
    + (IF tab.login THEN 1 ELSE 0)

CanAsk == Rendered /\ Pending < MaxPending

\* The card's inputs are disabled while a login is pending.
SubmitLogin ==
    /\ CanAsk /\ tab.shown.page = "login" /\ ~tab.login
    /\ tab' = [tab EXCEPT !.login = TRUE, !.from = tab.shown.from]
    /\ UNCHANGED <<owner, live, storage>>

\* Faulty variant: the token is not u's.
IssueToNobody(k, u) ==
    /\ owner[k] = None /\ \A j \in 1 .. k - 1 : owner[j] # None
    /\ live' = live \cup {k}
    /\ UNCHANGED owner

\* The API service issues a token to u.
Issue(k, u) ==
    /\ owner[k] = None /\ \A j \in 1 .. k - 1 : owner[j] # None
    /\ owner' = [owner EXCEPT ![k] = u]
    /\ live' = live \cup {k}

\* handleLogin goes back to where RequireAuth came from, without its query.
Pathname(page) == IF page = "folder" THEN "files" ELSE page

AfterLogin(u) ==
    IF tab.from = None THEN Home(u) ELSE Pathname(tab.from)

\* The redirect of PublicOnly, rendered before the transition, may come after.
\* No query is removed.
LoginSucceeds(k, u) ==
    /\ tab.login
    /\ Issue(k, u)
    /\ \E target \in Lead(AfterLogin(u)) :
         Store(k, [tab EXCEPT
            !.token = k, !.me = u, !.asked = u, !.login = FALSE,
            !.from = None, !.location = target,
            !.mixed = tab.token # None, !.late = FALSE])

\* Refused, or the answer is lost: nobody has the token it may have brought.
LoginFails ==
    /\ tab.login
    /\ tab' = [tab EXCEPT !.login = FALSE, !.from = None]
    /\ UNCHANGED <<owner, live, storage>>

Forms == {"register", "forgot", "reset"}

SubmitForm ==
    /\ CanAsk /\ tab.shown.page \in Forms /\ tab.form = Idle
    /\ tab' = [tab EXCEPT !.form = tab.shown.page]
    /\ UNCHANGED <<owner, live, storage>>

\* A registered account or a new password leads to the login page, wherever the
\* tab has gone meanwhile.
LeaveForm(form) ==
    /\ tab.form = form
    /\ \E target \in Lead("login") :
         tab' = [tab EXCEPT !.form = Idle, !.location = target]
    /\ UNCHANGED storage

Registered == LeaveForm("register") /\ UNCHANGED <<owner, live>>

\* A new password ends all sessions of its user.
PasswordReset ==
    /\ LeaveForm("reset")
    /\ \E u \in Users : live' = {k \in live : owner[k] # u}
    /\ UNCHANGED owner

\* The e-mail of "forgot" has been asked for, or one of the forms has failed.
FormStays ==
    /\ tab.form # Idle
    /\ tab' = [tab EXCEPT !.form = Idle]
    /\ UNCHANGED <<owner, live, storage>>

-----------------------------------------------------------------------------
(* The pages of a session *)

\* handleLogout of either layout, once it has been confirmed: the request
\* carries the stored token, which need not be the tab's.
StartLogout ==
    /\ CanAsk /\ tab.shown.page \in PrivatePages /\ tab.logout = Idle
    /\ tab' = [tab EXCEPT !.logout = Bearer]
    /\ UNCHANGED <<owner, live, storage>>

\* Whether the API service has been reached or not.
LogoutEnds ==
    /\ tab.logout # Idle
    /\ live' \in {live, live \ {tab.logout}}
    /\ \E target \in Lead("login") :
         Store(None, [Cleared EXCEPT !.logout = Idle, !.location = target])
    /\ UNCHANGED owner

SaveProfile ==
    /\ CanAsk /\ tab.shown.page = "profile" /\ tab.save = Idle
    /\ tab' = [tab EXCEPT !.save = Answer(Bearer)]
    /\ UNCHANGED <<owner, live, storage>>

\* The answer is stored for the tab's token of now.
ProfileSaved ==
    /\ tab.save \in Users
    /\ IF tab.token = None
       THEN tab' = [tab EXCEPT !.save = Idle]
       ELSE tab' = [tab EXCEPT !.save = Idle, !.me = tab.save,
                                  !.late = tab.save # owner[tab.token]]
    /\ UNCHANGED <<owner, live, storage>>

SaveFails ==
    /\ tab.save # Idle
    /\ tab' = [tab EXCEPT !.save = Idle]
    /\ UNCHANGED <<owner, live, storage>>

\* The query of the page on the screen, when it is mounted, and after a reconnect.
Fetch ==
    /\ CanAsk /\ UserOf # None /\ tab.shown.page \in {"files", "folder"}
    /\ tab.fetch = Idle
    /\ tab' = [tab EXCEPT !.fetch = Answer(Bearer)]
    /\ UNCHANGED <<owner, live, storage>>

\* Also when the page has been left.
Arrives ==
    /\ tab.fetch \in Users
    /\ tab' = [tab EXCEPT !.files = tab.fetch, !.fetch = Idle]
    /\ UNCHANGED <<owner, live, storage>>

\* A 401 is an error like any other: the session goes on.
FetchFails ==
    /\ tab.fetch # Idle
    /\ tab' = [tab EXCEPT !.fetch = Idle]
    /\ UNCHANGED <<owner, live, storage>>

-----------------------------------------------------------------------------
(* Moving about *)

\* The landing page's buttons.
PrimaryTarget == IF UserOf = None THEN "register" ELSE Home(UserOf)
LandingLinks == {PrimaryTarget} \cup (IF UserOf = None THEN {"login"} ELSE {})

\* The sidebar, and the account menu beside it.
MenuLinks == {"profile"} \cup (IF UserOf \in Admins THEN AdminPages ELSE UserPages)

\* The frame of the pages without a session has a button that goes back, or to
\* the landing page from a history without entries.
AuthShell == {"landing"}

\* What the page on the screen links to.
Links ==
    CASE tab.shown.page = "landing" -> LandingLinks
      [] tab.shown.page = "login" -> {"register", "forgot"} \cup AuthShell
      [] tab.shown.page \in PublicPages \ {"login"} -> {"login"} \cup AuthShell
      [] OTHER -> MenuLinks

Go(page) ==
    /\ tab.location = tab.shown
    /\ tab' = [tab EXCEPT !.location = At(page, None)]
    /\ UNCHANGED <<owner, live, storage>>

Move == Rendered /\ \E page \in Links : Go(page)

\* An entry of the history, which may date from another user.
Back == \E page \in Opened : Go(page)

\* A URL, in a tab that is loaded anew, with or without the network.
Open ==
    /\ \E page \in Opened :
       IF storage = None THEN tab' = Loaded(page, Idle)
       ELSE \E asked \in {Answer(Bearer), Paused} : tab' = Loaded(page, asked)
    /\ UNCHANGED <<owner, live, storage>>

\* A session ends on the server: it expires, or is revoked from elsewhere.
Expire(k) ==
    /\ k \in live
    /\ live' = live \ {k}
    /\ UNCHANGED <<owner, storage, tab>>

\* Another tab signs in, or out, with or without reaching the server.
OtherSignsIn(k) ==
    /\ \E u \in Users : Issue(k, u)
    /\ storage' = k
    /\ tab' = [tab EXCEPT !.mixed = TRUE]

OtherSignsOut ==
    /\ storage # None
    /\ storage' = None
    /\ live' \in {live, live \ {storage}}
    /\ tab' = [tab EXCEPT !.mixed = TRUE]
    /\ UNCHANGED owner

TabStep ==
    \/ Redirect \/ Render
    \/ AskMe \/ MeArrives \/ MeFails
    \/ SubmitLogin \/ LoginFails
    \/ \E k \in Tokens, u \in Users : LoginSucceeds(k, u)
    \/ SubmitForm \/ Registered \/ PasswordReset \/ FormStays
    \/ StartLogout \/ LogoutEnds \/ SaveProfile \/ ProfileSaved \/ SaveFails
    \/ Fetch \/ Arrives \/ FetchFails
    \/ Move \/ Back \/ Open

Next ==
    \/ TabStep
    \/ \E k \in Tokens : Expire(k) \/ OtherSignsIn(k)
    \/ OtherSignsOut

Spec == Init /\ [][Next]_vars

\* React renders what is pending and runs effects, and a request to /auth/me is
\* answered or times out after 20 seconds.  Users and other requests owe nothing.
Fairness ==
    /\ WF_vars(Redirect) /\ WF_vars(Render)
    /\ WF_vars(MeArrives \/ MeFails)

FairSpec == Spec /\ Fairness

-----------------------------------------------------------------------------
(* Properties *)

Locations == [page : Pages, from : Pages \cup {None}]
Answers == Users \cup {Denied, Idle}

TypeOK ==
    /\ owner \in [Tokens -> Users \cup {None}]
    /\ live \subseteq {k \in Tokens : owner[k] # None}
    /\ storage \in {None} \cup {k \in Tokens : owner[k] # None}
    /\ tab \in
         [token : {None} \cup {k \in Tokens : owner[k] # None},
          location : Locations, shown : Locations,
          me : Users \cup {None}, asked : Answers \cup {Paused},
          login : BOOLEAN, from : Pages \cup {None}, form : Forms \cup {Idle},
          logout : Tokens \cup {None, Idle}, save : Answers,
          files : Users \cup {None}, fetch : Answers,
          mixed : BOOLEAN, late : BOOLEAN]

\* The token a tab shows its user for is the one its requests carry, unless
\* another tab has signed in or out since: login, logout and a failed /auth/me
\* change both together.
TokenIsStored == ~tab.mixed => storage = tab.token

\* Nobody is shown as, or sees the cached files of, someone else than the owner
\* of the tab's token, also when an account was left with requests under way;
\* except through another tab's login, or a profile answer that comes late.  It
\* speaks of the keys that clearSession removes; that of the insights page names
\* no user and is not one of them.
Own == IF tab.token = None THEN {None} ELSE {None, owner[tab.token]}

ShownIsOwn ==
    ~tab.mixed =>
        /\ tab.files \in Own
        /\ tab.late \/ UserOf \in Own

\* Guards, redirects and the session's restoration come to rest: once nobody
\* interferes any more, the tab shows a page that its user may see.
Undisturbed == Redirect \/ Render \/ MeArrives \/ MeFails

AtRest == tab.location = tab.shown /\ Rendered

Settles == <>[][Undisturbed]_vars => <>[]AtRest
=============================================================================
