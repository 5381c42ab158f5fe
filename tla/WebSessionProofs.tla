-------------------------- MODULE WebSessionProofs --------------------------
(***************************************************************************)
(* Who is shown in a tab, for every number of users and tokens, whatever   *)
(* other tabs do, and with any number of requests under way.               *)
(***************************************************************************)
EXTENDS WebSession, TLAPS

-----------------------------------------------------------------------------
(* Types *)

Issued == {k \in Tokens : owner[k] # None}

TabType(issued) ==
    [token : {None} \cup issued,
     location : Locations, shown : Locations,
     me : Users \cup {None}, asked : Answers \cup {Paused},
     login : BOOLEAN, from : Pages \cup {None}, form : Forms \cup {Idle},
     logout : Tokens \cup {None, Idle}, save : Answers,
     files : Users \cup {None}, fetch : Answers,
     mixed : BOOLEAN, late : BOOLEAN]

LEMMA TypeOKIs ==
    TypeOK <=> /\ owner \in [Tokens -> Users \cup {None}]
               /\ live \subseteq Issued /\ storage \in {None} \cup Issued
               /\ tab \in TabType(Issued)
BY DEF TypeOK, TabType, Issued

\* A request is answered for a user or denied.
LEMMA AnswerType ==
    ASSUME TypeOK, NEW k PROVE Answer(k) \in Users \cup {Denied}
BY DEF TypeOK, Answer

LEMMA HomeType == \A u : Home(u) \in Pages
BY DEF Home, Pages, PrivatePages, UserPages, AdminPages

LEMMA PathnameType == \A p \in Pages : Pathname(p) \in Pages
BY DEF Pathname, Pages, PrivatePages, UserPages, AdminPages

LEMMA AtType ==
    /\ \A p \in Pages, q \in Pages \cup {None} : At(p, q) \in Locations
    /\ \A p \in Pages : At(p, None) \in Locations
BY DEF At, Locations

\* Redirects, links and the targets of forms are locations of the router.
LEMMA RedirectsType == TypeOK => Redirects \subseteq Locations
<1> SUFFICES ASSUME TypeOK PROVE Redirects \subseteq Locations
  OBVIOUS
<1>1. tab.shown.page \in Pages
  BY DEF TypeOK, Locations
<1>2. {"login", "files"} \subseteq Pages
  BY DEF Pages, PrivatePages, PublicPages, UserPages
<1>3. \A u : At(Home(u), None) \in Locations
  BY HomeType, AtType
<1>4. At("login", tab.shown.page) \in Locations /\ At("files", None) \in Locations
  BY <1>1, <1>2, AtType
<1> QED
  BY <1>3, <1>4 DEF Redirects, PublicOnly, RequireAuth, RequireRole, RoleIndexRedirect

LEMMA LeadType ==
    ASSUME TypeOK, NEW p \in Pages PROVE Lead(p) \subseteq Locations
BY AtType DEF Lead, TypeOK

LEMMA LinksType == TypeOK => Links \subseteq Pages
<1> SUFFICES ASSUME TypeOK PROVE Links \subseteq Pages
  OBVIOUS
<1>1. LandingLinks \subseteq Pages
  BY HomeType DEF LandingLinks, PrimaryTarget, Pages, PublicPages
<1>2. MenuLinks \subseteq Pages
  BY DEF MenuLinks, Pages, PrivatePages, UserPages, AdminPages
<1>3. AuthShell \subseteq Pages /\ {"login", "register", "forgot"} \subseteq Pages
  BY DEF AuthShell, Pages, PublicPages
<1> QED
  BY <1>1, <1>2, <1>3 DEF Links

LEMMA LoadedType ==
    ASSUME TypeOK, NEW p \in Pages, NEW a \in Answers \cup {Paused}
    PROVE  Loaded(p, a) \in TabType(Issued)
<1>1. At(p, None) \in Locations
  BY AtType
<1> QED
  BY <1>1 DEF Loaded, TypeOK, TabType, Issued, Answers

LEMMA ClearedType == TypeOK => Cleared \in TabType(Issued)
BY TypeOKIs DEF TabType, Cleared, Answers

LEMMA TypeInit == Init => TypeOK
<1> SUFFICES ASSUME Init PROVE TypeOK
  OBVIOUS
<1>1. PICK page \in Pages : tab = Loaded(page, Idle)
  BY DEF Init
<1>2. At(page, None) \in Locations
  BY AtType
<1> QED
  BY <1>1, <1>2 DEF Init, TypeOK, Loaded, Answers

\* A token that is issued has been nobody's before.
LEMMA IssueType ==
    ASSUME TypeOK, NEW k \in Tokens, NEW u \in Users, Issue(k, u)
    PROVE  /\ owner' \in [Tokens -> Users \cup {None}]
           /\ Issued' = Issued \cup {k} /\ k \notin Issued /\ owner'[k] = u
           /\ \A j \in Issued : owner'[j] = owner[j]
           /\ live' \subseteq Issued'
BY SessionAssumption DEF TypeOK, Issue, Issued

LEMMA TypeStep == TypeOK /\ [Next]_vars => TypeOK'
<1> SUFFICES ASSUME TypeOK, [Next]_vars PROVE TypeOK'
  OBVIOUS
<1> USE TypeOKIs
<1>0. /\ tab \in TabType(Issued) /\ tab.shown \in Locations /\ tab.shown.page \in Pages
      /\ tab.shown.from \in Pages \cup {None}
  BY DEF TabType, Locations
<1>login. "login" \in Pages
  BY DEF Pages, PublicPages
<1>a. ASSUME UNCHANGED <<owner, live, storage>>, tab' \in TabType(Issued) PROVE TypeOK'
  BY <1>a DEF TypeOK, TabType, Issued
<1>b. ASSUME UNCHANGED <<owner, live>>, storage' = None, tab' \in TabType(Issued) PROVE TypeOK'
  BY <1>b DEF TypeOK, TabType, Issued
<1>c. ASSUME owner' \in [Tokens -> Users \cup {None}], live' \subseteq Issued',
             storage' \in {None} \cup Issued', tab' \in TabType(Issued')
      PROVE  TypeOK'
  BY <1>c DEF TypeOK, TabType, Issued
<1>d. owner' = owner => Issued' = Issued
  BY DEF Issued
<1>1. CASE Redirect
  BY <1>1, <1>a, <1>0, RedirectsType DEF Redirect, TabType
<1>2. CASE Render
  BY <1>2, <1>a, <1>0 DEF Render, TabType
<1>3. CASE AskMe
  BY <1>3, <1>a, <1>0, AnswerType DEF AskMe, TabType, Answers
<1>4. CASE MeArrives
  BY <1>4, <1>a, <1>0 DEF MeArrives, TabType, Answers
<1>5. CASE MeFails
  BY <1>5, <1>b, ClearedType DEF MeFails, Store
<1>6. CASE SubmitLogin
  BY <1>6, <1>a, <1>0 DEF SubmitLogin, TabType
<1>7. CASE LoginFails
  BY <1>7, <1>a, <1>0 DEF LoginFails, TabType
<1>8. ASSUME NEW k \in Tokens, NEW u \in Users, LoginSucceeds(k, u) PROVE TypeOK'
  <2>1. AfterLogin(u) \in Pages
    BY <1>0, HomeType, PathnameType DEF AfterLogin, TabType
  <2>2. Lead(AfterLogin(u)) \subseteq Locations
    BY <2>1, LeadType
  <2>3. PICK target \in Lead(AfterLogin(u)) :
           Store(k, [tab EXCEPT !.token = k, !.me = u, !.asked = u, !.login = FALSE,
                                !.from = None, !.location = target,
                                !.mixed = tab.token # None, !.late = FALSE])
    BY <1>8 DEF LoginSucceeds
  <2>4. tab' \in TabType(Issued \cup {k}) /\ storage' = k
    <3> DEFINE over == tab.token # None
    <3>1. target \in Locations /\ over \in BOOLEAN
      BY <2>2
    <3>2. tab' = [tab EXCEPT !.token = k, !.me = u, !.asked = u, !.login = FALSE, !.from = None,
                             !.location = target, !.mixed = over, !.late = FALSE]
      BY <2>3 DEF Store
    <3> HIDE DEF over
    <3> QED
      BY <2>3, <3>1, <3>2, <1>0 DEF Store, TabType, Answers, over
  <2> QED
    BY <1>8, <1>c, <2>4, IssueType DEF LoginSucceeds
<1>9. CASE SubmitForm
  BY <1>9, <1>a, <1>0 DEF SubmitForm, TabType
<1>10. ASSUME NEW form, LeaveForm(form) PROVE UNCHANGED storage /\ tab' \in TabType(Issued)
  BY <1>10, <1>0, <1>login, LeadType DEF LeaveForm, TabType
<1>11. CASE Registered
  BY <1>11, <1>10, <1>a DEF Registered
<1>12. CASE PasswordReset
  <2>1. tab' \in TabType(Issued) /\ UNCHANGED <<owner, storage>> /\ live' \subseteq live
    BY <1>12, <1>10 DEF PasswordReset
  <2> QED
    BY <2>1, <1>c, <1>d
<1>13. CASE FormStays
  BY <1>13, <1>a, <1>0 DEF FormStays, TabType
<1>14. CASE StartLogout
  BY <1>14, <1>a, <1>0 DEF StartLogout, TabType, Bearer, Issued
<1>15. CASE LogoutEnds
  <2>1. Lead("login") \subseteq Locations
    BY LeadType, <1>login
  <2>2. tab' \in TabType(Issued)
    BY <1>15, <2>1, ClearedType DEF LogoutEnds, Store, TabType
  <2> QED
    BY <1>15, <1>c, <1>d, <2>2 DEF LogoutEnds, Store
<1>16. CASE SaveProfile
  BY <1>16, <1>a, <1>0, AnswerType DEF SaveProfile, TabType, Answers
<1>17. CASE ProfileSaved
  <2>1. tab' \in TabType(Issued)
    <3>1. CASE tab.token = None
      BY <1>17, <3>1, <1>0 DEF ProfileSaved, TabType, Answers
    <3>2. CASE tab.token # None
      <4> DEFINE others == tab.save # owner[tab.token]
      <4>1. others \in BOOLEAN
        OBVIOUS
      <4>2. tab.save \in Users /\ tab' = [tab EXCEPT !.save = Idle, !.me = tab.save, !.late = others]
        BY <1>17, <3>2 DEF ProfileSaved
      <4> HIDE DEF others
      <4> QED
        BY <4>1, <4>2, <1>0 DEF TabType, Answers
    <3> QED
      BY <3>1, <3>2
  <2> QED
    BY <1>17, <1>a, <2>1 DEF ProfileSaved
<1>18. CASE SaveFails
  BY <1>18, <1>a, <1>0 DEF SaveFails, TabType, Answers
<1>19. CASE Fetch
  BY <1>19, <1>a, <1>0, AnswerType DEF Fetch, TabType, Answers
<1>20. CASE Arrives
  BY <1>20, <1>a, <1>0 DEF Arrives, TabType, Answers
<1>21. CASE FetchFails
  BY <1>21, <1>a, <1>0 DEF FetchFails, TabType, Answers
<1>22. ASSUME NEW page \in Pages, Go(page) PROVE TypeOK'
  BY <1>22, <1>a, <1>0, AtType DEF Go, TabType
<1>23. CASE Move
  BY <1>23, <1>22, LinksType DEF Move
<1>24. CASE Back
  BY <1>24, <1>22, OpenedAssumption DEF Back
<1>25. CASE Open
  BY <1>25, <1>a, LoadedType, AnswerType, OpenedAssumption DEF Open, Answers
<1>26. ASSUME NEW k \in Tokens, Expire(k) PROVE TypeOK'
  BY <1>26 DEF Expire, TypeOK
<1>27. ASSUME NEW k \in Tokens, OtherSignsIn(k) PROVE TypeOK'
  <2>1. PICK u \in Users : Issue(k, u)
    BY <1>27 DEF OtherSignsIn
  <2>2. tab' \in TabType(Issued \cup {k}) /\ storage' = k
    BY <1>27, <1>0 DEF OtherSignsIn, TabType
  <2> QED
    BY <2>1, <2>2, <1>c, IssueType
<1>28. CASE OtherSignsOut
  <2>1. tab' \in TabType(Issued)
    BY <1>28, <1>0 DEF OtherSignsOut, TabType
  <2> QED
    BY <1>28, <2>1 DEF OtherSignsOut, TypeOK, Issued
<1>29. CASE UNCHANGED vars
  BY <1>29 DEF vars, TypeOK
<1> QED
  BY <1>1, <1>2, <1>3, <1>4, <1>5, <1>6, <1>7, <1>8, <1>9, <1>11, <1>12, <1>13, <1>14, <1>15,
     <1>16, <1>17, <1>18, <1>19, <1>20, <1>21, <1>23, <1>24, <1>25, <1>26, <1>27, <1>28, <1>29
  DEF Next, TabStep

\* The types of the tab, the tokens and the storage, for every number of users and tokens.
THEOREM TypeCorrect == Spec => []TypeOK
BY TypeInit, TypeStep, PTL DEF Spec

-----------------------------------------------------------------------------
(* Tokens and owners *)

\* Without a token nothing is cached and nothing asked, also after another tab
\* has changed the storage.
Blank == tab.token = None => tab.files = None /\ tab.fetch = Idle /\ tab.asked = Idle

\* What is under way for the tab's token will bring its owner, or nothing.
OwnAnswers ==
    ~tab.mixed /\ tab.token # None =>
        /\ tab.fetch \in {owner[tab.token], Denied, Idle}
        /\ tab.asked \in {owner[tab.token], Denied, Idle, Paused}

SessionInv == TypeOK /\ TokenIsStored /\ ShownIsOwn /\ Blank /\ OwnAnswers

\* What the invariant reads of the state.
Seen == [token |-> tab.token, me |-> tab.me, asked |-> tab.asked, files |-> tab.files,
         fetch |-> tab.fetch, mixed |-> tab.mixed, late |-> tab.late]

LEMMA SessionInit == Init => SessionInv
<1> SUFFICES ASSUME Init PROVE SessionInv
  OBVIOUS
<1>1. PICK page \in Pages : tab = Loaded(page, Idle)
  BY DEF Init
<1>2. storage = None
  BY DEF Init
<1> QED
  BY <1>1, <1>2, TypeInit DEF SessionInv, TokenIsStored, ShownIsOwn, Blank, OwnAnswers, Loaded, Own, UserOf

\* The owner of the tab's token stays, and an answer is for the storage's owner.
LEMMA OwnAnswer ==
    ASSUME TypeOK, TokenIsStored, ~tab.mixed, tab.token # None
    PROVE  Answer(Bearer) \in {owner[tab.token], Denied}
BY DEF TokenIsStored, Answer, Bearer

LEMMA SessionStep == SessionInv /\ [Next]_vars => SessionInv'
<1> SUFFICES ASSUME SessionInv, [Next]_vars PROVE SessionInv'
  OBVIOUS
<1> USE DEF SessionInv
<1>t. TypeOK'
  BY TypeStep
<1>0. /\ tab \in TabType(Issued) /\ None \notin Users
      /\ {Denied, Idle, Paused} \cap (Users \cup {None}) = {} /\ Idle # Denied /\ Idle # Paused
  BY TypeOKIs, SessionAssumption
<1>a. ASSUME UNCHANGED <<owner, storage, Seen>> PROVE SessionInv'
  <2>1. /\ tab'.token = tab.token /\ tab'.me = tab.me /\ tab'.asked = tab.asked
        /\ tab'.files = tab.files /\ tab'.fetch = tab.fetch /\ tab'.mixed = tab.mixed
        /\ tab'.late = tab.late
    BY <1>a DEF Seen
  <2> QED
    BY <1>a, <1>t, <2>1 DEF TokenIsStored, ShownIsOwn, Blank, OwnAnswers, Own, UserOf
\* A tab that has been cleared, together with the storage.
<1>b. ASSUME storage' = None, tab'.token = None, tab'.files = None, tab'.fetch = Idle,
             tab'.asked = Idle
      PROVE  SessionInv'
  BY <1>b, <1>t DEF TokenIsStored, ShownIsOwn, Blank, OwnAnswers, Own, UserOf
<1>c. Cleared.token = None /\ Cleared.files = None /\ Cleared.fetch = Idle /\ Cleared.asked = Idle
  BY <1>0 DEF Cleared, TabType
<1>1. CASE Redirect \/ Render \/ SubmitLogin \/ LoginFails
  BY <1>1, <1>a, <1>0 DEF Redirect, Render, SubmitLogin, LoginFails, Seen, TabType
<1>2. CASE SubmitForm \/ FormStays \/ StartLogout \/ SaveProfile \/ SaveFails
  BY <1>2, <1>a, <1>0 DEF SubmitForm, FormStays, StartLogout, SaveProfile, SaveFails, Seen, TabType
<1>3. CASE Registered \/ PasswordReset
  <2>1. PICK form : LeaveForm(form)
    BY <1>3 DEF Registered, PasswordReset
  <2> QED
    BY <1>3, <2>1, <1>a, <1>0 DEF Registered, PasswordReset, LeaveForm, Seen, TabType
<1>4. ASSUME NEW page, Go(page) PROVE SessionInv'
  BY <1>4, <1>a, <1>0 DEF Go, Seen, TabType
<1>5. CASE Move \/ Back
  BY <1>5, <1>4 DEF Move, Back
<1>6. CASE AskMe
  BY <1>6, <1>t, <1>0, OwnAnswer
  DEF AskMe, TokenIsStored, ShownIsOwn, Blank, OwnAnswers, Own, UserOf, TabType
<1>7. CASE MeArrives
  BY <1>7, <1>t, <1>0
  DEF MeArrives, TokenIsStored, ShownIsOwn, Blank, OwnAnswers, Own, UserOf, TabType
<1>8. CASE MeFails
  BY <1>8, <1>b, <1>c DEF MeFails, Store
<1>9. ASSUME NEW k \in Tokens, NEW u \in Users, LoginSucceeds(k, u) PROVE SessionInv'
  <2>1. /\ storage' = k /\ tab'.token = k /\ tab'.me = u /\ tab'.asked = u
        /\ tab'.mixed = (tab.token # None) /\ tab'.files = tab.files /\ tab'.fetch = tab.fetch
    BY <1>9, <1>0 DEF LoginSucceeds, Store, TabType
  <2>2. owner'[k] = u /\ k # None
    BY <1>9, IssueType, SessionAssumption DEF LoginSucceeds
  <2> QED
    BY <1>t, <2>1, <2>2 DEF TokenIsStored, ShownIsOwn, Blank, OwnAnswers, Own, UserOf
<1>10. CASE LogoutEnds
  <2>1. PICK target : tab' = [Cleared EXCEPT !.logout = Idle, !.location = target] /\ storage' = None
    BY <1>10 DEF LogoutEnds, Store
  <2>2. Cleared \in TabType(Issued)
    BY ClearedType
  <2> QED
    BY <1>b, <1>c, <2>1, <2>2 DEF TabType
<1>11. CASE ProfileSaved
  <2>1. CASE tab.token = None
    BY <1>11, <2>1, <1>a, <1>0 DEF ProfileSaved, Seen, TabType
  <2>2. CASE tab.token # None
    <3>1. tab' = [tab EXCEPT !.save = Idle, !.me = tab.save, !.late = tab.save # owner[tab.token]]
      BY <1>11, <2>2 DEF ProfileSaved
    <3>2. /\ UNCHANGED <<owner, storage>> /\ tab'.token = tab.token /\ tab'.files = tab.files
          /\ tab'.me = tab.save /\ tab'.late = (tab.save # owner[tab.token])
          /\ tab'.fetch = tab.fetch /\ tab'.asked = tab.asked /\ tab'.mixed = tab.mixed
      BY <1>11, <3>1, <1>0 DEF ProfileSaved, TabType
    <3> QED
      BY <1>t, <2>2, <3>2 DEF TokenIsStored, ShownIsOwn, Blank, OwnAnswers, Own, UserOf
  <2> QED
    BY <2>1, <2>2
<1>12. CASE Fetch
  BY <1>12, <1>t, <1>0, OwnAnswer
  DEF Fetch, TokenIsStored, ShownIsOwn, Blank, OwnAnswers, Own, UserOf, TabType
<1>13. CASE Arrives \/ FetchFails
  BY <1>13, <1>t, <1>0
  DEF Arrives, FetchFails, TokenIsStored, ShownIsOwn, Blank, OwnAnswers, Own, UserOf, TabType
<1>14. CASE Open
  <2>1. PICK page, asked : /\ tab' = Loaded(page, asked)
                           /\ IF storage = None THEN asked = Idle ELSE asked \in {Answer(Bearer), Paused}
    BY <1>14 DEF Open
  <2>2. /\ UNCHANGED <<owner, storage>> /\ tab'.token = storage /\ tab'.me = None
        /\ tab'.asked = asked /\ tab'.files = None /\ tab'.fetch = Idle
    BY <1>14, <2>1 DEF Open, Loaded
  <2>3. storage # None => asked \in {owner[storage], Denied, Paused}
    BY <2>1 DEF Answer, Bearer
  <2> QED
    BY <1>t, <2>1, <2>2, <2>3 DEF TokenIsStored, ShownIsOwn, Blank, OwnAnswers, Own, UserOf
<1>15. ASSUME NEW k \in Tokens, Expire(k) PROVE SessionInv'
  BY <1>15, <1>a DEF Expire, Seen
<1>16. CASE (\E k \in Tokens : OtherSignsIn(k)) \/ OtherSignsOut
  <2>1. tab' = [tab EXCEPT !.mixed = TRUE]
    BY <1>16 DEF OtherSignsIn, OtherSignsOut
  <2>2. /\ tab'.mixed = TRUE /\ tab'.token = tab.token /\ tab'.files = tab.files
        /\ tab'.fetch = tab.fetch /\ tab'.asked = tab.asked
    BY <2>1, <1>0 DEF TabType
  <2> QED
    BY <1>t, <2>2 DEF TokenIsStored, ShownIsOwn, Blank, OwnAnswers
<1>17. CASE UNCHANGED vars
  BY <1>17, <1>a DEF vars, Seen
<1> QED
  BY <1>1, <1>2, <1>3, <1>5, <1>6, <1>7, <1>8, <1>9, <1>10, <1>11, <1>12, <1>13, <1>14, <1>15, <1>16, <1>17
  DEF Next, TabStep

THEOREM SessionInvariant == Spec => []SessionInv
BY SessionInit, SessionStep, PTL DEF Spec

\* useAuthSession and tokenStorage: unless another tab interferes, the token of
\* the tab is the one that its requests carry.
THEOREM TokenStored == Spec => []TokenIsStored
BY SessionInvariant, PTL DEF SessionInv

\* clearSession and the keys of the queries: nobody is shown as someone else, or
\* with someone else's files, but by another tab's login or a late profile answer.
THEOREM NobodyElseShown == Spec => []ShownIsOwn
BY SessionInvariant, PTL DEF SessionInv

\* The routes and their guards: a private page that is on the screen is one that the
\* owner of the tab's token may see, with the same exceptions.
OnlyWhoMay ==
    Rendered /\ tab.shown.page \in PrivatePages /\ ~tab.mixed /\ ~tab.late =>
        tab.token # None /\ MayEnter(owner[tab.token], tab.shown.page)

THEOREM PagesGuarded == Spec => []OnlyWhoMay
<1>1. SessionInv => OnlyWhoMay
  <2> SUFFICES ASSUME SessionInv, Rendered, tab.shown.page \in PrivatePages,
                      ~tab.mixed, ~tab.late
               PROVE  tab.token # None /\ MayEnter(owner[tab.token], tab.shown.page)
    BY DEF OnlyWhoMay
  <2>1. tab.shown.page \notin PublicPages \cup {"landing", "unknown"}
    BY DEF PrivatePages, PublicPages, UserPages, AdminPages
  <2>2. RequireAuth = {} /\ RequireRole = {}
    BY <2>1 DEF Rendered, Redirects
  <2>3. UserOf # None /\ MayEnter(UserOf, tab.shown.page)
    BY <2>2 DEF RequireAuth, RequireRole
  <2>4. tab.token # None
    BY <2>3 DEF UserOf
  <2>5. UserOf \in Own
    BY DEF SessionInv, ShownIsOwn
  <2> QED
    BY <2>3, <2>4, <2>5 DEF Own
<1> QED
  BY <1>1, SessionInvariant, PTL

-----------------------------------------------------------------------------
(* Coming to rest *)

\* Where the guards lead from a page, for the user of the moment: the page itself
\* when it may be shown, or waits for the session's restoration.
NextPage(u, restoring, page) ==
    IF page = "unknown" THEN "files"
    ELSE IF page = "landing" \/ restoring THEN page
    ELSE IF page \in PublicPages THEN IF u = None THEN page ELSE Home(u)
    ELSE IF u = None THEN "login"
    ELSE IF page = "app" \/ ~MayEnter(u, page) THEN Home(u)
    ELSE page

\* How often they lead on.
Hops(u, restoring, page) ==
    LET next == NextPage(u, restoring, page) IN
    IF next = page THEN 0
    ELSE IF NextPage(u, restoring, next) = next THEN 1
    ELSE 2

HopsFrom(page) == Hops(UserOf, Restoring, page)

\* A page that is not rendered yet may be rendered, and lead on, or give way to
\* where the page on the screen leads.
RouteWork ==
    IF tab.location = tab.shown THEN 2 * HopsFrom(tab.shown.page)
    ELSE IF tab.location \in Redirects THEN 2 * HopsFrom(tab.location.page) + 1
    ELSE 2 * HopsFrom(tab.location.page) + 2 * HopsFrom(tab.shown.page) + 1

\* An answer to /auth/me may change the user, and all that follows.
Answered == tab.asked \in Users \cup {Denied}

Work == (IF Answered THEN 10 ELSE 0) + RouteWork

\* One of the four steps can be taken: their guards.
Moves ==
    \/ Redirects # {} /\ tab.location \notin Redirects
    \/ tab.shown # tab.location
    \/ Answered

WorkIsRest ==
    /\ Work \in 0 .. 19
    /\ Work = 0 <=> (AtRest /\ ~Answered)
    /\ Work # 0 => Moves

WorkEnds == [][Undisturbed => Work' < Work]_vars

\* No two hops in a circle: the second leads to a page that may stay.
LEMMA HopsFall ==
    ASSUME NEW u, NEW restoring \in BOOLEAN, NEW page \in Pages,
           NextPage(u, restoring, page) # page
    PROVE  Hops(u, restoring, NextPage(u, restoring, page)) + 1 <= Hops(u, restoring, page)
<1> DEFINE next == NextPage(u, restoring, page)
           third == NextPage(u, restoring, next)
<1>1. next \in {"files", "analytics", "login"}
  BY DEF NextPage, Home, Pages
<1>2. third = next \/ NextPage(u, restoring, third) = third
  <2>1. CASE next = "login"
    BY <2>1 DEF NextPage, Home, MayEnter, PublicPages, UserPages, AdminPages
  <2>2. CASE next # "login"
    BY <1>1, <2>2 DEF NextPage, Home, MayEnter, PublicPages, UserPages, AdminPages
  <2> QED
    BY <2>1, <2>2
<1> QED
  BY <1>2 DEF Hops

LEMMA HopsRange == \A u, restoring, page : Hops(u, restoring, page) \in 0 .. 2
BY DEF Hops

\* The guards of the routes as a function of user and page.
LEMMA RedirectsAre ==
    ASSUME TypeOK
    PROVE  /\ Redirects = {} <=> NextPage(UserOf, Restoring, tab.shown.page) = tab.shown.page
           /\ \A l \in Redirects : l.page = NextPage(UserOf, Restoring, tab.shown.page)
<1> DEFINE page == tab.shown.page
<1>1. page \in Pages
  BY DEF TypeOK, Locations
<1>2. \A p, q : At(p, q).page = p
  BY DEF At
<1>3. CASE page = "unknown"
  BY <1>2, <1>3 DEF Redirects, NextPage
<1>4. CASE page = "landing" \/ (Restoring /\ page # "unknown")
  BY <1>4 DEF Redirects, NextPage
<1>5. CASE page \in PublicPages /\ ~Restoring
  <2>1. page \notin {"unknown", "landing"} /\ \A u : Home(u) # page
    BY <1>5 DEF PublicPages, Home
  <2> QED
    BY <1>2, <1>5, <2>1 DEF Redirects, NextPage, PublicOnly
<1>6. CASE page \in PrivatePages /\ ~Restoring
  <2>1. page \notin {"unknown", "landing", "login"} \cup PublicPages
    BY <1>6 DEF PublicPages, PrivatePages, UserPages, AdminPages
  <2>2. CASE UserOf = None
    BY <1>2, <1>6, <2>1, <2>2 DEF Redirects, NextPage, RequireAuth, RequireRole, RoleIndexRedirect
  <2>3. CASE UserOf # None
    <3>1. page = "app" => Home(UserOf) # page
      BY DEF Home
    <3>2. ~MayEnter(UserOf, page) => Home(UserOf) # page
      BY DEF Home, MayEnter, UserPages, AdminPages
    <3> QED
      BY <1>2, <1>6, <2>1, <2>3, <3>1, <3>2
      DEF Redirects, NextPage, RequireAuth, RequireRole, RoleIndexRedirect
  <2> QED
    BY <2>2, <2>3
<1> QED
  BY <1>1, <1>3, <1>4, <1>5, <1>6 DEF Pages

LEMMA RestoringType == Restoring \in BOOLEAN
BY DEF Restoring

LEMMA RouteWorkRange == RouteWork \in 0 .. 9
<1>1. \A p : HopsFrom(p) \in 0 .. 2
  BY HopsRange DEF HopsFrom
<1>2. \A p, q : /\ 2 * HopsFrom(p) \in 0 .. 4
                /\ 2 * HopsFrom(p) + 1 \in 1 .. 5
                /\ 2 * HopsFrom(p) + 2 * HopsFrom(q) + 1 \in 1 .. 9
  <2> TAKE p, q
  <2>1. HopsFrom(p) \in {0, 1, 2} /\ HopsFrom(q) \in {0, 1, 2}
    BY <1>1
  <2> QED
    BY <2>1
<1> QED
  BY <1>2 DEF RouteWork

LEMMA SumLess ==
    /\ \A n, a, b \in Nat : a < b => n + a < n + b
    /\ \A a, b \in 0 .. 9 : b < 10 + a /\ 0 + b = b
OBVIOUS

LEMMA RouteWorkNext == (RouteWork \in 0 .. 9)'
BY RouteWorkRange, PTL

\* What is left to do is bounded, and nothing is left exactly when the tab is at rest.
LEMMA WorkMeans == TypeOK => WorkIsRest
<1> SUFFICES ASSUME TypeOK PROVE WorkIsRest
  OBVIOUS
<1> DEFINE page == tab.shown.page
<1>1. Work \in 0 .. 19
  <2>1. RouteWork \in 0 .. 9
    BY RouteWorkRange
  <2> QED
    BY <2>1 DEF Work
<1>2. HopsFrom(page) = 0 <=> Redirects = {}
  BY RedirectsAre DEF HopsFrom, Hops
<1>3. RouteWork = 0 <=> tab.location = tab.shown /\ Redirects = {}
  <2>1. \A p : HopsFrom(p) \in {0, 1, 2}
    BY HopsRange DEF HopsFrom
  <2>2. \A p, q : /\ 2 * HopsFrom(p) + 1 # 0
                  /\ 2 * HopsFrom(p) + 2 * HopsFrom(q) + 1 # 0
                  /\ 2 * HopsFrom(p) = 0 <=> HopsFrom(p) = 0
    <3> TAKE p, q
    <3>1. HopsFrom(p) \in {0, 1, 2} /\ HopsFrom(q) \in {0, 1, 2}
      BY <2>1
    <3> QED
      BY <3>1
  <2> QED
    BY <1>2, <2>2 DEF RouteWork
<1>4. ~Answered => ~Restoring
  BY DEF Answered, Restoring, TypeOK, Answers
<1>5. Work = 0 <=> ~Answered /\ RouteWork = 0
  <2>1. RouteWork \in 0 .. 9
    BY RouteWorkRange
  <2> QED
    BY <2>1 DEF Work
<1>6. Work = 0 <=> (AtRest /\ ~Answered)
  BY <1>3, <1>4, <1>5 DEF AtRest, Rendered
<1>7. Work # 0 => Moves
  <2> SUFFICES ASSUME ~Answered, tab.shown = tab.location, Redirects # {}
               PROVE  tab.location \notin Redirects
    BY <1>3, <1>5 DEF Moves
  <2> QED
    BY RedirectsAre
<1> QED
  BY <1>1, <1>6, <1>7 DEF WorkIsRest

LEMMA WorkStep == TypeOK /\ Undisturbed => Work' < Work
<1> SUFFICES ASSUME TypeOK, Undisturbed PROVE Work' < Work
  OBVIOUS
<1> DEFINE page == tab.shown.page
<1>t. \E T : tab \in TabType(T)
  BY TypeOKIs
<1>h. \A p : HopsFrom(p) \in {0, 1, 2}
  BY HopsRange DEF HopsFrom
<1>1. CASE Redirect
  <2>1. PICK target \in Redirects : tab' = [tab EXCEPT !.location = target]
    BY <1>1 DEF Redirect
  <2>2. /\ tab'.location = target /\ tab'.shown = tab.shown
        /\ UserOf' = UserOf /\ Restoring' = Restoring /\ (Answered' <=> Answered)
    BY <1>t, <2>1 DEF TabType, UserOf, Restoring, Answered
  <2>3. Redirects' = Redirects
    BY <2>2 DEF Redirects, PublicOnly, RequireAuth, RequireRole, RoleIndexRedirect
  <2>4. \A p : HopsFrom(p)' = HopsFrom(p)
    BY <2>2 DEF HopsFrom
  <2>5. target.page = NextPage(UserOf, Restoring, page) /\ target.page # page
    BY RedirectsAre
  <2>6. HopsFrom(target.page) + 1 <= HopsFrom(page)
    <3>1. page \in Pages
      BY DEF TypeOK, Locations
    <3> QED
      BY <2>5, <3>1, HopsFall, RestoringType DEF HopsFrom
  <2>7. RouteWork' = 2 * HopsFrom(target.page) + 1
    BY <2>2, <2>3, <2>4, <2>5 DEF RouteWork
  <2>8. \/ RouteWork = 2 * HopsFrom(page)
        \/ RouteWork = 2 * HopsFrom(tab.location.page) + 2 * HopsFrom(page) + 1
    BY <1>1 DEF Redirect, RouteWork
  <2>9. RouteWork' < RouteWork /\ RouteWork' \in Nat /\ RouteWork \in Nat
    <3>1. /\ HopsFrom(target.page) \in {0, 1, 2} /\ HopsFrom(page) \in {0, 1, 2}
          /\ HopsFrom(tab.location.page) \in {0, 1, 2}
      BY <1>h
    <3> QED
      BY <2>6, <2>7, <2>8, <3>1
  <2>10. PICK n \in Nat : Work = n + RouteWork /\ Work' = n + RouteWork'
    BY <2>2 DEF Work
  <2> QED
    BY <2>9, <2>10, SumLess
<1>2. CASE Render
  <2>1. tab' = [tab EXCEPT !.shown = tab.location] /\ tab.shown # tab.location
    BY <1>2 DEF Render
  <2>2. /\ tab'.location = tab.location /\ tab'.shown = tab.location
        /\ UserOf' = UserOf /\ Restoring' = Restoring /\ (Answered' <=> Answered)
    BY <1>t, <2>1 DEF TabType, UserOf, Restoring, Answered
  <2>3. \A p : HopsFrom(p)' = HopsFrom(p)
    BY <2>2 DEF HopsFrom
  <2>4. RouteWork' = 2 * HopsFrom(tab.location.page)
    BY <2>2, <2>3 DEF RouteWork
  <2>5. \/ RouteWork = 2 * HopsFrom(tab.location.page) + 1
        \/ RouteWork = 2 * HopsFrom(tab.location.page) + 2 * HopsFrom(page) + 1
    BY <2>1 DEF RouteWork
  <2>6. RouteWork' < RouteWork /\ RouteWork' \in Nat /\ RouteWork \in Nat
    <3>1. HopsFrom(page) \in {0, 1, 2} /\ HopsFrom(tab.location.page) \in {0, 1, 2}
      BY <1>h
    <3> QED
      BY <2>4, <2>5, <3>1
  <2>10. PICK n \in Nat : Work = n + RouteWork /\ Work' = n + RouteWork'
    BY <2>2 DEF Work
  <2> QED
    BY <2>6, <2>10, SumLess
<1>3. CASE MeArrives \/ MeFails
  <2>1. Answered
    BY <1>3 DEF MeArrives, MeFails, Answered
  <2>2. tab'.asked = Idle
    BY <1>t, <1>3 DEF MeArrives, MeFails, Store, Cleared, TabType
  <2>3. ~Answered'
    BY <2>2, SessionAssumption DEF Answered
  <2>4. RouteWork \in 0 .. 9
    BY RouteWorkRange
  <2>5. RouteWork' \in 0 .. 9
    BY RouteWorkNext
  <2>6. Work = 10 + RouteWork /\ Work' = RouteWork'
    <3>1. Work = 10 + RouteWork
      BY <2>1 DEF Work
    <3>2. Work' = 0 + RouteWork'
      BY <2>3 DEF Work
    <3>3. 0 + RouteWork' = RouteWork'
      BY <2>5, SumLess
    <3> QED
      BY <3>1, <3>2, <3>3
  <2> QED
    <3>1. RouteWork' < 10 + RouteWork
      BY <2>4, <2>5, SumLess
    <3> QED
      BY <2>6, <3>1
<1> QED
  BY <1>1, <1>2, <1>3 DEF Undisturbed

\* AuthSessionProvider, the guards and the router: from any state the tab needs at most
\* nineteen renderings, redirects and answers of its own to rest, and while it does not
\* rest one of them can be taken.
THEOREM TabComesToRest == Spec => []WorkIsRest /\ WorkEnds
<1>1. TypeOK /\ [Next]_vars => [Undisturbed => Work' < Work]_vars
  BY WorkStep
<1> QED
  BY <1>1, WorkMeans, TypeCorrect, PTL DEF Spec, WorkEnds
=============================================================================
