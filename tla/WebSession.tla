----------------------------- MODULE WebSession -----------------------------
(***************************************************************************)
(* The session of the web interface: the axios interceptors with their     *)
(* single-flight token refresh, the auth store, the router guard and the   *)
(* login page, in several browser tabs that share one cookie jar, against  *)
(* the server's token rotation and idempotency filter.                     *)
(*                                                                         *)
(* A login or a refresh issues a generation of cookies: generation g is an *)
(* access token and the refresh token that goes with it.                   *)
(***************************************************************************)
EXTENDS Naturals, FiniteSets

CONSTANTS
    Tab,         \* browser tabs of one user
    Kind,        \* requests a tab sends, "me" and some of "get" and "write"
    Account,     \* accounts the user may have, see Role and MustChange
    Target,      \* protected pages the user goes to
    MaxLogin,    \* bound on the logins
    MaxTrouble   \* bound on lost messages, expiries, revocations and logouts

NoUser == "none"
Request == Tab \X Kind
Flight == {"shared", "own"}     \* refreshPromise, and auth.refresh() of loadMe
Token == Nat                    \* 0 is an empty jar

VARIABLES
    tab,        \* what each tab shows and its auth store
    req,        \* the requests of each tab as its interceptors see them
    flight,     \* the refresh requests of each tab
    jar,        \* the generation in the cookies, shared by the tabs
    live,       \* generations whose refresh token the server honours
    expired,    \* generations whose access token is no longer valid
    issued,     \* generations issued so far
    logins,     \* how many of them a login issued
    keys,       \* idempotency keys the server has stored
    account,    \* the user's account
    trouble     \* how much of it happened so far

client == <<tab, req, flight>>
server == <<jar, live, expired, issued, logins, keys>>
vars == <<client, server, account, trouble>>

Trouble == trouble < MaxTrouble /\ trouble' = trouble + 1

Role(user) == IF user = "newcomer" THEN "member" ELSE user
MustChange(user) == user = "newcomer"

FreshTab(page) == [route |-> "start", target |-> page, user |-> NoUser,
                   ready |-> FALSE, load |-> "none"]
FreshRequest == [at |-> "idle", token |-> 0, refreshed |-> FALSE, resent |-> FALSE]
NoFlight == [at |-> "none", token |-> 0]
Pending == {"sent", "refresh", "pause"}

TypeOK ==
    /\ tab \in [Tab -> [route : Target \cup {"start", "login", "projects", "settings"},
                        target : Target \cup {"none", "login", "projects", "settings"},
                        user : Account \cup {NoUser}, ready : BOOLEAN,
                        load : {"none", "me", "refresh", "again"}]]
    /\ req \in [Request -> [at : Pending \cup {"idle", "ok", "duplicate", "failed"},
                            token : Token, refreshed : BOOLEAN, resent : BOOLEAN]]
    /\ flight \in [Tab \X Flight -> [at : {"none", "sent", "found"}, token : Token]]
    /\ jar \in Token /\ issued \in Token /\ logins \in Token
    /\ live \subseteq Token /\ expired \subseteq Token
    /\ keys \subseteq Request /\ account \in Account /\ trouble \in 0 .. MaxTrouble

\* A signed-in user opens the tabs on a protected page.
Init ==
    /\ tab \in [Tab -> {FreshTab(page) : page \in Target}]
    /\ req = [r \in Request |-> FreshRequest]
    /\ flight = [f \in Tab \X Flight |-> NoFlight]
    /\ jar = 1 /\ live = {1} /\ expired = {} /\ issued = 1 /\ logins = 1
    /\ keys = {} /\ account \in Account /\ trouble = 0
-----------------------------------------------------------------------------
(* Requests and interceptors.                                              *)

\* api.request(config): the cookies of the moment go with it.
Send(t, k) ==
    /\ k # "me" /\ tab[t].route # "login" /\ req[<<t, k>>].at = "idle"
    /\ req' = [req EXCEPT ![<<t, k>>] = [@ EXCEPT !.at = "sent", !.token = jar]]
    /\ UNCHANGED <<tab, flight, server, account, trouble>>

\* The filters a request passes on the server, in the order main.go installs them: the
\* idempotency key is stored only once the access token has been accepted.
Verdict(r) ==
    IF req[r].token = 0 \/ req[r].token \in expired THEN "unauthorized"
    ELSE IF r[2] = "write" /\ r \in keys THEN "duplicate" ELSE "done"

\* refreshPromise ??= api.post('/auth/refresh'): a second 401 joins the flight.
JoinRefresh(t) ==
    flight' = [flight EXCEPT ![<<t, "shared">>] =
                  IF @.at = "none" THEN [at |-> "sent", token |-> jar] ELSE @]

\* The error interceptor: one refresh and retry for a 401, none for the login
\* endpoints, whose failure is an answer of its own.
RefreshOnce(q) == ~q.refreshed

\* A write stores its key when it has passed the token.
StoresKeyFirst(r) == r[2] = "write"
StoresKey(r) == r[2] = "write" /\ Verdict(r) # "unauthorized"

Answer(t, k) ==
    LET r == <<t, k>>  verdict == Verdict(r) IN
    /\ req[r].at = "sent"
    /\ IF verdict = "unauthorized" /\ RefreshOnce(req[r])
       THEN /\ req' = [req EXCEPT ![r] = [@ EXCEPT !.at = "refresh", !.refreshed = TRUE]]
            /\ JoinRefresh(t)
       ELSE /\ req' = [req EXCEPT ![r].at = CASE verdict = "done" -> "ok"
                                              [] verdict = "duplicate" -> "duplicate"
                                              [] OTHER -> "failed"]
            /\ UNCHANGED flight
    /\ keys' = IF StoresKey(r) THEN keys \cup {r} ELSE keys
    /\ UNCHANGED <<tab, jar, live, expired, issued, logins, account, trouble>>

\* No response: a GET is sent again once after a pause, a write is not.
MayResend(k, q) == k # "write" /\ ~q.resent

LoseRequest(t, k, handled) ==
    LET r == <<t, k>> IN
    /\ req[r].at = "sent" /\ Trouble
    /\ keys' = IF handled /\ StoresKey(r) THEN keys \cup {r} ELSE keys
    /\ req' = [req EXCEPT ![r] = IF MayResend(k, @) THEN [@ EXCEPT !.at = "pause", !.resent = TRUE]
                                                   ELSE [@ EXCEPT !.at = "failed"]]
    /\ UNCHANGED <<tab, flight, jar, live, expired, issued, logins, account>>

Resend(t, k) ==
    /\ req[<<t, k>>].at = "pause"
    /\ req' = [req EXCEPT ![<<t, k>>] = [@ EXCEPT !.at = "sent", !.token = jar]]
    /\ UNCHANGED <<tab, flight, server, account, trouble>>
-----------------------------------------------------------------------------
(* Refreshing the session.                                                 *)

\* The server looks the refresh token up, and rotates it in a second transaction that
\* demands that the row is still there.
FindToken(t, w) ==
    /\ flight[<<t, w>>].at = "sent" /\ flight[<<t, w>>].token \in live
    /\ flight' = [flight EXCEPT ![<<t, w>>].at = "found"]
    /\ UNCHANGED <<tab, req, server, account, trouble>>

RotatesUnchecked(g) == TRUE
Rotates(g) == g \in live

Rotate(g) ==
    /\ issued' = issued + 1
    /\ live' = (live \ {g}) \cup {issued + 1}

\* redirectToLogin: a full page load that forgets every state of the tab.
ReloadAtLogin(t) ==
    /\ tab' = [tab EXCEPT ![t] = [FreshTab("none") EXCEPT !.route = "login"]]
    /\ req' = [r \in Request |->
                  IF r[1] # t THEN req[r]
                  ELSE IF r[2] = "me" THEN FreshRequest
                  ELSE [req[r] EXCEPT !.at = IF @ \in Pending THEN "failed" ELSE @]]
    /\ flight' = [f \in Tab \X Flight |-> IF f[1] = t THEN NoFlight ELSE flight[f]]

\* What a flight that ends does in its tab: the shared one resends whoever waits for it,
\* or gives the session up; the one of loadMe asks for the user again, or gives up.
Waiting(t) == {r \in Request : r[1] = t /\ req[r].at = "refresh"}

FlightEnds(t, w, ok) ==
    IF w = "shared" /\ ok
    THEN /\ req' = [r \in Request |-> IF r \in Waiting(t)
                                       THEN [req[r] EXCEPT !.at = "sent", !.token = jar']
                                       ELSE req[r]]
         /\ flight' = [flight EXCEPT ![<<t, w>>] = NoFlight]
         /\ UNCHANGED tab
    ELSE IF w = "shared" THEN ReloadAtLogin(t)
    ELSE /\ flight' = [flight EXCEPT ![<<t, w>>] = NoFlight]
         /\ req' = IF ok THEN [req EXCEPT ![<<t, "me">>] = [FreshRequest EXCEPT !.at = "sent", !.token = jar']]
                         ELSE req
         /\ tab' = [tab EXCEPT ![t] = IF ok THEN [@ EXCEPT !.load = "again"]
                                      ELSE [@ EXCEPT !.load = "none", !.ready = TRUE, !.target = "login"]]

RefreshSucceeds(t, w) ==
    LET g == flight[<<t, w>>].token IN
    /\ flight[<<t, w>>].at = "found" /\ Rotates(g)
    /\ Rotate(g)
    /\ jar' = issued + 1
    /\ FlightEnds(t, w, TRUE)
    /\ UNCHANGED <<expired, logins, keys, account, trouble>>

\* A token that is gone when it is looked up, or when it is rotated, is a 401. That answer
\* is final: the interceptor does not refresh on it.
RefreshRefused(t, w) ==
    /\ flight[<<t, w>>].at # "none" /\ flight[<<t, w>>].token \notin live
    /\ UNCHANGED jar
    /\ FlightEnds(t, w, FALSE)
    /\ UNCHANGED <<live, expired, issued, logins, keys, account, trouble>>

\* The refresh or its answer is lost: in the second case the server has rotated the token.
LoseRefresh(t, w) ==
    LET g == flight[<<t, w>>].token IN
    /\ flight[<<t, w>>].at # "none" /\ Trouble
    /\ \/ UNCHANGED <<issued, live>>
       \/ flight[<<t, w>>].at = "found" /\ Rotates(g) /\ Rotate(g)
    /\ UNCHANGED jar
    /\ FlightEnds(t, w, FALSE)
    /\ UNCHANGED <<expired, logins, keys, account>>
-----------------------------------------------------------------------------
(* Router and auth store.                                                  *)

Go(t, page) ==
    /\ tab[t].target = "none" /\ tab[t].route # "start" /\ page # tab[t].route
    /\ tab' = [tab EXCEPT ![t].target = page]
    /\ UNCHANGED <<req, flight, server, account, trouble>>

\* beforeEach of the first protected page loads the user.
LoadMe(t) ==
    /\ tab[t].target \notin {"none", "login"} /\ ~tab[t].ready /\ tab[t].load = "none"
    /\ tab' = [tab EXCEPT ![t].load = "me"]
    /\ req' = [req EXCEPT ![<<t, "me">>] = [FreshRequest EXCEPT !.at = "sent", !.token = jar]]
    /\ UNCHANGED <<flight, server, account, trouble>>

\* The answer of /auth/me: the user, a refresh of its own after a first failure, the login
\* page after a second one.
MeAnswered(t) ==
    /\ tab[t].load \in {"me", "again"} /\ req[<<t, "me">>].at = "ok"
    /\ tab' = [tab EXCEPT ![t] = [@ EXCEPT !.load = "none", !.ready = TRUE, !.user = account]]
    /\ req' = [req EXCEPT ![<<t, "me">>] = FreshRequest]
    /\ UNCHANGED <<flight, server, account, trouble>>

MeFailed(t) ==
    /\ tab[t].load \in {"me", "again"} /\ req[<<t, "me">>].at = "failed"
    /\ req' = [req EXCEPT ![<<t, "me">>] = FreshRequest]
    /\ IF tab[t].load = "me"
       THEN /\ tab' = [tab EXCEPT ![t].load = "refresh"]
            /\ flight' = [flight EXCEPT ![<<t, "own">>] = [at |-> "sent", token |-> jar]]
       ELSE /\ tab' = [tab EXCEPT ![t] = [@ EXCEPT !.load = "none", !.ready = TRUE, !.target = "login"]]
            /\ UNCHANGED flight
    /\ UNCHANGED <<server, account, trouble>>

\* resolveRouteGuard: where the four rules send a navigation; the page itself when they let it pass.
GuardForgetsSettings(to, user) ==
    IF to # "login" /\ user = NoUser THEN "login"
    ELSE IF to = "admin" /\ Role(user) # "admin" THEN "projects"
    ELSE IF to = "review" /\ Role(user) \notin {"admin", "maintainer"} THEN "projects"
    ELSE IF MustChange(user) THEN (IF to = "settings" THEN "projects" ELSE "settings") ELSE to
Guard(to, user) ==
    IF to # "login" /\ user = NoUser THEN "login"
    ELSE IF to = "admin" /\ Role(user) # "admin" THEN "projects"
    ELSE IF to = "review" /\ Role(user) \notin {"admin", "maintainer"} THEN "projects"
    ELSE IF to # "settings" /\ MustChange(user) THEN "settings" ELSE to

\* beforeEach runs again for the page it redirects to.
Resolve(t) ==
    LET to == tab[t].target  next == Guard(to, tab[t].user) IN
    /\ to # "none" /\ tab[t].load = "none" /\ (to = "login" \/ tab[t].ready)
    /\ tab' = [tab EXCEPT ![t] = IF next = to THEN [@ EXCEPT !.route = to, !.target = "none"]
                                              ELSE [@ EXCEPT !.target = next]]
    /\ UNCHANGED <<req, flight, server, account, trouble>>

\* LoginView submit and auth.login: new cookies, then the home page.
Login(t) ==
    /\ tab[t].route = "login" /\ tab[t].target = "none" /\ logins < MaxLogin
    /\ issued' = issued + 1 /\ logins' = logins + 1
    /\ live' = live \cup {issued + 1}
    /\ jar' = issued + 1
    /\ tab' = [tab EXCEPT ![t] = [@ EXCEPT !.user = account, !.ready = TRUE, !.target = "projects"]]
    /\ UNCHANGED <<req, flight, expired, keys, account, trouble>>

\* onUserCommand('logout'): the login page also when the request fails.
Logout(t, arrives) ==
    /\ tab[t].route \notin {"start", "login"} /\ tab[t].target = "none" /\ Trouble
    /\ IF arrives
       THEN /\ live' = live \ {jar} /\ jar' = 0
            /\ tab' = [tab EXCEPT ![t] = [@ EXCEPT !.user = NoUser, !.target = "login"]]
       ELSE /\ tab' = [tab EXCEPT ![t].target = "login"]
            /\ UNCHANGED <<live, jar>>
    /\ UNCHANGED <<req, flight, expired, issued, logins, keys, account>>

\* Fifteen minutes pass.
ExpireAccess ==
    /\ issued \notin expired /\ Trouble
    /\ expired' = 0 .. issued
    /\ UNCHANGED <<client, jar, live, issued, logins, keys, account>>

\* A new password, or an administrator who disables the account, ends every session.
RevokeAll ==
    /\ live # {} /\ Trouble
    /\ live' = {} /\ expired' = 0 .. issued
    /\ UNCHANGED <<client, jar, issued, logins, keys, account>>
-----------------------------------------------------------------------------
Route(t) == LoadMe(t) \/ MeAnswered(t) \/ MeFailed(t) \/ Resolve(t)
Progress(t, k) == Answer(t, k) \/ Resend(t, k)
Refresh(t, w) == FindToken(t, w) \/ RefreshSucceeds(t, w) \/ RefreshRefused(t, w)

Next ==
    \/ \E t \in Tab : \/ Route(t) \/ Login(t)
                      \/ \E page \in Target : Go(t, page)
                      \/ \E arrives \in BOOLEAN : Logout(t, arrives)
                      \/ \E k \in Kind : Send(t, k) \/ Progress(t, k)
                      \/ \E k \in Kind, handled \in BOOLEAN : LoseRequest(t, k, handled)
                      \/ \E w \in Flight : Refresh(t, w) \/ LoseRefresh(t, w)
    \/ ExpireAccess \/ RevokeAll

Spec == Init /\ [][Next]_vars

\* The server answers every request, and the event loop runs what an answer wakes.
FairSpec ==
    /\ Spec
    /\ \A t \in Tab : /\ WF_vars(Route(t))
                      /\ \A k \in Kind : WF_vars(Progress(t, k))
                      /\ \A w \in Flight : WF_vars(Refresh(t, w))

\* No write is answered "this key was already used": the code sends a write twice only
\* after a 401, and the server stores the key behind the check that answers 401.
RetryIsNotRefused == \A r \in Request : req[r].at # "duplicate"

\* Tabs that refresh at the same time, with the same cookie, never get two sessions out
\* of one login: each generation is replaced by at most one.
OneSessionPerLogin == Cardinality(live) <= logins

\* Every navigation ends on a page: neither loading the user nor the redirections of the
\* guard go on for ever.
NavigationSettles ==
    \A t \in Tab : tab[t].target # "none" ~> tab[t].target = "none"
=============================================================================
