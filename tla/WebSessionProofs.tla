-------------------------- MODULE WebSessionProofs --------------------------
(***************************************************************************)
(* What holds of the session of the web interface for any number of tabs,  *)
(* requests, logins and troubles: refreshing never multiplies a login, and *)
(* a write that is sent again is not refused as a duplicate.               *)
(***************************************************************************)
EXTENDS WebSession, FiniteSetTheorems, TLAPS

-----------------------------------------------------------------------------
(* One session per login.                                                  *)

\* The generations the server honours are as many as there were logins, at most.
SessionInv ==
    /\ issued \in Nat /\ logins \in Nat
    /\ IsFiniteSet(live)
    /\ Cardinality(live) <= logins

\* Replacing one generation by a new one does not make them more.
LEMMA RotationCounts ==
    ASSUME IsFiniteSet(live), NEW g \in live, NEW n
    PROVE  /\ IsFiniteSet((live \ {g}) \cup {n})
           /\ Cardinality((live \ {g}) \cup {n}) <= Cardinality(live)
<1>1. /\ IsFiniteSet(live \ {g}) /\ Cardinality(live \ {g}) = Cardinality(live) - 1
      /\ Cardinality(live) \in Nat
    BY FS_RemoveElement, FS_CardinalityType
<1>2. /\ IsFiniteSet((live \ {g}) \cup {n})
      /\ Cardinality((live \ {g}) \cup {n}) = IF n \in live \ {g} THEN Cardinality(live \ {g})
                                              ELSE Cardinality(live \ {g}) + 1
    BY <1>1, FS_AddElement
<1> QED
    BY <1>1, <1>2

\* Sessions come from logins only; everything else replaces or ends them.
LEMMA SessionStep ==
    ASSUME SessionInv, [Next]_vars
    PROVE  SessionInv'
<1> USE DEF SessionInv
<1>0. Cardinality(live) \in Nat
    BY FS_CardinalityType
<1>1. CASE UNCHANGED <<issued, logins, live>>
    BY <1>1
<1>2. ASSUME NEW t \in Tab, NEW w \in Flight, RefreshSucceeds(t, w) \/ LoseRefresh(t, w)
      PROVE  SessionInv'
    <2> DEFINE g == flight[<<t, w>>].token
    <2>1. logins' = logins
        BY <1>2 DEF RefreshSucceeds, LoseRefresh
    <2>2. \/ UNCHANGED <<issued, live>>
          \/ g \in live /\ issued' = issued + 1 /\ live' = (live \ {g}) \cup {issued + 1}
        BY <1>2 DEF RefreshSucceeds, LoseRefresh, Rotate, Rotates
    <2>3. CASE UNCHANGED <<issued, live>>
        BY <1>1, <2>1, <2>3
    <2>4. CASE g \in live /\ issued' = issued + 1 /\ live' = (live \ {g}) \cup {issued + 1}
        <3>1. IsFiniteSet(live') /\ Cardinality(live') <= Cardinality(live)
            BY <2>4, RotationCounts
        <3>2. Cardinality(live') \in Nat
            BY <3>1, FS_CardinalityType
        <3> QED
            BY <1>0, <2>1, <2>4, <3>1, <3>2
    <2> QED
        BY <2>2, <2>3, <2>4
<1>3. ASSUME NEW t \in Tab, Login(t)
      PROVE  SessionInv'
    <2>1. live' = live \cup {issued + 1} /\ logins' = logins + 1 /\ issued' = issued + 1
        BY <1>3 DEF Login
    <2>2. /\ IsFiniteSet(live')
          /\ Cardinality(live') = IF issued + 1 \in live THEN Cardinality(live) ELSE Cardinality(live) + 1
        BY <2>1, FS_AddElement
    <2> QED
        BY <1>0, <2>1, <2>2
<1>4. ASSUME NEW t \in Tab, NEW arrives \in BOOLEAN, Logout(t, arrives)
      PROVE  SessionInv'
    <2>1. UNCHANGED <<issued, logins>> /\ live' \subseteq live
        BY <1>4 DEF Logout
    <2>2. IsFiniteSet(live') /\ Cardinality(live') <= Cardinality(live) /\ Cardinality(live') \in Nat
        BY <2>1, FS_Subset, FS_CardinalityType
    <2> QED
        BY <1>0, <2>1, <2>2
<1>5. CASE RevokeAll
    <2>1. UNCHANGED <<issued, logins>> /\ live' = {}
        BY <1>5 DEF RevokeAll
    <2>2. IsFiniteSet(live') /\ Cardinality(live') = 0
        BY <2>1, FS_EmptySet
    <2> QED
        BY <2>1, <2>2
<1>6. ASSUME NEW t \in Tab, \/ Route(t)
                            \/ \E page \in Target : Go(t, page)
                            \/ \E k \in Kind : Send(t, k) \/ Progress(t, k)
                            \/ \E k \in Kind, handled \in BOOLEAN : LoseRequest(t, k, handled)
                            \/ \E w \in Flight : FindToken(t, w) \/ RefreshRefused(t, w)
      PROVE  UNCHANGED <<issued, logins, live>>
    <2>1. CASE Route(t) \/ \E page \in Target : Go(t, page)
        BY <2>1 DEF Route, LoadMe, MeAnswered, MeFailed, Resolve, Go, server
    <2>2. CASE \E k \in Kind : Send(t, k) \/ Progress(t, k)
        BY <2>2 DEF Send, Progress, Answer, Resend, server
    <2>3. CASE \E k \in Kind, handled \in BOOLEAN : LoseRequest(t, k, handled)
        BY <2>3 DEF LoseRequest
    <2>4. CASE \E w \in Flight : FindToken(t, w) \/ RefreshRefused(t, w)
        BY <2>4 DEF FindToken, RefreshRefused, server
    <2> QED
        BY <1>6, <2>1, <2>2, <2>3, <2>4
<1>7. CASE ExpireAccess \/ UNCHANGED vars
    BY <1>1, <1>7 DEF ExpireAccess, vars, server
<1> QED
    BY <1>1, <1>2, <1>3, <1>4, <1>5, <1>6, <1>7 DEF Next, Refresh

LEMMA SessionInit == Init => SessionInv
<1> SUFFICES ASSUME Init PROVE SessionInv
    OBVIOUS
<1>1. live = {1} /\ issued = 1 /\ logins = 1
    BY DEF Init
<1>2. IsFiniteSet(live) /\ Cardinality(live) = 1
    BY <1>1, FS_Singleton
<1> QED
    BY <1>1, <1>2 DEF SessionInv

\* However many tabs refresh with the same cookie, and whatever answers are lost, one
\* login is never honoured twice: a rotation demands that the generation it replaces is
\* still there (the second transaction of the refresh in auth/repository.go).
THEOREM SessionsAreLogins == Spec => []OneSessionPerLogin
<1>1. SessionInv => OneSessionPerLogin
    BY DEF SessionInv, OneSessionPerLogin
<1> QED
    BY <1>1, SessionInit, SessionStep, PTL DEF Spec

-----------------------------------------------------------------------------
(* Writes and their keys.                                                  *)

Place == Pending \cup {"idle", "ok", "duplicate", "failed"}
RequestType == [at : Place, token : Token, refreshed : BOOLEAN, resent : BOOLEAN]

\* A stored key is that of a write whose tab has its answer or has given it up, and which
\* is therefore never sent again.
RetryInv ==
    /\ req \in [Request -> RequestType]
    /\ jar \in Token /\ issued \in Token
    /\ \A r \in Request : req[r].at # "duplicate"
    /\ \A r \in keys : r \in Request /\ r[2] = "write" /\ req[r].at \in {"ok", "failed"}

\* What an action may do to a request without breaking it.
Harmless(old, new) ==
    /\ new \in RequestType
    /\ new.at # "duplicate"
    /\ old.at \in {"ok", "failed"} => new.at \in {"ok", "failed"}

\* It is enough that no request is harmed, except that questions about the user start anew.
LEMMA HarmlessSteps ==
    ASSUME RetryInv, jar' \in Token, issued' \in Token, keys' = keys,
           req' \in [Request -> RequestType],
           \A r \in Request : Harmless(req[r], req'[r]) \/ (r[2] = "me" /\ req'[r].at # "duplicate")
    PROVE  RetryInv'
BY DEF RetryInv, Harmless

\* One request changes.
LEMMA OneRequest ==
    ASSUME RetryInv, NEW q \in Request, NEW new \in RequestType, new.at # "duplicate",
           req' = [req EXCEPT ![q] = new]
    PROVE  /\ req' \in [Request -> RequestType]
           /\ \A r \in Request : req'[r] = IF r = q THEN new ELSE req[r]
           /\ \A r \in Request : req'[r].at # "duplicate"
BY DEF RetryInv

\* Requests are sent, sent again after a pause, and answered.
LEMMA RequestKeeps ==
    ASSUME RetryInv, NEW t \in Tab, NEW k \in Kind, Send(t, k) \/ Progress(t, k)
    PROVE  RetryInv'
<1> DEFINE r == <<t, k>>
<1>0. r \in Request /\ r[2] = k /\ req[r] \in RequestType
    BY DEF Request, RetryInv
<1>1. CASE Send(t, k) \/ Resend(t, k)
    <2> DEFINE new == [req[r] EXCEPT !.at = "sent", !.token = jar]
    <2>1. /\ req[r].at \in {"idle", "pause"} /\ req' = [req EXCEPT ![r] = new]
          /\ UNCHANGED <<jar, issued, keys>>
        BY <1>0, <1>1 DEF Send, Resend, server
    <2>2. new \in RequestType /\ new.at = "sent"
        BY <1>0 DEF RequestType, Place, Pending, RetryInv
    <2>3. r \notin keys
        BY <2>1 DEF RetryInv
    <2> HIDE DEF new
    <2> QED
        BY <1>0, <2>1, <2>2, <2>3, OneRequest DEF RetryInv
<1>2. CASE Answer(t, k)
    <2>1. req[r].at = "sent" /\ r \notin keys
        BY <1>2 DEF Answer, RetryInv
    <2>2. Verdict(r) \in {"unauthorized", "done"}
        BY <2>1 DEF Verdict
    <2>3. UNCHANGED <<jar, issued>> /\ keys' = IF StoresKey(r) THEN keys \cup {r} ELSE keys
        BY <1>2 DEF Answer
    <2>4. CASE Verdict(r) = "unauthorized"
        <3> DEFINE new == IF RefreshOnce(req[r]) THEN [req[r] EXCEPT !.at = "refresh", !.refreshed = TRUE]
                          ELSE [req[r] EXCEPT !.at = "failed"]
        <3>1. keys' = keys
            BY <2>3, <2>4 DEF StoresKey
        <3>2. req' = [req EXCEPT ![r] = new]
            BY <1>2, <2>4 DEF Answer
        <3>3. new \in RequestType /\ new.at # "duplicate"
            BY <1>0 DEF RequestType, Place, Pending
        <3> HIDE DEF new
        <3> QED
            BY <1>0, <2>1, <2>3, <3>1, <3>2, <3>3, OneRequest DEF RetryInv
    <2>5. CASE Verdict(r) = "done"
        <3> DEFINE new == [req[r] EXCEPT !.at = "ok"]
        <3>1. req' = [req EXCEPT ![r] = new]
            BY <1>2, <2>5 DEF Answer
        <3>2. new \in RequestType /\ new.at = "ok"
            BY <1>0 DEF RequestType, Place
        <3>3. keys' \subseteq keys \cup {r} /\ (r \in keys' => k = "write")
            BY <1>0, <2>1, <2>3 DEF StoresKey
        <3> HIDE DEF new
        <3> QED
            BY <1>0, <2>1, <2>3, <3>1, <3>2, <3>3, OneRequest DEF RetryInv
    <2> QED
        BY <2>2, <2>4, <2>5
<1> QED
    BY <1>1, <1>2 DEF Progress

\* A lost write is given up, whether or not the server has handled it.
LEMMA LossKeeps ==
    ASSUME RetryInv, NEW t \in Tab, NEW k \in Kind, NEW handled \in BOOLEAN, LoseRequest(t, k, handled)
    PROVE  RetryInv'
<1> DEFINE r == <<t, k>>
           new == IF MayResend(k, req[r]) THEN [req[r] EXCEPT !.at = "pause", !.resent = TRUE]
                  ELSE [req[r] EXCEPT !.at = "failed"]
<1>1. r \in Request /\ r[2] = k /\ req[r] \in RequestType
    BY DEF Request, RetryInv
<1>2. /\ req[r].at = "sent" /\ r \notin keys /\ UNCHANGED <<jar, issued>>
      /\ keys' = IF handled /\ StoresKey(r) THEN keys \cup {r} ELSE keys
    BY DEF LoseRequest, RetryInv
<1>3. req' = [req EXCEPT ![r] = new]
    BY <1>1 DEF LoseRequest, RetryInv
<1>4. new \in RequestType /\ new.at \in {"pause", "failed"}
    BY <1>1 DEF RequestType, Place, Pending
<1>5. keys' \subseteq keys \cup {r} /\ (r \in keys' => k = "write" /\ new.at = "failed")
    BY <1>1, <1>2 DEF StoresKey, MayResend, RequestType
<1> HIDE DEF new
<1> QED
    BY <1>1, <1>2, <1>3, <1>4, <1>5, OneRequest DEF RetryInv

\* The end of a refresh sends again what waited for it, or empties the tab.
LEMMA FlightKeeps ==
    ASSUME RetryInv, NEW t \in Tab, NEW w \in Flight, NEW ok \in BOOLEAN, FlightEnds(t, w, ok),
           jar' \in Token, issued' \in Token, keys' = keys
    PROVE  RetryInv'
<1>0. FreshRequest \in RequestType /\ FreshRequest.at = "idle"
      /\ [FreshRequest EXCEPT !.at = "sent", !.token = jar'] \in RequestType
    BY DEF FreshRequest, RequestType, Place, Pending, Token
<1>1. CASE w = "shared" /\ ok
    <2>1. req' = [r \in Request |-> IF r \in Waiting(t) THEN [req[r] EXCEPT !.at = "sent", !.token = jar']
                                    ELSE req[r]]
        BY <1>1 DEF FlightEnds
    <2>2. \A r \in Request : Harmless(req[r], req'[r])
        <3> SUFFICES ASSUME NEW r \in Request PROVE Harmless(req[r], req'[r])
            OBVIOUS
        <3>1. req[r] \in RequestType /\ req[r].at # "duplicate"
            BY DEF RetryInv
        <3>2. CASE r \in Waiting(t)
            <4>1. req[r].at = "refresh" /\ req'[r] = [req[r] EXCEPT !.at = "sent", !.token = jar']
                BY <2>1, <3>2 DEF Waiting
            <4> QED
                BY <3>1, <4>1 DEF Harmless, RequestType, Place, Pending
        <3>3. CASE r \notin Waiting(t)
            BY <2>1, <3>1, <3>3 DEF Harmless
        <3> QED
            BY <3>2, <3>3
    <2>3. req' \in [Request -> RequestType]
        BY <2>1, <2>2 DEF Harmless
    <2> QED
        BY <2>2, <2>3, HarmlessSteps
<1>2. CASE w = "shared" /\ ~ok
    <2>1. req' = [r \in Request |->
                    IF r[1] # t THEN req[r]
                    ELSE IF r[2] = "me" THEN FreshRequest
                    ELSE [req[r] EXCEPT !.at = IF @ \in Pending THEN "failed" ELSE @]]
        BY <1>2 DEF FlightEnds, ReloadAtLogin
    <2>2. \A r \in Request : /\ req'[r] \in RequestType
                             /\ Harmless(req[r], req'[r]) \/ (r[2] = "me" /\ req'[r].at # "duplicate")
        <3> SUFFICES ASSUME NEW r \in Request
                     PROVE  /\ req'[r] \in RequestType
                            /\ Harmless(req[r], req'[r]) \/ (r[2] = "me" /\ req'[r].at # "duplicate")
            OBVIOUS
        <3>1. req[r] \in RequestType /\ req[r].at # "duplicate"
            BY DEF RetryInv
        <3>2. CASE r[1] # t
            BY <2>1, <3>1, <3>2 DEF Harmless
        <3>3. CASE r[1] = t /\ r[2] = "me"
            BY <1>0, <2>1, <3>3
        <3>4. CASE r[1] = t /\ r[2] # "me"
            <4>1. req'[r] = [req[r] EXCEPT !.at = IF req[r].at \in Pending THEN "failed" ELSE req[r].at]
                BY <2>1, <3>4
            <4> QED
                BY <3>1, <4>1 DEF Harmless, RequestType, Place, Pending
        <3> QED
            BY <3>2, <3>3, <3>4
    <2>3. req' \in [Request -> RequestType]
        BY <2>1, <2>2
    <2> QED
        BY <2>2, <2>3, HarmlessSteps
<1>3. CASE w # "shared"
    <2>1. req' = IF ok THEN [req EXCEPT ![<<t, "me">>] = [FreshRequest EXCEPT !.at = "sent", !.token = jar']]
                 ELSE req
        BY <1>3 DEF FlightEnds
    <2>2. /\ req' \in [Request -> RequestType]
          /\ \A r \in Request : \/ req'[r] = req[r]
                                \/ r = <<t, "me">> /\ req'[r].at = "sent"
        BY <1>0, <2>1 DEF RetryInv, FreshRequest
    <2>3. \A r \in Request : Harmless(req[r], req'[r]) \/ (r[2] = "me" /\ req'[r].at # "duplicate")
        BY <2>2 DEF RetryInv, Harmless
    <2> QED
        BY <2>2, <2>3, HarmlessSteps
<1> QED
    BY <1>1, <1>2, <1>3

\* Loading the user asks with a request of its own.
LEMMA RouteKeeps ==
    ASSUME RetryInv, NEW t \in Tab, Route(t)
    PROVE  RetryInv'
<1> DEFINE me == <<t, "me">>
<1>1. /\ UNCHANGED <<jar, issued, keys>>
      /\ \/ req' = req
         \/ req' = [req EXCEPT ![me] = FreshRequest]
         \/ req' = [req EXCEPT ![me] = [FreshRequest EXCEPT !.at = "sent", !.token = jar]]
    BY DEF Route, LoadMe, MeAnswered, MeFailed, Resolve, server
<1>2. FreshRequest \in RequestType /\ FreshRequest.at = "idle"
      /\ [FreshRequest EXCEPT !.at = "sent", !.token = jar] \in RequestType
    BY DEF FreshRequest, RequestType, Place, Pending, Token, RetryInv
<1>3. /\ req' \in [Request -> RequestType]
      /\ \A r \in Request : \/ req'[r] = req[r]
                            \/ r = me /\ req'[r].at \in {"idle", "sent"}
    BY <1>1, <1>2 DEF RetryInv, FreshRequest
<1>4. \A r \in Request : Harmless(req[r], req'[r]) \/ (r[2] = "me" /\ req'[r].at # "duplicate")
    BY <1>3 DEF RetryInv, Harmless
<1> QED
    BY <1>1, <1>3, <1>4, HarmlessSteps DEF RetryInv

\* Every step keeps the invariant.
LEMMA RetryStep ==
    ASSUME RetryInv, [Next]_vars
    PROVE  RetryInv'
<1>1. ASSUME NEW t \in Tab, NEW w \in Flight, Refresh(t, w) \/ LoseRefresh(t, w)
      PROVE  RetryInv'
    <2>1. CASE FindToken(t, w)
        BY <2>1 DEF FindToken, server, RetryInv
    <2>2. ASSUME jar' \in Token, issued' \in Token, keys' = keys,
                 FlightEnds(t, w, TRUE) \/ FlightEnds(t, w, FALSE)
          PROVE  RetryInv'
        BY <2>2, FlightKeeps
    <2>3. CASE RefreshSucceeds(t, w)
        <3>1. FlightEnds(t, w, TRUE)
            BY <2>3, Zenon DEF RefreshSucceeds
        <3>2. jar' = issued + 1 /\ issued' = issued + 1 /\ keys' = keys
            BY <2>3, Zenon DEF RefreshSucceeds, Rotate
        <3> QED
            BY <3>1, <3>2, <2>2 DEF RetryInv, Token
    <2>4. CASE RefreshRefused(t, w)
        <3>1. FlightEnds(t, w, FALSE) /\ UNCHANGED <<jar, issued, keys>>
            BY <2>4, Zenon DEF RefreshRefused
        <3> QED
            BY <3>1, <2>2 DEF RetryInv, Token
    <2>5. CASE LoseRefresh(t, w)
        <3>1. FlightEnds(t, w, FALSE) /\ UNCHANGED <<jar, keys>>
            BY <2>5, Zenon DEF LoseRefresh
        <3>2. issued' = issued \/ issued' = issued + 1
            BY <2>5, Zenon DEF LoseRefresh, Rotate
        <3> QED
            BY <3>1, <3>2, <2>2 DEF RetryInv, Token
    <2> QED
        BY <1>1, <2>1, <2>3, <2>4, <2>5, Zenon DEF Refresh
<1>2. ASSUME NEW t \in Tab, \/ Login(t) \/ \E page \in Target : Go(t, page)
                            \/ \E arrives \in BOOLEAN : Logout(t, arrives)
      PROVE  RetryInv'
    BY <1>2 DEF Login, Go, Logout, server, RetryInv, Token
<1>3. CASE ExpireAccess \/ RevokeAll \/ UNCHANGED vars
    BY <1>3 DEF ExpireAccess, RevokeAll, vars, client, server, RetryInv
<1> QED
    BY <1>1, <1>2, <1>3, RouteKeeps, RequestKeeps, LossKeeps DEF Next

LEMMA RetryInit == Init => RetryInv
<1> SUFFICES ASSUME Init PROVE RetryInv
    OBVIOUS
<1>1. FreshRequest \in RequestType /\ FreshRequest.at = "idle"
    BY DEF FreshRequest, RequestType, Place, Token
<1> QED
    BY <1>1 DEF Init, RetryInv, Token

\* No write is answered that its key was used already, however often it is sent: the key
\* is stored behind the check of the access token (idempotency.go, main.go), and only a
\* write that failed this check is sent a second time (client.ts).
THEOREM RetriesAreNotRefused == Spec => []RetryIsNotRefused
<1>1. RetryInv => RetryIsNotRefused
    BY DEF RetryInv, RetryIsNotRefused
<1> QED
    BY <1>1, RetryInit, RetryStep, PTL DEF Spec

-----------------------------------------------------------------------------
(* Types.                                                                  *)

TabType == [route : Target \cup {"start", "login", "projects", "settings"},
            target : Target \cup {"none", "login", "projects", "settings"},
            user : Account \cup {NoUser}, ready : BOOLEAN,
            load : {"none", "me", "refresh", "again"}]
FlightType == [at : {"none", "sent", "found"}, token : Token]

TypesInv ==
    /\ RetryInv
    /\ tab \in [Tab -> TabType] /\ flight \in [Tab \X Flight -> FlightType]
    /\ logins \in Nat /\ live \subseteq Token /\ expired \subseteq Token
    /\ account \in Account /\ trouble \in 0 .. MaxTrouble

LEMMA TypesHold == TypesInv => TypeOK
<1> SUFFICES ASSUME TypesInv PROVE TypeOK
    OBVIOUS
<1>1. keys \subseteq Request
    BY DEF TypesInv, RetryInv
<1>2. /\ req \in [Request -> RequestType] /\ jar \in Token /\ issued \in Token /\ logins \in Token
      /\ tab \in [Tab -> TabType] /\ flight \in [Tab \X Flight -> FlightType]
      /\ live \subseteq Token /\ expired \subseteq Token
      /\ account \in Account /\ trouble \in 0 .. MaxTrouble
    BY DEF TypesInv, RetryInv, Token
<1> QED
    BY <1>1, <1>2, Zenon DEF TypeOK, RequestType, Place, TabType, FlightType

LEMMA TypesInit == MaxTrouble \in Nat /\ Init => TypesInv
<1> SUFFICES ASSUME MaxTrouble \in Nat, Init PROVE TypesInv
    OBVIOUS
<1>1. \A page \in Target : FreshTab(page) \in TabType
    BY DEF FreshTab, TabType
<1>2. NoFlight \in FlightType
    BY DEF NoFlight, FlightType, Token
<1> QED
    BY <1>1, <1>2, RetryInit DEF TypesInv, Init, Token

\* The tab of an action gets a record of its own, the others keep theirs.
LEMMA TabTyped ==
    ASSUME TypesInv, NEW t \in Tab, NEW new \in TabType, tab' = tab \/ tab' = [tab EXCEPT ![t] = new]
    PROVE  tab' \in [Tab -> TabType]
BY DEF TypesInv

\* A flight that ends, well or not, leaves every tab and flight well typed.
LEMMA EndsTyped ==
    ASSUME TypesInv, NEW t \in Tab, NEW w \in Flight, NEW ok \in BOOLEAN, FlightEnds(t, w, ok)
    PROVE  tab' \in [Tab -> TabType] /\ flight' \in [Tab \X Flight -> FlightType]
<1>1. NoFlight \in FlightType /\ tab[t] \in TabType
    BY DEF NoFlight, FlightType, Token, TypesInv
<1>2. CASE w = "shared" /\ ~ok
    <2>1. [FreshTab("none") EXCEPT !.route = "login"] \in TabType
        BY DEF FreshTab, TabType
    <2>2. tab' = [tab EXCEPT ![t] = [FreshTab("none") EXCEPT !.route = "login"]]
          /\ flight' = [f \in Tab \X Flight |-> IF f[1] = t THEN NoFlight ELSE flight[f]]
        BY <1>2 DEF FlightEnds, ReloadAtLogin
    <2> QED
        BY <1>1, <2>1, <2>2, TabTyped DEF TypesInv
<1>3. CASE w # "shared" \/ ok
    <2> DEFINE new == IF ok THEN [tab[t] EXCEPT !.load = "again"]
                      ELSE [tab[t] EXCEPT !.load = "none", !.ready = TRUE, !.target = "login"]
    <2>1. new \in TabType
        BY <1>1 DEF TabType
    <2>2. tab' = tab \/ tab' = [tab EXCEPT ![t] = new]
        BY <1>3 DEF FlightEnds
    <2>3. flight' = [flight EXCEPT ![<<t, w>>] = NoFlight]
        BY <1>3 DEF FlightEnds
    <2> HIDE DEF new
    <2> QED
        BY <1>1, <2>1, <2>2, <2>3, TabTyped DEF TypesInv
<1> QED
    BY <1>2, <1>3

\* The router and the login page: what they write to a tab is a record of a tab.
LEMMA RouteTyped ==
    ASSUME TypesInv, NEW t \in Tab,
           Route(t) \/ Login(t) \/ (\E page \in Target : Go(t, page)) \/ \E arrives \in BOOLEAN : Logout(t, arrives)
    PROVE  tab' \in [Tab -> TabType] /\ flight' \in [Tab \X Flight -> FlightType]
<1>0. tab[t] \in TabType /\ account \in Account /\ jar \in Token
      /\ flight \in [Tab \X Flight -> FlightType]
    BY DEF TypesInv, RetryInv
<1>1. CASE LoadMe(t)
    <2>1. [tab[t] EXCEPT !.load = "me"] \in TabType /\ UNCHANGED flight
          /\ tab' = [tab EXCEPT ![t] = [tab[t] EXCEPT !.load = "me"]]
        BY <1>0, <1>1 DEF LoadMe, TabType
    <2> QED
        BY <1>0, <2>1, TabTyped
<1>2. CASE MeAnswered(t)
    <2> DEFINE new == [tab[t] EXCEPT !.load = "none", !.ready = TRUE, !.user = account]
    <2>1. new \in TabType /\ UNCHANGED flight /\ tab' = [tab EXCEPT ![t] = new]
        BY <1>0, <1>2 DEF MeAnswered, TabType
    <2> HIDE DEF new
    <2> QED
        BY <1>0, <2>1, TabTyped
<1>3. CASE MeFailed(t)
    <2> DEFINE new == IF tab[t].load = "me" THEN [tab[t] EXCEPT !.load = "refresh"]
                      ELSE [tab[t] EXCEPT !.load = "none", !.ready = TRUE, !.target = "login"]
               sent == [at |-> "sent", token |-> jar]
    <2>1. new \in TabType /\ sent \in FlightType
        BY <1>0 DEF TabType, FlightType
    <2>2. tab' = [tab EXCEPT ![t] = new]
        BY <1>3 DEF MeFailed
    <2>3. flight' = flight \/ flight' = [flight EXCEPT ![<<t, "own">>] = sent]
        BY <1>3 DEF MeFailed
    <2> HIDE DEF new, sent
    <2> QED
        BY <1>0, <2>1, <2>2, <2>3, TabTyped
<1>4. CASE Resolve(t)
    <2> DEFINE to == tab[t].target
               next == Guard(to, tab[t].user)
    <2>1. /\ to # "none" /\ UNCHANGED flight
          /\ \/ tab' = [tab EXCEPT ![t] = [tab[t] EXCEPT !.route = to, !.target = "none"]]
             \/ tab' = [tab EXCEPT ![t] = [tab[t] EXCEPT !.target = next]]
        BY <1>4 DEF Resolve
    <2>2. to \in Target \cup {"none", "login", "projects", "settings"}
        BY <1>0 DEF TabType
    <2>3. next \in Target \cup {"none", "login", "projects", "settings"}
        BY <2>2 DEF Guard
    <2> HIDE DEF to, next
    <2>4. /\ [tab[t] EXCEPT !.route = to, !.target = "none"] \in TabType
          /\ [tab[t] EXCEPT !.target = next] \in TabType
        BY <1>0, <2>1, <2>2, <2>3 DEF TabType
    <2> QED
        BY <1>0, <2>1, <2>4, TabTyped
<1>5. CASE Login(t)
    <2> DEFINE new == [tab[t] EXCEPT !.user = account, !.ready = TRUE, !.target = "projects"]
    <2>1. new \in TabType /\ UNCHANGED flight /\ tab' = [tab EXCEPT ![t] = new]
        BY <1>0, <1>5 DEF Login, TabType
    <2> HIDE DEF new
    <2> QED
        BY <1>0, <2>1, TabTyped
<1>6. ASSUME NEW page \in Target, Go(t, page)
      PROVE  tab' \in [Tab -> TabType] /\ UNCHANGED flight
    <2>1. [tab[t] EXCEPT !.target = page] \in TabType /\ UNCHANGED flight
          /\ tab' = [tab EXCEPT ![t] = [tab[t] EXCEPT !.target = page]]
        BY <1>0, <1>6 DEF Go, TabType
    <2> QED
        BY <2>1, TabTyped
<1>7. ASSUME NEW arrives \in BOOLEAN, Logout(t, arrives)
      PROVE  tab' \in [Tab -> TabType] /\ UNCHANGED flight
    <2> DEFINE out == [tab[t] EXCEPT !.user = NoUser, !.target = "login"]
               page == [tab[t] EXCEPT !.target = "login"]
    <2>1. out \in TabType /\ page \in TabType
        BY <1>0 DEF TabType
    <2>2. /\ UNCHANGED flight
          /\ tab' = [tab EXCEPT ![t] = out] \/ tab' = [tab EXCEPT ![t] = page]
        BY <1>7 DEF Logout
    <2> HIDE DEF out, page
    <2> QED
        BY <2>1, <2>2, TabTyped
<1> QED
    BY <1>0, <1>1, <1>2, <1>3, <1>4, <1>5, <1>6, <1>7 DEF Route

\* Requests leave the tabs alone and start at most the shared flight.
LEMMA RequestTyped ==
    ASSUME TypesInv, NEW t \in Tab, NEW k \in Kind,
           Send(t, k) \/ Progress(t, k) \/ \E handled \in BOOLEAN : LoseRequest(t, k, handled)
    PROVE  tab' = tab /\ flight' \in [Tab \X Flight -> FlightType]
<1>1. /\ tab' = tab
      /\ \/ flight' = flight
         \/ flight' = [flight EXCEPT ![<<t, "shared">>] =
                          IF @.at = "none" THEN [at |-> "sent", token |-> jar] ELSE @]
    BY DEF Send, Progress, Answer, Resend, LoseRequest, JoinRefresh
<1>2. [at |-> "sent", token |-> jar] \in FlightType /\ <<t, "shared">> \in Tab \X Flight
    BY DEF FlightType, TypesInv, RetryInv, Flight
<1> QED
    BY <1>1, <1>2 DEF TypesInv

\* What no action does otherwise: the server's numbers.
Counts ==
    /\ logins' \in Nat /\ live' \subseteq Token /\ expired' \subseteq Token
    /\ account' \in Account /\ trouble' \in 0 .. MaxTrouble

LEMMA TypesStep ==
    ASSUME MaxTrouble \in Nat, TypesInv, [Next]_vars
    PROVE  TypesInv'
<1>0. RetryInv'
    BY RetryStep DEF TypesInv
<1>1. logins \in Nat /\ issued \in Nat /\ live \subseteq Nat /\ expired \subseteq Nat
      /\ account \in Account /\ trouble \in 0 .. MaxTrouble
    BY DEF TypesInv, RetryInv, Token
<1>t. Trouble => trouble' \in 0 .. MaxTrouble
    BY <1>1 DEF Trouble
<1>2. ASSUME NEW t \in Tab, Route(t) \/ (\E page \in Target : Go(t, page))
      PROVE  Counts
    BY <1>1, <1>2 DEF Counts, Route, LoadMe, MeAnswered, MeFailed, Resolve, Go, server, Token
<1>3. ASSUME NEW t \in Tab, Login(t) \/ \E arrives \in BOOLEAN : Logout(t, arrives)
      PROVE  Counts
    BY <1>1, <1>3, <1>t DEF Counts, Login, Logout, Token
<1>4. ASSUME NEW t \in Tab, NEW k \in Kind,
             Send(t, k) \/ Progress(t, k) \/ \E handled \in BOOLEAN : LoseRequest(t, k, handled)
      PROVE  Counts
    BY <1>1, <1>4, <1>t DEF Counts, Send, Progress, Answer, Resend, LoseRequest, server, Token
<1>5. ASSUME NEW t \in Tab, NEW w \in Flight, Refresh(t, w) \/ LoseRefresh(t, w)
      PROVE  TypesInv'
    <2>1. CASE FindToken(t, w)
        BY <1>0, <1>1, <2>1 DEF FindToken, server, TypesInv, FlightType, Token
    <2>2. CASE RefreshSucceeds(t, w)
        <3>1. FlightEnds(t, w, TRUE)
            BY <2>2, Zenon DEF RefreshSucceeds
        <3>2. UNCHANGED <<expired, logins, account, trouble>> /\ live' \subseteq live \cup {issued + 1}
            BY <2>2, Zenon DEF RefreshSucceeds, Rotate
        <3>3. tab' \in [Tab -> TabType] /\ flight' \in [Tab \X Flight -> FlightType]
            BY <3>1, EndsTyped
        <3> QED
            BY <1>0, <1>1, <3>2, <3>3 DEF TypesInv, Token
    <2>3. CASE RefreshRefused(t, w)
        <3>1. FlightEnds(t, w, FALSE) /\ UNCHANGED <<expired, logins, account, trouble, live>>
            BY <2>3, Zenon DEF RefreshRefused
        <3>2. tab' \in [Tab -> TabType] /\ flight' \in [Tab \X Flight -> FlightType]
            BY <3>1, EndsTyped
        <3> QED
            BY <1>0, <1>1, <3>1, <3>2 DEF TypesInv, Token
    <2>4. CASE LoseRefresh(t, w)
        <3>1. FlightEnds(t, w, FALSE) /\ UNCHANGED <<expired, logins, account>> /\ Trouble
            BY <2>4, Zenon DEF LoseRefresh
        <3>2. live' \subseteq live \cup {issued + 1}
            BY <2>4, Zenon DEF LoseRefresh, Rotate
        <3>3. tab' \in [Tab -> TabType] /\ flight' \in [Tab \X Flight -> FlightType]
            BY <3>1, EndsTyped
        <3> QED
            BY <1>0, <1>1, <1>t, <3>1, <3>2, <3>3 DEF TypesInv, Token
    <2> QED
        BY <1>5, <2>1, <2>2, <2>3, <2>4, Zenon DEF Refresh
<1>6. CASE ExpireAccess \/ RevokeAll \/ UNCHANGED vars
    <2>1. /\ UNCHANGED <<tab, flight, logins, account>> /\ live' \subseteq live
          /\ expired' = expired \/ expired' = 0 .. issued
          /\ trouble' = trouble \/ Trouble
        BY <1>6 DEF ExpireAccess, RevokeAll, vars, client, server
    <2>2. trouble' \in 0 .. MaxTrouble
        BY <1>1, <1>t, <2>1, Zenon
    <2>3. 0 .. issued \subseteq Nat
        BY <1>1
    <2>4. expired' \subseteq Nat
        BY <1>1, <2>1, <2>3, Zenon
    <2> QED
        BY <1>0, <1>1, <2>1, <2>2, <2>4 DEF TypesInv, Token
<1>7. ASSUME Counts, tab' \in [Tab -> TabType], flight' \in [Tab \X Flight -> FlightType]
      PROVE  TypesInv'
    BY <1>0, <1>7 DEF Counts, TypesInv
<1>8. tab \in [Tab -> TabType]
    BY DEF TypesInv
<1>9. ASSUME NEW t \in Tab, \/ Route(t) \/ Login(t) \/ \E page \in Target : Go(t, page)
                            \/ \E arrives \in BOOLEAN : Logout(t, arrives)
      PROVE  TypesInv'
    BY <1>2, <1>3, <1>7, <1>9, RouteTyped
<1>10. ASSUME NEW t \in Tab, NEW k \in Kind,
              Send(t, k) \/ Progress(t, k) \/ \E handled \in BOOLEAN : LoseRequest(t, k, handled)
       PROVE  TypesInv'
    BY <1>4, <1>7, <1>8, <1>10, RequestTyped
<1> QED
    BY <1>5, <1>6, <1>9, <1>10 DEF Next

\* Every reachable state of the session is well typed.
THEOREM SessionTyped == MaxTrouble \in Nat /\ Spec => []TypeOK
<1>1. ASSUME MaxTrouble \in Nat
      PROVE  Spec => []TypeOK
    BY <1>1, TypesInit, TypesStep, TypesHold, PTL DEF Spec
<1> QED
    BY <1>1
=============================================================================
