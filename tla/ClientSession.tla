--------------------------- MODULE ClientSession ---------------------------
(***************************************************************************)
(* The session of one StockFlow browser page: tokens in local storage, the *)
(* interceptors that attach them to a request, refresh them once for all   *)
(* the requests answered 401 and send those again, the provider that asks  *)
(* the API who the user is (GET /auth/me) and shows the answer, and        *)
(* sign-in and sign-out, which run at any time between.                    *)
(*                                                                         *)
(*   idle -> sent -> done | failed                                         *)
(*             `-> waiting (for the refresh) -> sent (again) | failed      *)
(*                                                                         *)
(* JavaScript runs one event at a time, and what a settled promise starts  *)
(* runs before the next event: one action here is one event with all that. *)
(***************************************************************************)
EXTENDS Integers, Sequences, FiniteSets

CONSTANTS
    Users,      \* who may sign in
    Calls,      \* changes that may be submitted, each once
    Asks,       \* bound: so many GET /auth/me under way at once
    NoUser,     \* nobody
    NoRefresh,  \* no refresh under way
    NoAsk       \* no answer to GET /auth/me waited for

Requests == Calls \cup Asks

ASSUME NobodyAssumption == NoUser \notin Users /\ NoRefresh \notin Users \cup {NoUser}

ASSUME RequestsAssumption == Calls \cap Asks = {} /\ NoAsk \notin Asks

VARIABLES
    storage,    \* the tokens in local storage: whose, and whether the access token is still good
    refresh,    \* refreshPromise: whose refresh token has been sent
    path,       \* "login", or "app" for every page behind it
    shown,      \* currentUser.data: the user the provider last rendered with
    enabled,    \* sessionExists, when the provider rendered last
    cached,     \* the query ['auth', 'me'] it shows is the one in the query client
    asking,     \* the request whose answer that query waits for
    login,      \* the user whose sign-in is under way
    pc,         \* stage of each request
    bearer,     \* the token it carries
    retried,    \* its _retry
    server,     \* "request" on its way or at work, an answer on its way, or "none"
    asker,      \* history: the user shown when a call was submitted
    served,     \* history: as whom the server carried it out, each time
    crossed,    \* history: it met a change of session: see ServedAsAsker
    owner,      \* history: who signed in last; nobody after signing out
    overtaken,  \* history: a refresh was under way at the last sign-in or sign-out
    outdated    \* history: an answer was waited for at the last sign-in, and no load since

provider == <<shown, enabled, cached, asking>>
session == <<storage, refresh, path, provider, login, owner, overtaken, outdated>>
requests == <<pc, bearer, retried, server>>
history == <<asker, served, crossed>>
vars == <<session, requests, history>>

----------------------------------------------------------------------------

\* tokenStorage
NoTokens == [user |-> NoUser, live |-> FALSE]
Tokens(u) == [user |-> u, live |-> TRUE]
Old(tokens) == [user |-> tokens.user, live |-> FALSE]

Init ==
    /\ storage = NoTokens /\ refresh = NoRefresh
    /\ path = "login" /\ shown = NoUser /\ login = NoUser
    /\ enabled = FALSE /\ cached = TRUE /\ asking = NoAsk
    /\ pc = [r \in Requests |-> "idle"] /\ bearer = [r \in Requests |-> NoTokens]
    /\ retried = [r \in Requests |-> FALSE] /\ server = [r \in Requests |-> "none"]
    /\ asker = [c \in Calls |-> NoUser] /\ served = [c \in Calls |-> <<>>]
    /\ crossed = [c \in Calls |-> FALSE]
    /\ owner = NoUser /\ overtaken = FALSE /\ outdated = FALSE

Waiting == {r \in Requests : pc[r] = "waiting"}

----------------------------------------------------------------------------
(* The provider *)

\* isLoading
Loading == enabled /\ shown = NoUser /\ asking # NoAsk

\* Who is shown decides where: LoginPage sends a known user on, ProtectedRoute keeps
\* an unknown one out unless the answer is still to come.
Place == path' =
    IF shown' # NoUser THEN "app"
    ELSE IF Loading' THEN path ELSE "login"

\* The request interceptor takes the access token then in the storage.
Send(r) ==
    /\ pc[r] = "idle"
    /\ pc' = [pc EXCEPT ![r] = "sent"] /\ server' = [server EXCEPT ![r] = "request"]
    /\ bearer' = [bearer EXCEPT ![r] = storage]
    /\ UNCHANGED retried

\* queryFn: the query waits for the answer to a new request.
Ask == \E m \in Asks : Send(m) /\ asking' = m

\* The provider renders, with a query of its own again if the former was removed: if it
\* finds tokens that it did not know of, and no user, it asks who that is.
Render ==
    /\ enabled' = (storage # NoTokens)
    /\ cached' = TRUE /\ shown' = IF cached THEN shown ELSE NoUser
    /\ IF enabled' /\ ~(enabled /\ cached) /\ shown' = NoUser /\ asking = NoAsk
       THEN Ask
       ELSE UNCHANGED <<asking, requests>>
    /\ Place

\* A request for the user is over: the slot is free again.
Forget(m) ==
    /\ pc' = [pc EXCEPT ![m] = "idle"] /\ server' = [server EXCEPT ![m] = "none"]
    /\ bearer' = [bearer EXCEPT ![m] = NoTokens] /\ retried' = [retried EXCEPT ![m] = FALSE]

\* Who is shown once the answer has come, or the request has failed: whoever was, and
\* the provider renders if that is new to it.  No one waits for a request whose query
\* was removed.
Learn(m, user) ==
    IF m = asking
    THEN /\ asking' = NoAsk /\ shown' = user
         /\ enabled' = IF Loading \/ user # shown THEN storage # NoTokens ELSE enabled
         /\ Place
         /\ UNCHANGED cached
    ELSE UNCHANGED <<path, provider>>

\* refetchOnReconnect: the network is back and what the query holds is a minute old.
Reconnect ==
    /\ cached /\ enabled /\ asking = NoAsk
    /\ Ask
    /\ enabled' = IF shown = NoUser THEN storage # NoTokens ELSE enabled
    /\ UNCHANGED <<storage, refresh, path, shown, cached, login, owner, overtaken, outdated, history>>

\* The page loads: its script starts afresh, whatever was under way in it is gone, and if
\* there are tokens it asks whose they are.
Load(destination) ==
    /\ refresh' = NoRefresh /\ login' = NoUser
    /\ shown' = NoUser /\ enabled' = (storage' # NoTokens) /\ cached' = TRUE
    /\ asking' \in IF enabled' THEN Asks ELSE {NoAsk}
    /\ path' = IF enabled' THEN destination ELSE "login"
    /\ outdated' = FALSE
    /\ pc' = [r \in Requests |->
                 IF r \in Asks THEN IF r = asking' THEN "sent" ELSE "idle"
                 ELSE IF pc[r] \in {"sent", "waiting"} THEN "failed" ELSE pc[r]]
    /\ server' = [r \in Requests |->
                     IF r \in Asks THEN IF r = asking' THEN "request" ELSE "none" ELSE server[r]]
    /\ bearer' = [r \in Requests |->
                     IF r \in Asks THEN IF r = asking' THEN storage' ELSE NoTokens ELSE bearer[r]]
    /\ retried' = [r \in Requests |-> r \notin Asks /\ retried[r]]
    /\ UNCHANGED <<owner, overtaken, history>>

\* The user loads the page again, or enters the address of another.
Reload ==
    /\ UNCHANGED storage
    /\ \E destination \in {"login", "app"} : Load(destination)

----------------------------------------------------------------------------
(* Signing in and out *)

\* A note that the session changes under the calls made so far.
Cross ==
    /\ overtaken' = (refresh # NoRefresh)
    /\ crossed' = [c \in Calls |-> crossed[c] \/ pc[c] # "idle"]

\* The login form; the provider renders because its mutation has begun.
SignIn(u) ==
    /\ path = "login" /\ login = NoUser
    /\ login' = u
    /\ Render
    /\ UNCHANGED <<storage, refresh, owner, overtaken, outdated, history>>

SignInFails ==
    /\ login # NoUser /\ login' = NoUser
    /\ Render
    /\ UNCHANGED <<storage, refresh, owner, overtaken, outdated, history>>

\* The tokens and the user are stored; nothing is asked, and nothing that was is cancelled.
SignedIn ==
    /\ login # NoUser /\ login' = NoUser
    /\ storage' = Tokens(login) /\ shown' = login /\ path' = "app"
    /\ enabled' = TRUE /\ cached' = TRUE
    /\ owner' = login /\ Cross /\ outdated' = (asking # NoAsk)
    /\ UNCHANGED <<refresh, asking, requests, asker, served>>

\* Mutant: forgets the cached user but not the tokens.
SignOutKeepingTokens ==
    /\ path = "app" /\ shown # NoUser
    /\ cached' = FALSE /\ asking' = NoAsk
    /\ owner' = NoUser /\ Cross /\ outdated' = FALSE
    /\ UNCHANGED <<storage, refresh, path, shown, enabled, login, requests, asker, served>>

\* removeQueries cancels the query without a word to the provider, which therefore does
\* not render: it still shows the user, and LoginPage sends the page back.
SignOut ==
    /\ path = "app" /\ shown # NoUser
    /\ storage' = NoTokens
    /\ cached' = FALSE /\ asking' = NoAsk
    /\ owner' = NoUser /\ Cross /\ outdated' = FALSE
    /\ UNCHANGED <<refresh, path, shown, enabled, login, requests, asker, served>>

----------------------------------------------------------------------------
(* Requests *)

\* A change is submitted on a page that shows a user.
Submit(c) ==
    /\ path = "app" /\ shown # NoUser
    /\ Send(c)
    /\ asker' = [asker EXCEPT ![c] = shown]
    /\ crossed' = [crossed EXCEPT ![c] = overtaken \/ outdated]
    /\ UNCHANGED <<served, session>>

\* The API carries it out, or refuses it for a reason of its own, or answers 401.
Serve(r) ==
    /\ server[r] = "request"
    /\ \E answer \in IF bearer[r].live THEN {"ok", "refused"} ELSE {"401"} :
          /\ server' = [server EXCEPT ![r] = answer]
          /\ served' = IF r \in Calls /\ answer = "ok"
                       THEN [served EXCEPT ![r] = Append(@, bearer[r].user)] ELSE served
    /\ UNCHANGED <<pc, bearer, retried, asker, crossed, session>>

Settle(c, stage, answer) ==
    /\ pc' = [pc EXCEPT ![c] = stage] /\ server' = [server EXCEPT ![c] = answer]
    /\ UNCHANGED <<bearer, retried, path, provider>>

\* Its promise is rejected; the server may still be at work.
Fail(r, answer) ==
    IF r \in Calls THEN Settle(r, "failed", answer) ELSE Forget(r) /\ Learn(r, shown)

Answered(r) ==
    /\ pc[r] = "sent" /\ server[r] \in {"ok", "refused"}
    /\ CASE server[r] = "refused" -> Fail(r, "none")
         [] server[r] = "ok" /\ r \in Calls -> Settle(r, "done", "none")
         [] server[r] = "ok" /\ r \in Asks -> Forget(r) /\ Learn(r, bearer[r].user)
    /\ UNCHANGED <<storage, refresh, login, owner, overtaken, outdated, history>>

\* Mutant: what has timed out is sent again.
GiveUpAndResend(r) ==
    /\ pc[r] = "sent" /\ ~retried[r]
    /\ retried' = [retried EXCEPT ![r] = TRUE]
    /\ server' = [server EXCEPT ![r] = "request"]
    /\ UNCHANGED <<pc, bearer, session, history>>

\* Ten seconds have passed without an answer; the server does not hear of it.
GiveUp(r) ==
    /\ pc[r] = "sent"
    /\ Fail(r, server[r])
    /\ UNCHANGED <<storage, refresh, login, owner, overtaken, outdated, history>>

\* 401, and nothing can be done about it.
Reject(r) ==
    /\ pc[r] = "sent" /\ server[r] = "401"
    /\ retried[r] \/ storage = NoTokens
    /\ Fail(r, "none")
    /\ UNCHANGED <<storage, refresh, login, owner, overtaken, outdated, history>>

unrefreshed == <<storage, path, provider, login, owner, overtaken, outdated, history>>

\* Mutant: asks for a refresh whether or not there is a token to ask with.
AwaitRefreshUnchecked(r) ==
    /\ pc[r] = "sent" /\ server[r] = "401"
    /\ ~retried[r]
    /\ pc' = [pc EXCEPT ![r] = "waiting"] /\ server' = [server EXCEPT ![r] = "none"]
    /\ retried' = [retried EXCEPT ![r] = TRUE]
    /\ refresh' = IF refresh = NoRefresh THEN storage.user ELSE refresh
    /\ UNCHANGED <<bearer, unrefreshed>>

\* Mutant: refreshes with the refresh token that was stored when the request was sent.
AwaitOwnRefresh(r) ==
    /\ pc[r] = "sent" /\ server[r] = "401"
    /\ ~retried[r] /\ bearer[r] # NoTokens
    /\ pc' = [pc EXCEPT ![r] = "waiting"] /\ server' = [server EXCEPT ![r] = "none"]
    /\ retried' = [retried EXCEPT ![r] = TRUE]
    /\ refresh' = IF refresh = NoRefresh THEN bearer[r].user ELSE refresh
    /\ UNCHANGED <<bearer, unrefreshed>>

\* Mutant: does not remember that the request has been retried.
AwaitRefreshAgain(r) ==
    /\ pc[r] = "sent" /\ server[r] = "401"
    /\ ~retried[r] /\ storage # NoTokens
    /\ pc' = [pc EXCEPT ![r] = "waiting"] /\ server' = [server EXCEPT ![r] = "none"]
    /\ refresh' = IF refresh = NoRefresh THEN storage.user ELSE refresh
    /\ UNCHANGED <<bearer, retried, unrefreshed>>

\* 401: the request waits for the refresh under way, or starts one with the stored refresh token.
AwaitRefresh(r) ==
    /\ pc[r] = "sent" /\ server[r] = "401"
    /\ ~retried[r] /\ storage # NoTokens
    /\ pc' = [pc EXCEPT ![r] = "waiting"] /\ server' = [server EXCEPT ![r] = "none"]
    /\ retried' = [retried EXCEPT ![r] = TRUE]
    /\ refresh' = IF refresh = NoRefresh THEN storage.user ELSE refresh
    /\ UNCHANGED <<bearer, unrefreshed>>

\* The new tokens are stored, and all who waited are sent again with them.
RefreshGranted ==
    /\ refresh # NoRefresh /\ refresh' = NoRefresh
    /\ storage' = Tokens(refresh)
    /\ pc' = [r \in Requests |-> IF r \in Waiting THEN "sent" ELSE pc[r]]
    /\ server' = [r \in Requests |-> IF r \in Waiting THEN "request" ELSE server[r]]
    /\ bearer' = [r \in Requests |-> IF r \in Waiting THEN Tokens(refresh) ELSE bearer[r]]
    /\ UNCHANGED <<path, provider, login, retried, owner, overtaken, outdated, history>>

\* Each of those who waited clears the storage; outside the login page the page is loaded anew.
RefreshFails ==
    /\ refresh # NoRefresh
    /\ storage' = NoTokens
    /\ \/ path = "app" /\ Load("login")
       \/ /\ path = "login"
          /\ refresh' = NoRefresh
          /\ LET over == Waiting \cap Asks IN
             /\ pc' = [r \in Requests |->
                          IF r \in over THEN "idle" ELSE IF r \in Waiting THEN "failed" ELSE pc[r]]
             /\ bearer' = [r \in Requests |-> IF r \in over THEN NoTokens ELSE bearer[r]]
             /\ retried' = [r \in Requests |-> r \notin over /\ retried[r]]
             /\ asking' = IF asking \in over THEN NoAsk ELSE asking
             /\ enabled' = (enabled /\ asking \notin over)
          /\ UNCHANGED <<path, shown, cached, login, server, owner, overtaken, outdated, history>>

\* Access tokens grow old: the stored one and with it all that were issued before, or only
\* those of a user who was signed in before.
Expire ==
    /\ \/ storage' = Old(storage)
       \/ UNCHANGED storage
    /\ bearer' = [r \in Requests |->
                    IF storage'.live /\ bearer[r].user = storage.user THEN bearer[r]
                    ELSE Old(bearer[r])]
    /\ UNCHANGED <<refresh, path, provider, login, owner, overtaken, outdated,
                   pc, retried, server, history>>

RefreshAnswered == RefreshGranted \/ RefreshFails

Handled(r) == Answered(r) \/ GiveUp(r) \/ Reject(r) \/ AwaitRefresh(r)

Next ==
    \/ SignInFails \/ SignedIn \/ SignOut \/ Reload \/ Reconnect
    \/ RefreshAnswered \/ Expire
    \/ \E u \in Users : SignIn(u)
    \/ \E c \in Calls : Submit(c)
    \/ \E r \in Requests : Serve(r) \/ Handled(r)

Spec == Init /\ [][Next]_vars

\* An answer that has come is handled; the client's clock runs; a refresh is answered in the end.
Fairness ==
    /\ WF_vars(RefreshAnswered)
    /\ \A r \in Requests : WF_vars(Handled(r))

FairSpec == Spec /\ Fairness

----------------------------------------------------------------------------
(* Properties *)

\* Type correctness; in particular a refresh is only asked for with a token.
TypeOK ==
    /\ storage \in [user : Users, live : BOOLEAN] \cup {NoTokens}
    /\ refresh \in Users \cup {NoRefresh}
    /\ path \in {"login", "app"}
    /\ shown \in Users \cup {NoUser} /\ login \in Users \cup {NoUser}
    /\ enabled \in BOOLEAN /\ cached \in BOOLEAN /\ asking \in Asks \cup {NoAsk}
    /\ owner \in Users \cup {NoUser} /\ overtaken \in BOOLEAN /\ outdated \in BOOLEAN
    /\ pc \in [Requests -> {"idle", "sent", "waiting", "done", "failed"}]
    /\ bearer \in [Requests -> [user : Users \cup {NoUser}, live : BOOLEAN]]
    /\ retried \in [Requests -> BOOLEAN] /\ crossed \in [Calls -> BOOLEAN]
    /\ server \in [Requests -> {"none", "request", "ok", "refused", "401"}]
    /\ asker \in [Calls -> Users \cup {NoUser}]
    /\ served \in [Calls -> Seq(Users)]

\* What is submitted once is carried out at most once, although the client sends it again after
\* a refresh, and a call it shows as failed for want of a token has not been carried out.
NeverTwice ==
    \A c \in Calls :
        /\ Len(served[c]) <= 1
        /\ Len(served[c]) = 1 => pc[c] # "waiting" /\ server[c] # "request" /\ server[c] # "401"

\* The stored tokens, and a refresh under way, are those of the user who signed in last, and there
\* are none after signing out, unless a refresh was under way at that sign-in or sign-out: its
\* answer comes later and stores its tokens over the new ones, or clears them.
SessionIsLastSignIn ==
    ~overtaken =>
        /\ storage.user \in {owner, NoUser}
        /\ refresh \in {owner, NoRefresh}

\* A change is carried out as the user who was shown when it was submitted, unless somebody
\* signed in or out after it, or it was submitted in a session begun while a refresh was under
\* way, or while the provider waited for GET /auth/me: a late answer to that shows the former
\* user again, beside the new one's tokens, until the page is loaded anew.
ServedAsAsker ==
    \A c \in Calls :
        \A n \in DOMAIN served[c] : served[c][n] = asker[c] \/ crossed[c]

\* A submitted call is reported to the user, done or failed.
Settles ==
    \A c \in Calls : pc[c] = "sent" ~> pc[c] \in {"done", "failed"}

============================================================================
