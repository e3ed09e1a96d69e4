------------------------ MODULE ClientSessionProofs ------------------------
(***************************************************************************)
(* Proofs about ClientSession, for any users, any number of calls and any  *)
(* number of questions who the user is.                                    *)
(***************************************************************************)
EXTENDS ClientSession, TLAPS

----------------------------------------------------------------------------
(* The invariant *)

\* The variables that are no requests' are typed.
SessionTyped ==
    /\ storage \in [user : Users, live : BOOLEAN] \cup {NoTokens}
    /\ refresh \in Users \cup {NoRefresh}
    /\ path \in {"login", "app"}
    /\ shown \in Users \cup {NoUser} /\ login \in Users \cup {NoUser}
    /\ enabled \in BOOLEAN /\ cached \in BOOLEAN /\ asking \in Asks \cup {NoAsk}
    /\ owner \in Users \cup {NoUser} /\ overtaken \in BOOLEAN /\ outdated \in BOOLEAN

\* The variables of the requests are typed, and a good access token is somebody's.
RequestsTyped ==
    /\ pc \in [Requests -> {"idle", "sent", "waiting", "done", "failed"}]
    /\ bearer \in [Requests -> [user : Users \cup {NoUser}, live : BOOLEAN]]
    /\ retried \in [Requests -> BOOLEAN]
    /\ server \in [Requests -> {"none", "request", "ok", "refused", "401"}]
    /\ \A r \in Requests : bearer[r].live => bearer[r].user \in Users

HistoryTyped ==
    /\ crossed \in [Calls -> BOOLEAN]
    /\ asker \in [Calls -> Users \cup {NoUser}]
    /\ served \in [Calls -> Seq(Users)]

\* While no refresh has been overtaken, the page shows the user who signed in last, if any,
\* and the answer it waits for is about that user, unless a late answer brings another back.
ShownIsOwner ==
    ~overtaken /\ ~outdated /\ owner # NoUser =>
        /\ shown \in {owner, NoUser}
        /\ asking # NoAsk => bearer[asking].user \in {owner, NoUser}

\* A call that was not submitted, or waits for a refresh, has not been carried out
\* nor is it on its way; one that was carried out is not sent again.
Once(c) ==
    /\ pc[c] \in {"idle", "waiting"} => served[c] = <<>> /\ server[c] = "none"
    /\ served[c] # <<>> => Len(served[c]) = 1 /\ server[c] \notin {"request", "401"}

\* A call that has not met a change of session belongs to the one there is.
OwnSession(c) ==
    pc[c] # "idle" /\ ~crossed[c] =>
        /\ ~overtaken /\ ~outdated
        /\ owner # NoUser => asker[c] = owner
        /\ bearer[c].user \in {owner, NoUser}

\* The inductive invariant.
Inv ==
    /\ SessionTyped /\ RequestsTyped /\ HistoryTyped
    /\ SessionIsLastSignIn /\ ShownIsOwner
    /\ \A c \in Calls : Once(c) /\ OwnSession(c)
    /\ ServedAsAsker

----------------------------------------------------------------------------
(* Tokens *)

\* The tokens in the storage, whose they are, and what becomes of them.
LEMMA TokenFacts ==
    /\ NoTokens.user = NoUser /\ NoTokens.live = FALSE
    /\ \A u \in Users : Tokens(u) \in [user : Users, live : BOOLEAN] /\ Tokens(u).user = u
    /\ \A t \in [user : Users \cup {NoUser}, live : BOOLEAN] :
           Old(t) \in [user : Users \cup {NoUser}, live : BOOLEAN]
    /\ \A t : Old(t).user = t.user /\ Old(t).live = FALSE
    /\ Old(NoTokens) = NoTokens
    /\ \A t \in [user : Users, live : BOOLEAN] : Old(t) \in [user : Users, live : BOOLEAN]
  BY DEF NoTokens, Tokens, Old

\* What is in the storage is nothing, or some user's tokens.
LEMMA StorageFacts ==
    ASSUME SessionTyped
    PROVE  /\ storage \in [user : Users \cup {NoUser}, live : BOOLEAN]
           /\ storage.user \in Users \cup {NoUser}
           /\ storage.live \in BOOLEAN
           /\ storage # NoTokens => storage.user \in Users
           /\ storage.live => storage.user \in Users
<1>1. CASE storage = NoTokens
  BY <1>1, TokenFacts DEF NoTokens
<1>2. CASE storage \in [user : Users, live : BOOLEAN]
  BY <1>2
<1> QED
  BY <1>1, <1>2 DEF SessionTyped

\* An answer or a request, appended to no others, is the only one.
LEMMA FirstServed ==
    ASSUME NEW s, s = <<>>, NEW u \in Users
    PROVE  /\ Append(s, u) \in Seq(Users) /\ Append(s, u) # <<>>
           /\ Len(Append(s, u)) = 1
           /\ \A n \in DOMAIN Append(s, u) : Append(s, u)[n] = u
  OBVIOUS

----------------------------------------------------------------------------
(* Frames *)

\* What is said of a call holds on while nothing happens to it and its session goes on.
LEMMA CallFrame ==
    ASSUME NEW c \in Calls, Once(c), OwnSession(c),
           pc'[c] = pc[c], server'[c] = server[c], bearer'[c].user = bearer[c].user,
           UNCHANGED <<history, owner, overtaken>>, outdated' => outdated
    PROVE  Once(c)' /\ OwnSession(c)'
  BY DEF Once, OwnSession, history

\* What the server has done so far.
LEMMA HistoryFrame ==
    ASSUME Inv, UNCHANGED history
    PROVE  HistoryTyped' /\ ServedAsAsker'
  BY DEF Inv, HistoryTyped, ServedAsAsker, history

\* Steps that leave the calls alone: of what is said, only what the provider shows and
\* the types may be disturbed.
LEMMA ProviderFrame ==
    ASSUME Inv, SessionTyped', RequestsTyped', ShownIsOwner',
           \A c \in Calls : pc'[c] = pc[c] /\ server'[c] = server[c] /\ bearer'[c] = bearer[c],
           UNCHANGED <<storage, refresh, owner, overtaken, outdated, history>>
    PROVE  Inv'
<1>1. SessionIsLastSignIn'
  BY DEF Inv, SessionIsLastSignIn
<1>2. \A c \in Calls : Once(c)' /\ OwnSession(c)'
  BY CallFrame DEF Inv
<1> QED
  BY <1>1, <1>2, HistoryFrame DEF Inv

\* A request takes the tokens in the storage.
LEMMA SendFacts ==
    ASSUME SessionTyped, RequestsTyped, NEW r \in Requests, Send(r)
    PROVE  /\ RequestsTyped'
           /\ pc'[r] = "sent" /\ server'[r] = "request" /\ bearer'[r] = storage
           /\ \A q \in Requests \ {r} :
                  pc'[q] = pc[q] /\ server'[q] = server[q] /\ bearer'[q] = bearer[q]
<1>1. storage \in [user : Users \cup {NoUser}, live : BOOLEAN]
      /\ (storage.live => storage.user \in Users)
  BY StorageFacts
<1> QED
  BY <1>1 DEF Send, RequestsTyped

\* The slot of a question that is settled.
LEMMA ForgetFacts ==
    ASSUME RequestsTyped, NEW r \in Requests, Forget(r)
    PROVE  /\ RequestsTyped'
           /\ \A q \in Requests \ {r} :
                  pc'[q] = pc[q] /\ server'[q] = server[q] /\ bearer'[q] = bearer[q]
<1>1. NoTokens \in [user : Users \cup {NoUser}, live : BOOLEAN] /\ ~NoTokens.live
  BY DEF NoTokens
<1> QED
  BY <1>1 DEF Forget, RequestsTyped

\* The page asks who the user is, with the tokens in the storage.
LEMMA AskFacts ==
    ASSUME Inv, Ask
    PROVE  /\ RequestsTyped' /\ asking' \in Asks /\ bearer'[asking'] = storage
           /\ \A c \in Calls : pc'[c] = pc[c] /\ server'[c] = server[c] /\ bearer'[c] = bearer[c]
<1>1. PICK m \in Asks : Send(m) /\ asking' = m
  BY DEF Ask
<1>2. m \in Requests /\ \A c \in Calls : c \in Requests \ {m}
  BY RequestsAssumption DEF Requests
<1> QED
  BY <1>1, <1>2, SendFacts DEF Inv

----------------------------------------------------------------------------
(* The provider *)

\* A question about the stored tokens is about the user who signed in last.
LEMMA AskIsOwner ==
    ASSUME Inv, Ask, shown' \in {shown, NoUser}, UNCHANGED <<owner, overtaken, outdated>>
    PROVE  ShownIsOwner'
  BY AskFacts DEF Inv, ShownIsOwner, SessionIsLastSignIn

\* The provider renders.
LEMMA RenderPreserves ==
    ASSUME Inv, Render, login' \in Users \cup {NoUser},
           UNCHANGED <<storage, refresh, owner, overtaken, outdated, history>>
    PROVE  Inv'
<1>1. /\ enabled' \in BOOLEAN /\ cached' \in BOOLEAN /\ shown' \in {shown, NoUser}
      /\ path' \in {path, "app", "login"}
      /\ Ask \/ UNCHANGED <<asking, requests>>
  BY DEF Render, Place
<1>2. CASE Ask
  <2>1. SessionTyped'
    BY <1>1, <1>2, AskFacts DEF Inv, SessionTyped
  <2> QED
    BY <1>1, <1>2, <2>1, AskFacts, AskIsOwner, ProviderFrame
<1>3. CASE UNCHANGED <<asking, requests>>
  <2>1. SessionTyped' /\ RequestsTyped' /\ ShownIsOwner'
    BY <1>1, <1>3 DEF Inv, SessionTyped, RequestsTyped, ShownIsOwner, requests
  <2> QED
    BY <1>3, <2>1, ProviderFrame DEF requests
<1> QED
  BY <1>1, <1>2, <1>3

\* The network is back.
LEMMA ReconnectPreserves ==
    ASSUME Inv, Reconnect
    PROVE  Inv'
<1>1. /\ Ask /\ enabled' \in BOOLEAN
      /\ UNCHANGED <<storage, refresh, path, shown, cached, login, owner, overtaken, outdated, history>>
  BY DEF Reconnect, Inv, SessionTyped
<1>2. SessionTyped'
  BY <1>1, AskFacts DEF Inv, SessionTyped
<1> QED
  BY <1>1, <1>2, AskFacts, AskIsOwner, ProviderFrame

\* A question is settled: whom the page shows now.
LEMMA LearnPreserves ==
    ASSUME Inv, NEW m \in Asks, NEW user \in {shown, bearer[m].user}, Forget(m), Learn(m, user),
           UNCHANGED <<storage, refresh, login, owner, overtaken, outdated, history>>
    PROVE  Inv'
<1>1. m \in Requests /\ \A c \in Calls : c \in Requests \ {m}
  BY RequestsAssumption DEF Requests
<1>2. /\ RequestsTyped'
      /\ \A r \in Requests \ {m} :
             pc'[r] = pc[r] /\ server'[r] = server[r] /\ bearer'[r] = bearer[r]
  BY <1>1, ForgetFacts DEF Inv
<1>3. user \in Users \cup {NoUser}
  BY <1>1 DEF Inv, SessionTyped, RequestsTyped
<1>4. SessionTyped' /\ ShownIsOwner'
  <2>1. CASE m = asking
    <3>1. /\ asking' = NoAsk /\ shown' = user /\ UNCHANGED cached
          /\ enabled' \in BOOLEAN /\ path' \in {path, "app", "login"}
      BY <2>1 DEF Learn, Place, Inv, SessionTyped
    <3>2. SessionTyped'
      BY <1>3, <3>1 DEF Inv, SessionTyped
    <3>3. ShownIsOwner'
      BY <2>1, <3>1, RequestsAssumption DEF Inv, ShownIsOwner
    <3> QED
      BY <3>2, <3>3
  <2>2. CASE m # asking
    <3>1. UNCHANGED <<path, shown, enabled, cached, asking>>
      BY <2>2 DEF Learn, provider
    <3>2. asking # NoAsk => asking \in Requests \ {m}
      BY <2>2 DEF Inv, SessionTyped, Requests
    <3> QED
      BY <1>2, <3>1, <3>2 DEF Inv, SessionTyped, ShownIsOwner
  <2> QED
    BY <2>1, <2>2
<1> QED
  BY <1>1, <1>2, <1>4, ProviderFrame

\* The page loads: what is under way fails, and the question is asked anew.
LEMMA LoadPreserves ==
    ASSUME Inv, NEW destination \in {"login", "app"}, Load(destination),
           storage' \in {storage, NoTokens}
    PROVE  Inv'
<1>1. /\ refresh' = NoRefresh /\ login' = NoUser /\ shown' = NoUser /\ cached' = TRUE
      /\ enabled' \in BOOLEAN /\ asking' \in Asks \cup {NoAsk} /\ path' \in {"login", "app"}
      /\ outdated' = FALSE /\ UNCHANGED <<owner, overtaken, history>>
  BY DEF Load
<1>2. /\ storage' \in [user : Users, live : BOOLEAN] \cup {NoTokens}
      /\ storage' \in [user : Users \cup {NoUser}, live : BOOLEAN]
      /\ storage'.live => storage'.user \in Users
      /\ storage'.user \in {storage.user, NoUser}
  <2>1. CASE storage' = storage
    BY <2>1, StorageFacts DEF Inv, SessionTyped
  <2>2. CASE storage' = NoTokens
    BY <2>2 DEF NoTokens
  <2> QED
    BY <2>1, <2>2
<1>3. SessionTyped' /\ SessionIsLastSignIn'
  BY <1>1, <1>2 DEF Inv, SessionTyped, SessionIsLastSignIn
<1>4. NoTokens \in [user : Users \cup {NoUser}, live : BOOLEAN] /\ ~NoTokens.live
  BY DEF NoTokens
<1>5. RequestsTyped'
  <2>1. pc' \in [Requests -> {"idle", "sent", "waiting", "done", "failed"}]
    BY DEF Load, Inv, RequestsTyped
  <2>2. server' \in [Requests -> {"none", "request", "ok", "refused", "401"}]
    BY DEF Load, Inv, RequestsTyped
  <2>3. retried' \in [Requests -> BOOLEAN]
    BY DEF Load, Inv, RequestsTyped
  <2>4. bearer' \in [Requests -> [user : Users \cup {NoUser}, live : BOOLEAN]]
    BY <1>2, <1>4 DEF Load, Inv, RequestsTyped
  <2>5. \A r \in Requests : bearer'[r].live => bearer'[r].user \in Users
    BY <1>2, <1>4 DEF Load, Inv, RequestsTyped
  <2> QED
    BY <2>1, <2>2, <2>3, <2>4, <2>5 DEF RequestsTyped
<1>6. ShownIsOwner'
  <2>1. asking' # NoAsk => asking' \in Requests /\ bearer'[asking'] = storage'
    BY <1>1 DEF Load, Requests
  <2> QED
    BY <1>1, <1>2, <2>1 DEF Inv, ShownIsOwner, SessionIsLastSignIn
<1>7. ASSUME NEW c \in Calls
      PROVE  Once(c)' /\ OwnSession(c)'
  <2>1. c \in Requests /\ c \notin Asks
    BY RequestsAssumption DEF Requests
  <2>2. /\ bearer'[c] = bearer[c] /\ server'[c] = server[c]
        /\ pc'[c] = pc[c] \/ (pc'[c] = "failed" /\ pc[c] # "idle")
    BY <2>1 DEF Load
  <2> QED
    BY <1>1, <2>2 DEF Inv, Once, OwnSession, history
<1> QED
  BY <1>1, <1>3, <1>5, <1>6, <1>7, HistoryFrame DEF Inv

----------------------------------------------------------------------------
(* Signing in and out *)

\* Every call that was submitted has now met a change of session.
LEMMA CrossCalls ==
    ASSUME Inv, Cross, UNCHANGED <<requests, asker, served>>
    PROVE  /\ RequestsTyped' /\ HistoryTyped' /\ ServedAsAsker'
           /\ \A c \in Calls : Once(c)' /\ OwnSession(c)'
<1>1. /\ crossed' \in [Calls -> BOOLEAN]
      /\ \A c \in Calls : crossed'[c] = (crossed[c] \/ pc[c] # "idle")
  BY DEF Cross, Inv, HistoryTyped
<1>2. RequestsTyped' /\ HistoryTyped'
  BY <1>1 DEF Inv, RequestsTyped, HistoryTyped, requests
<1>3. \A c \in Calls : Once(c)'
  BY DEF Inv, Once, requests
<1>4. \A c \in Calls : OwnSession(c)'
  BY <1>1 DEF OwnSession, requests
<1>5. ServedAsAsker'
  BY <1>1 DEF Inv, ServedAsAsker
<1> QED
  BY <1>2, <1>3, <1>4, <1>5

\* A sign-in that begins, or fails.
LEMMA SignInPreserves ==
    ASSUME Inv, SignInFails \/ \E u \in Users : SignIn(u)
    PROVE  Inv'
<1>1. /\ Render /\ login' \in Users \cup {NoUser}
      /\ UNCHANGED <<storage, refresh, owner, overtaken, outdated, history>>
  BY DEF SignIn, SignInFails
<1> QED
  BY <1>1, RenderPreserves

\* A sign-in that succeeds.
LEMMA SignedInPreserves ==
    ASSUME Inv, SignedIn
    PROVE  Inv'
<1>1. /\ login # NoUser /\ login' = NoUser
      /\ storage' = Tokens(login) /\ shown' = login /\ path' = "app" /\ owner' = login
      /\ enabled' = TRUE /\ cached' = TRUE
      /\ overtaken' = (refresh # NoRefresh) /\ outdated' = (asking # NoAsk)
      /\ Cross /\ UNCHANGED <<refresh, asking, requests, asker, served>>
  BY DEF SignedIn, Cross
<1>2. login \in Users
  BY <1>1 DEF Inv, SessionTyped
<1>3. SessionTyped' /\ SessionIsLastSignIn' /\ ShownIsOwner'
  BY <1>1, <1>2, TokenFacts DEF Inv, SessionTyped, SessionIsLastSignIn, ShownIsOwner
<1> QED
  BY <1>1, <1>3, CrossCalls DEF Inv

\* Signing out.
LEMMA SignOutPreserves ==
    ASSUME Inv, SignOut
    PROVE  Inv'
<1>1. /\ storage' = NoTokens /\ owner' = NoUser /\ cached' = FALSE /\ asking' = NoAsk
      /\ overtaken' = (refresh # NoRefresh) /\ outdated' = FALSE
      /\ Cross /\ UNCHANGED <<refresh, path, shown, enabled, login, requests, asker, served>>
  BY DEF SignOut, Cross
<1>2. SessionTyped' /\ SessionIsLastSignIn' /\ ShownIsOwner'
  BY <1>1, TokenFacts DEF Inv, SessionTyped, SessionIsLastSignIn, ShownIsOwner
<1> QED
  BY <1>1, <1>2, CrossCalls DEF Inv

----------------------------------------------------------------------------
(* Requests *)

\* Steps of one call leave the others, and the session, alone.
LEMMA OtherCalls ==
    ASSUME Inv, NEW c \in Calls, UNCHANGED session,
           \A r \in Requests \ {c} :
               pc'[r] = pc[r] /\ bearer'[r] = bearer[r] /\ server'[r] = server[r],
           \A d \in Calls \ {c} :
               asker'[d] = asker[d] /\ served'[d] = served[d] /\ crossed'[d] = crossed[d],
           RequestsTyped', HistoryTyped', Once(c)', OwnSession(c)',
           \A n \in DOMAIN served'[c] : served'[c][n] = asker'[c] \/ crossed'[c]
    PROVE  Inv'
<1> USE DEF session, provider
<1>1. SessionTyped' /\ SessionIsLastSignIn'
  BY DEF Inv, SessionTyped, SessionIsLastSignIn
<1>2. ShownIsOwner'
  <2>1. asking # NoAsk => asking \in Requests \ {c}
    BY RequestsAssumption DEF Inv, SessionTyped, Requests
  <2> QED
    BY <2>1 DEF Inv, ShownIsOwner
<1>3. \A d \in Calls \ {c} : Once(d)' /\ OwnSession(d)'
  BY DEF Inv, Once, OwnSession, Requests
<1>4. ServedAsAsker'
  BY DEF Inv, ServedAsAsker
<1> QED
  BY <1>1, <1>2, <1>3, <1>4 DEF Inv

\* A call is submitted with the tokens in the storage.
LEMMA SubmitPreserves ==
    ASSUME Inv, NEW c \in Calls, Submit(c)
    PROVE  Inv'
<1>1. /\ shown # NoUser /\ pc[c] = "idle" /\ Send(c)
      /\ asker' = [asker EXCEPT ![c] = shown]
      /\ crossed' = [crossed EXCEPT ![c] = overtaken \/ outdated]
      /\ UNCHANGED <<served, session>>
  BY DEF Submit, Send
<1>2. SessionTyped /\ RequestsTyped /\ HistoryTyped /\ SessionIsLastSignIn /\ ShownIsOwner /\ Once(c)
  BY DEF Inv
<1>3. /\ RequestsTyped'
      /\ pc'[c] = "sent" /\ server'[c] = "request" /\ bearer'[c] = storage
      /\ \A r \in Requests \ {c} :
             pc'[r] = pc[r] /\ server'[r] = server[r] /\ bearer'[r] = bearer[r]
  BY <1>1, <1>2, SendFacts DEF Requests
<1>4. HistoryTyped'
  BY <1>1, <1>2 DEF HistoryTyped, SessionTyped
<1>5. /\ asker'[c] = shown /\ crossed'[c] = (overtaken \/ outdated) /\ served'[c] = <<>>
      /\ \A d \in Calls \ {c} :
             asker'[d] = asker[d] /\ served'[d] = served[d] /\ crossed'[d] = crossed[d]
  BY <1>1, <1>2 DEF HistoryTyped, Once
<1>6. Once(c)'
  BY <1>3, <1>5 DEF Once
<1>7. OwnSession(c)'
  BY <1>1, <1>2, <1>3, <1>5 DEF OwnSession, SessionIsLastSignIn, ShownIsOwner, session
<1> QED
  BY <1>1, <1>3, <1>4, <1>5, <1>6, <1>7, OtherCalls

\* The server answers a request without carrying a call out.
LEMMA RequestsAnswered ==
    ASSUME Inv, NEW r \in Requests, NEW answer \in {"ok", "refused", "401"},
           server[r] = "request", r \in Asks \/ answer # "ok",
           server' = [server EXCEPT ![r] = answer], served' = served,
           UNCHANGED <<pc, bearer, retried, asker, crossed, session>>
    PROVE  Inv'
<1> USE DEF session, provider
<1>1. RequestsTyped' /\ SessionTyped' /\ SessionIsLastSignIn' /\ ShownIsOwner'
  BY DEF Inv, RequestsTyped, SessionTyped, SessionIsLastSignIn, ShownIsOwner
<1>2. HistoryTyped' /\ ServedAsAsker'
  BY DEF Inv, HistoryTyped, ServedAsAsker
<1>3. ASSUME NEW c \in Calls
      PROVE  Once(c)' /\ OwnSession(c)'
  <2>1. c = r => answer # "ok" /\ pc[c] \notin {"idle", "waiting"} /\ served[c] = <<>>
    BY RequestsAssumption DEF Inv, Once
  <2>2. server'[c] \in {server[c], answer} /\ (c # r => server'[c] = server[c])
    BY DEF Inv, RequestsTyped, Requests
  <2> QED
    BY <2>1, <2>2 DEF Inv, Once, OwnSession
<1> QED
  BY <1>1, <1>2, <1>3 DEF Inv

\* The server carries a call out.
LEMMA CallServed ==
    ASSUME Inv, NEW c \in Calls, server[c] = "request", bearer[c].live,
           server' = [server EXCEPT ![c] = "ok"],
           served' = [served EXCEPT ![c] = Append(@, bearer[c].user)],
           UNCHANGED <<pc, bearer, retried, asker, crossed, session>>
    PROVE  Inv'
<1> DEFINE u == bearer[c].user
           once == Append(served[c], u)
<1>1. RequestsTyped /\ HistoryTyped /\ Once(c) /\ OwnSession(c) /\ c \in Requests
  BY DEF Inv, Requests
<1>2. pc[c] # "idle" /\ pc[c] # "waiting" /\ served[c] = <<>>
  BY <1>1 DEF Once
<1>3. u \in Users
  BY <1>1 DEF RequestsTyped
<1>4. /\ once \in Seq(Users) /\ once # <<>> /\ Len(once) = 1
      /\ \A n \in DOMAIN once : once[n] = u
  BY <1>2, <1>3, FirstServed
<1>5. /\ served' \in [Calls -> Seq(Users)] /\ served'[c] = once
      /\ \A d \in Calls \ {c} : served'[d] = served[d]
  <2> HIDE DEF u
  <2>1. served' = [served EXCEPT ![c] = once]
    BY DEF u
  <2> HIDE DEF once
  <2> QED
    BY <1>1, <1>4, <2>1 DEF HistoryTyped
<1> HIDE DEF u, once
<1>6. /\ RequestsTyped' /\ server'[c] = "ok"
      /\ \A r \in Requests \ {c} : server'[r] = server[r]
  BY <1>1 DEF RequestsTyped
<1>7. HistoryTyped'
  BY <1>1, <1>5 DEF HistoryTyped
<1>8. Once(c)'
  BY <1>2, <1>4, <1>5, <1>6 DEF Once
<1>9. OwnSession(c)'
  BY <1>1 DEF OwnSession, session
<1>10. u = asker[c] \/ crossed[c]
  BY <1>1, <1>2, <1>3, NobodyAssumption DEF OwnSession, u
<1>11. \A n \in DOMAIN served'[c] : served'[c][n] = asker'[c] \/ crossed'[c]
  BY <1>4, <1>5, <1>10
<1> QED
  BY <1>5, <1>6, <1>7, <1>8, <1>9, <1>11, OtherCalls

\* The server answers a request.
LEMMA ServePreserves ==
    ASSUME Inv, NEW r \in Requests, Serve(r)
    PROVE  Inv'
<1>1. PICK answer \in IF bearer[r].live THEN {"ok", "refused"} ELSE {"401"} :
          /\ server[r] = "request" /\ server' = [server EXCEPT ![r] = answer]
          /\ served' = IF r \in Calls /\ answer = "ok"
                       THEN [served EXCEPT ![r] = Append(@, bearer[r].user)] ELSE served
          /\ UNCHANGED <<pc, bearer, retried, asker, crossed, session>>
  BY DEF Serve
<1>2. CASE r \in Calls /\ answer = "ok"
  BY <1>1, <1>2, CallServed
<1>3. CASE ~(r \in Calls /\ answer = "ok")
  <2>1. answer \in {"ok", "refused", "401"} /\ (r \in Asks \/ answer # "ok")
    BY <1>1, <1>3 DEF Requests
  <2> QED
    BY <1>1, <1>3, <2>1, RequestsAnswered
<1> QED
  BY <1>2, <1>3

\* A call is reported done or failed.
LEMMA SettlePreserves ==
    ASSUME Inv, NEW c \in Calls, NEW stage \in {"done", "failed"},
           NEW answer \in {server[c], "none"}, pc[c] = "sent", Settle(c, stage, answer),
           UNCHANGED <<storage, refresh, login, owner, overtaken, outdated, history>>
    PROVE  Inv'
<1>1. /\ pc' = [pc EXCEPT ![c] = stage] /\ server' = [server EXCEPT ![c] = answer]
      /\ UNCHANGED <<bearer, retried, session, history>>
  BY DEF Settle, session
<1>2. RequestsTyped /\ Once(c) /\ OwnSession(c) /\ c \in Requests
  BY DEF Inv, Requests
<1>3. /\ RequestsTyped' /\ pc'[c] = stage /\ server'[c] = answer
      /\ \A r \in Requests \ {c} : pc'[r] = pc[r] /\ server'[r] = server[r]
  BY <1>1, <1>2 DEF RequestsTyped
<1>4. Once(c)' /\ OwnSession(c)'
  BY <1>1, <1>2, <1>3 DEF Once, OwnSession, session, history
<1>5. HistoryTyped' /\ ServedAsAsker'
  BY <1>1, HistoryFrame
<1>6. \A n \in DOMAIN served'[c] : served'[c][n] = asker'[c] \/ crossed'[c]
  BY <1>5 DEF ServedAsAsker
<1> QED
  BY <1>1, <1>3, <1>4, <1>5, <1>6, OtherCalls DEF history

\* An answer that settles a request, one that does not come in time, and a 401 that
\* nothing can be done about.
LEMMA HandledPreserves ==
    ASSUME Inv, NEW r \in Requests, Answered(r) \/ GiveUp(r) \/ Reject(r)
    PROVE  Inv'
<1>1. /\ pc[r] = "sent"
      /\ UNCHANGED <<storage, refresh, login, owner, overtaken, outdated, history>>
      /\ \/ \E answer \in {server[r], "none"} : Fail(r, answer)
         \/ r \in Calls /\ Settle(r, "done", "none")
         \/ r \in Asks /\ Forget(r) /\ Learn(r, bearer[r].user)
  <2>1. CASE Answered(r)
    BY <2>1 DEF Answered, Requests
  <2>2. CASE GiveUp(r) \/ Reject(r)
    BY <2>2 DEF GiveUp, Reject
  <2> QED
    BY <2>1, <2>2
<1>2. CASE r \in Calls
  <2>1. \E stage \in {"done", "failed"}, answer \in {server[r], "none"} : Settle(r, stage, answer)
    BY <1>1, <1>2, RequestsAssumption DEF Fail
  <2> QED
    BY <1>1, <1>2, <2>1, SettlePreserves
<1>3. CASE r \in Asks
  <2>1. Forget(r) /\ \E user \in {shown, bearer[r].user} : Learn(r, user)
    BY <1>1, <1>3, RequestsAssumption DEF Fail
  <2> QED
    BY <1>1, <1>3, <2>1, LearnPreserves
<1> QED
  BY <1>2, <1>3 DEF Requests

\* A request answered 401 waits for the refresh under way, or starts one.
LEMMA AwaitRefreshPreserves ==
    ASSUME Inv, NEW r \in Requests, AwaitRefresh(r)
    PROVE  Inv'
<1>1. /\ pc[r] = "sent" /\ server[r] = "401" /\ storage # NoTokens
      /\ pc' = [pc EXCEPT ![r] = "waiting"] /\ server' = [server EXCEPT ![r] = "none"]
      /\ retried' = [retried EXCEPT ![r] = TRUE]
      /\ refresh' = IF refresh = NoRefresh THEN storage.user ELSE refresh
      /\ UNCHANGED <<bearer, storage, path, shown, enabled, cached, asking, login,
                     owner, overtaken, outdated, history>>
  BY DEF AwaitRefresh, unrefreshed, provider
<1>2. SessionTyped /\ RequestsTyped /\ SessionIsLastSignIn /\ ShownIsOwner
  BY DEF Inv
<1>3. storage.user \in Users /\ storage.user # NoUser
  BY <1>1, <1>2, StorageFacts, NobodyAssumption
<1>4. SessionTyped' /\ SessionIsLastSignIn'
  BY <1>1, <1>2, <1>3 DEF SessionTyped, SessionIsLastSignIn
<1>5. RequestsTyped' /\ ShownIsOwner'
  BY <1>1, <1>2 DEF RequestsTyped, ShownIsOwner
<1>6. ASSUME NEW c \in Calls
      PROVE  Once(c)' /\ OwnSession(c)'
  <2>1. Once(c) /\ OwnSession(c) /\ c \in Requests
    BY DEF Inv, Requests
  <2>2. CASE c = r
    <3>1. pc'[c] = "waiting" /\ server'[c] = "none" /\ served'[c] = <<>>
      BY <1>1, <1>2, <2>1, <2>2 DEF RequestsTyped, Once, history
    <3> QED
      BY <1>1, <2>1, <2>2, <3>1 DEF Once, OwnSession, history
  <2>3. CASE c # r
    <3>1. pc'[c] = pc[c] /\ server'[c] = server[c]
      BY <1>1, <1>2, <2>1, <2>3 DEF RequestsTyped
    <3> QED
      BY <1>1, <2>1, <3>1, CallFrame
  <2> QED
    BY <2>2, <2>3
<1> QED
  BY <1>1, <1>4, <1>5, <1>6, HistoryFrame DEF Inv

\* The refresh succeeds: its tokens are stored and all who waited are sent again.
LEMMA RefreshGrantedPreserves ==
    ASSUME Inv, RefreshGranted
    PROVE  Inv'
<1>1. /\ refresh # NoRefresh /\ refresh' = NoRefresh /\ storage' = Tokens(refresh)
      /\ pc' = [r \in Requests |-> IF r \in Waiting THEN "sent" ELSE pc[r]]
      /\ server' = [r \in Requests |-> IF r \in Waiting THEN "request" ELSE server[r]]
      /\ bearer' = [r \in Requests |-> IF r \in Waiting THEN Tokens(refresh) ELSE bearer[r]]
      /\ UNCHANGED <<path, shown, enabled, cached, asking, login, retried,
                     owner, overtaken, outdated, history>>
  BY DEF RefreshGranted, provider
<1>2. SessionTyped /\ RequestsTyped /\ SessionIsLastSignIn /\ ShownIsOwner
  BY DEF Inv
<1>3. refresh \in Users /\ Tokens(refresh) \in [user : Users, live : BOOLEAN]
      /\ Tokens(refresh).user = refresh /\ (~overtaken => refresh = owner)
  BY <1>1, <1>2, TokenFacts DEF SessionTyped, SessionIsLastSignIn
<1>4. SessionTyped' /\ SessionIsLastSignIn'
  BY <1>1, <1>2, <1>3 DEF SessionTyped, SessionIsLastSignIn
<1>5. RequestsTyped'
  <2>1. Tokens(refresh) \in [user : Users \cup {NoUser}, live : BOOLEAN]
    BY <1>3
  <2>2. /\ pc' \in [Requests -> {"idle", "sent", "waiting", "done", "failed"}]
        /\ server' \in [Requests -> {"none", "request", "ok", "refused", "401"}]
        /\ retried' \in [Requests -> BOOLEAN]
    BY <1>1, <1>2 DEF RequestsTyped
  <2>3. bearer' \in [Requests -> [user : Users \cup {NoUser}, live : BOOLEAN]]
    BY <1>1, <1>2, <2>1 DEF RequestsTyped
  <2>4. \A r \in Requests : bearer'[r].live => bearer'[r].user \in Users
    BY <1>1, <1>2, <1>3 DEF RequestsTyped
  <2> QED
    BY <2>2, <2>3, <2>4 DEF RequestsTyped
<1>6. ShownIsOwner'
  <2>1. asking # NoAsk => bearer'[asking].user \in {bearer[asking].user, refresh}
    BY <1>1, <1>2, <1>3 DEF SessionTyped, Requests
  <2> QED
    BY <1>1, <1>2, <1>3, <2>1 DEF ShownIsOwner
<1>7. ASSUME NEW c \in Calls
      PROVE  Once(c)' /\ OwnSession(c)'
  <2>1. Once(c) /\ OwnSession(c) /\ c \in Requests
    BY DEF Inv, Requests
  <2>2. CASE c \in Waiting
    <3>1. /\ pc[c] = "waiting" /\ pc'[c] = "sent" /\ served'[c] = <<>>
          /\ bearer'[c].user = refresh
      BY <1>1, <1>3, <2>1, <2>2 DEF Waiting, Once, history
    <3>2. Once(c)'
      BY <3>1 DEF Once
    <3>3. OwnSession(c)'
      BY <1>1, <1>3, <2>1, <3>1 DEF OwnSession, history
    <3> QED
      BY <3>2, <3>3
  <2>3. CASE c \notin Waiting
    BY <1>1, <2>1, <2>3, CallFrame
  <2> QED
    BY <2>2, <2>3
<1> QED
  BY <1>1, <1>4, <1>5, <1>6, <1>7, HistoryFrame DEF Inv

\* The refresh fails: the storage is cleared and those who waited fail.
LEMMA RefreshFailsPreserves ==
    ASSUME Inv, RefreshFails
    PROVE  Inv'
<1> DEFINE over == Waiting \cap Asks
<1>1. storage' = NoTokens
  BY DEF RefreshFails
<1>2. CASE Load("login")
  BY <1>1, <1>2, LoadPreserves
<1>3. CASE /\ refresh' = NoRefresh
           /\ pc' = [r \in Requests |->
                        IF r \in over THEN "idle" ELSE IF r \in Waiting THEN "failed" ELSE pc[r]]
           /\ bearer' = [r \in Requests |-> IF r \in over THEN NoTokens ELSE bearer[r]]
           /\ retried' = [r \in Requests |-> r \notin over /\ retried[r]]
           /\ asking' = IF asking \in over THEN NoAsk ELSE asking
           /\ enabled' = (enabled /\ asking \notin over)
           /\ UNCHANGED <<path, shown, cached, login, server, owner, overtaken, outdated, history>>
  <2>1. SessionTyped' /\ SessionIsLastSignIn'
    BY <1>1, <1>3, TokenFacts DEF Inv, SessionTyped, SessionIsLastSignIn
  <2>2. NoTokens \in [user : Users \cup {NoUser}, live : BOOLEAN] /\ ~NoTokens.live
    BY DEF NoTokens
  <2>3. RequestsTyped'
    <3>1. /\ pc' \in [Requests -> {"idle", "sent", "waiting", "done", "failed"}]
          /\ server' \in [Requests -> {"none", "request", "ok", "refused", "401"}]
          /\ retried' \in [Requests -> BOOLEAN]
      BY <1>3 DEF Inv, RequestsTyped
    <3>2. bearer' \in [Requests -> [user : Users \cup {NoUser}, live : BOOLEAN]]
      BY <1>3, <2>2 DEF Inv, RequestsTyped
    <3>3. \A r \in Requests : bearer'[r].live => bearer'[r].user \in Users
      BY <1>3, <2>2 DEF Inv, RequestsTyped
    <3> QED
      BY <3>1, <3>2, <3>3 DEF RequestsTyped
  <2>4. ShownIsOwner'
    <3>1. asking' # NoAsk => asking' = asking /\ bearer'[asking] = bearer[asking]
      BY <1>3 DEF Inv, SessionTyped, Requests
    <3> QED
      BY <1>3, <3>1 DEF Inv, ShownIsOwner
  <2>5. ASSUME NEW c \in Calls
        PROVE  Once(c)' /\ OwnSession(c)'
    <3>1. Once(c) /\ OwnSession(c) /\ c \in Requests /\ c \notin over
      BY RequestsAssumption DEF Inv, Requests
    <3>2. /\ bearer'[c] = bearer[c]
          /\ pc'[c] = pc[c] \/ (pc'[c] = "failed" /\ pc[c] = "waiting")
      BY <1>3, <3>1 DEF Waiting
    <3> QED
      BY <1>3, <3>1, <3>2 DEF Once, OwnSession, history
  <2> QED
    BY <1>3, <2>1, <2>3, <2>4, <2>5, HistoryFrame DEF Inv
<1> QED
  BY <1>2, <1>3 DEF RefreshFails

\* Access tokens grow old, wherever they are.
LEMMA ExpirePreserves ==
    ASSUME Inv, Expire
    PROVE  Inv'
<1>1. /\ storage' = Old(storage) \/ storage' = storage
      /\ bearer' = [r \in Requests |->
                      IF storage'.live /\ bearer[r].user = storage.user THEN bearer[r]
                      ELSE Old(bearer[r])]
      /\ UNCHANGED <<refresh, path, shown, enabled, cached, asking, login,
                     owner, overtaken, outdated, pc, retried, server, history>>
  BY DEF Expire, provider
<1>2. SessionTyped /\ RequestsTyped /\ SessionIsLastSignIn /\ ShownIsOwner
  BY DEF Inv
<1>3. storage' \in [user : Users, live : BOOLEAN] \cup {NoTokens} /\ storage'.user = storage.user
  BY <1>1, <1>2, TokenFacts DEF SessionTyped
<1>4. SessionTyped' /\ SessionIsLastSignIn'
  BY <1>1, <1>2, <1>3 DEF SessionTyped, SessionIsLastSignIn
<1>5. \A r \in Requests : /\ bearer'[r] \in [user : Users \cup {NoUser}, live : BOOLEAN]
                          /\ bearer'[r].user = bearer[r].user
                          /\ bearer'[r].live => bearer[r].live
  BY <1>1, <1>2, TokenFacts DEF RequestsTyped
<1>6. RequestsTyped' /\ ShownIsOwner'
  BY <1>1, <1>2, <1>5 DEF RequestsTyped, ShownIsOwner, SessionTyped, Requests
<1>7. \A c \in Calls : Once(c)' /\ OwnSession(c)'
  BY <1>1, <1>5, CallFrame DEF Inv, Requests
<1> QED
  BY <1>1, <1>4, <1>6, <1>7, HistoryFrame DEF Inv

----------------------------------------------------------------------------
(* The invariant holds *)

\* A page on which nobody has signed in and nothing was submitted.
LEMMA InitInv == Init => Inv
<1> SUFFICES ASSUME Init
             PROVE  Inv
  OBVIOUS
<1> USE DEF Init
<1>1. NoTokens \in [user : Users \cup {NoUser}, live : BOOLEAN]
  BY DEF NoTokens
<1>2. SessionTyped /\ SessionIsLastSignIn /\ ShownIsOwner
  BY TokenFacts DEF SessionTyped, SessionIsLastSignIn, ShownIsOwner
<1>3. RequestsTyped
  BY <1>1, TokenFacts DEF RequestsTyped
<1>4. HistoryTyped
  <2>1. <<>> \in Seq(Users)
    OBVIOUS
  <2> QED
    BY <2>1 DEF HistoryTyped
<1>5. \A c \in Calls : Once(c) /\ OwnSession(c)
  BY DEF Once, OwnSession, Requests
<1>6. ServedAsAsker
  BY DEF ServedAsAsker
<1> QED
  BY <1>2, <1>3, <1>4, <1>5, <1>6 DEF Inv

\* Every event keeps the invariant.
LEMMA NextInv == Inv /\ [Next]_vars => Inv'
<1> SUFFICES ASSUME Inv, [Next]_vars
             PROVE  Inv'
  OBVIOUS
<1>1. ASSUME NEW r \in Requests, Serve(r) \/ Handled(r)
      PROVE  Inv'
  BY <1>1, ServePreserves, HandledPreserves, AwaitRefreshPreserves DEF Handled
<1>2. ASSUME Reload
      PROVE  Inv'
  BY <1>2, LoadPreserves DEF Reload
<1>3. ASSUME \/ SignInFails \/ SignedIn \/ SignOut \/ Reconnect
             \/ RefreshAnswered \/ Expire
             \/ \E u \in Users : SignIn(u)
             \/ \E c \in Calls : Submit(c)
      PROVE  Inv'
  BY <1>3, SignInPreserves, SignedInPreserves, SignOutPreserves, ReconnectPreserves,
     RefreshGrantedPreserves, RefreshFailsPreserves, ExpirePreserves, SubmitPreserves
     DEF RefreshAnswered
<1>4. CASE UNCHANGED vars
  <2>1. /\ UNCHANGED <<storage, refresh, path, shown, enabled, cached, asking, login>>
        /\ UNCHANGED <<owner, overtaken, outdated, requests, history>>
    BY <1>4 DEF vars, session, provider
  <2>2. SessionTyped' /\ RequestsTyped' /\ ShownIsOwner'
    BY <2>1 DEF Inv, SessionTyped, RequestsTyped, ShownIsOwner, requests
  <2> QED
    BY <2>1, <2>2, ProviderFrame DEF requests
<1> QED
  BY <1>1, <1>2, <1>3, <1>4 DEF Next

\* Every state the page reaches satisfies the inductive invariant.
THEOREM Invariance == Spec => []Inv
  BY InitInv, NextInv, PTL DEF Spec

----------------------------------------------------------------------------
(* What it says *)

(***************************************************************************)
(* Variables are typed; in particular a refresh is only asked for with a   *)
(* token, and a call is only ever carried out as a user.                   *)
(***************************************************************************)
THEOREM TypeCorrect == Spec => []TypeOK
<1>1. Inv => TypeOK
  BY DEF Inv, SessionTyped, RequestsTyped, HistoryTyped, TypeOK
<1> QED
  BY <1>1, Invariance, PTL

(***************************************************************************)
(* What is submitted once is carried out at most once, although the client *)
(* sends it again after a refresh.                                         *)
(***************************************************************************)
THEOREM CarriedOutOnce == Spec => []NeverTwice
<1>1. Inv => NeverTwice
  <2> SUFFICES ASSUME Inv, NEW c \in Calls
               PROVE  /\ Len(served[c]) <= 1
                      /\ Len(served[c]) = 1 =>
                             pc[c] # "waiting" /\ server[c] # "request" /\ server[c] # "401"
    BY DEF NeverTwice
  <2>1. CASE served[c] = <<>>
    BY <2>1
  <2>2. CASE served[c] # <<>>
    <3>1. Once(c)
      BY DEF Inv
    <3>2. Len(served[c]) = 1 /\ server[c] \notin {"request", "401"} /\ pc[c] # "waiting"
      BY <2>2, <3>1 DEF Once
    <3> QED
      BY <3>2
  <2> QED
    BY <2>1, <2>2
<1> QED
  BY <1>1, Invariance, PTL

(***************************************************************************)
(* The stored tokens and a refresh under way are those of the user who     *)
(* signed in last, unless a sign-in or sign-out has overtaken a refresh.   *)
(***************************************************************************)
THEOREM LastSignInHolds == Spec => []SessionIsLastSignIn
<1>1. Inv => SessionIsLastSignIn
  BY DEF Inv
<1> QED
  BY <1>1, Invariance, PTL

(***************************************************************************)
(* A change is carried out as the user who was shown when it was           *)
(* submitted, unless somebody signed in or out after it, or it was         *)
(* submitted in a session begun while a refresh was under way or while the *)
(* provider waited for the answer to GET /auth/me.                         *)
(***************************************************************************)
THEOREM ServedAsShown == Spec => []ServedAsAsker
<1>1. Inv => ServedAsAsker
  BY DEF Inv
<1> QED
  BY <1>1, Invariance, PTL

=============================================================================
