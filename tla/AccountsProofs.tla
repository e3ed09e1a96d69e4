--------------------------- MODULE AccountsProofs ---------------------------
(***************************************************************************)
(* Proofs about Accounts, for any accounts and tokens to begin with, any   *)
(* requests and any number of sessions.                                    *)
(***************************************************************************)
EXTENDS Accounts, TLAPS

----------------------------------------------------------------------------
(* The invariant *)

\* The account a request acts as: its token names it.
ActorOf(f) == IF f.op \in {"update", "act", "refresh"} THEN f.token.sub ELSE NoId

\* The stages of each kind of request.
Stages(op) ==
    CASE op = "update" -> {"authorize", "find", "write", "commit"}
      [] op = "act" -> {"authorize", "commit"}
      [] op = "register" -> {"claim", "commit"}
      [] op = "bootstrap" -> {"find", "claim", "commit"}
      [] op \in {"login", "refresh"} -> {"find", "issue"}

\* The variables are functions of accounts and of sessions.
Typed ==
    /\ account \in [Ids -> UserRow \cup {Unborn}]
    /\ writer \in [Ids -> Workers \cup {Nobody}]
    /\ tokens \subseteq TokenClaims
    /\ DOMAIN pc = Workers /\ DOMAIN form = Workers /\ DOMAIN actor = Workers
    /\ DOMAIN target = Workers /\ DOMAIN seen = Workers /\ DOMAIN lived = Workers

\* The unique index of the table.
EmailsDiffer ==
    \A u, v \in Ids :
        u # v /\ Exists(u) /\ Exists(v) => account[u].email # account[v].email

\* A session serves a request, as the account that its token names.
Serving(w) ==
    IF pc[w] = "idle"
    THEN form[w] = NoForm /\ actor[w] = NoId /\ DOMAIN seen[w] = {}
    ELSE /\ form[w] \in Forms
         /\ pc[w] \in Stages(form[w].op)
         /\ actor[w] = ActorOf(form[w])

\* What a session has read are rows, and the actor's row, as read and as it is now,
\* is one of those it had while the request ran.
Reading(w) ==
    /\ DOMAIN seen[w] \subseteq Ids
    /\ \A u \in DOMAIN seen[w] :
          /\ seen[w][u] \in UserRow
          /\ Exists(u)
          /\ u = actor[w] => seen[w][u] \in lived[w]
    /\ actor[w] # NoId => account[actor[w]] \in lived[w]
    /\ pc[w] = "authorize" \/ (pc[w] = "find" /\ form[w].op # "update") => DOMAIN seen[w] = {}

\* A request past its check was let through by what its session has read.
Authorized(w) ==
    /\ pc[w] \in {"find", "write", "commit"} /\ form[w].op = "update" =>
           actor[w] \in DOMAIN seen[w] /\ IsAdmin(seen[w][actor[w]])
    /\ pc[w] = "commit" /\ form[w].op = "act" =>
           /\ actor[w] \in DOMAIN seen[w]
           /\ seen[w][actor[w]].is_active /\ seen[w][actor[w]].role \in form[w].roles
    /\ pc[w] = "issue" => target[w] \in DOMAIN seen[w]
    /\ pc[w] = "issue" /\ form[w].op = "refresh" =>
           target[w] = actor[w] /\ seen[w][actor[w]].is_active

\* A change past its checks does not take away the actor's own rights and, once
\* written, sets no column to null.
Updating(w) ==
    /\ pc[w] \in {"write", "commit"} /\ form[w].op = "update" =>
           /\ target[w] = form[w].target /\ target[w] \in DOMAIN seen[w]
           /\ ~ChangesSelf(w, seen[w])
    /\ pc[w] = "commit" /\ form[w].op = "update" =>
           \A x \in Written(w) : form[w].changes[x] # Null

\* An insert that is not yet committed.
Pending(w) == pc[w] = "commit" /\ form[w].op \in {"register", "bootstrap"}

\* It has an id of its own, and its email is in no committed row.
Inserting(w) ==
    Pending(w) =>
        /\ target[w] \in Ids
        /\ ~Exists(target[w]) /\ writer[target[w]] = w
        /\ \A u \in Ids : Exists(u) => account[u].email # EmailOf(form[w])

Session(w) == Serving(w) /\ Reading(w) /\ Authorized(w) /\ Updating(w) /\ Inserting(w)

\* No two inserts have one email: the second waits for the first.
ClaimsDiffer ==
    \A v, w \in Workers :
        v # w /\ Pending(v) /\ Pending(w) => EmailOf(form[v]) # EmailOf(form[w])

\* The inductive invariant.
Inv == Typed /\ EmailsDiffer /\ ClaimsDiffer /\ \A w \in Workers : Session(w)

----------------------------------------------------------------------------
(* The constants *)

\* The schemas: what a request of each kind carries.
LEMMA FormFacts ==
    ASSUME NEW f \in Forms
    PROVE  /\ f # NoForm
           /\ f.op \in {"register", "login", "refresh", "update", "act", "bootstrap"}
           /\ f.op \in {"update", "act", "refresh"} => f.token \in TokenClaims /\ f.token.sub \in Ids
           /\ f.op = "update" =>
                  /\ f.target \in Ids
                  /\ DOMAIN f.changes \subseteq {"role", "is_active"}
                  /\ "role" \in DOMAIN f.changes => f.changes.role \in UserRole \cup {Null}
                  /\ "is_active" \in DOMAIN f.changes => f.changes.is_active \in BOOLEAN \cup {Null}
           /\ f.op = "register" => f.email \in DOMAIN Lower /\ f.password \in Passwords
<1>1. f # NoForm
  BY AccountsMarksAssumption
<1>2. \/ RegisterRequest(f) \/ LoginRequest(f) \/ RefreshRequest(f)
      \/ UserUpdate(f) \/ RouteRequest(f) \/ BootstrapRequest(f)
  BY AccountsFormsAssumption
<1>3. \A t \in TokenClaims : t.sub \in Ids
  BY DEF TokenClaims
<1> QED
  BY <1>1, <1>2, <1>3 DEF RegisterRequest, LoginRequest, RefreshRequest, UserUpdate,
      RouteRequest, BootstrapRequest

\* The account a request acts as is an account or none.
LEMMA ActorFacts ==
    ASSUME NEW f \in Forms
    PROVE  /\ ActorOf(f) \in Ids \cup {NoId}
           /\ f.op \in {"update", "act", "refresh"} => ActorOf(f) = f.token.sub /\ ActorOf(f) \in Ids
           /\ f.op \notin {"update", "act", "refresh"} => ActorOf(f) = NoId
  BY FormFacts DEF ActorOf

\* A row has its columns, and is not the mark of an id without an account.
LEMMA RowFacts ==
    ASSUME NEW r \in UserRow
    PROVE  /\ r # Unborn
           /\ r.email \in Stored /\ r.password \in Passwords
           /\ r.is_active \in BOOLEAN /\ r.role \in UserRole
           /\ r = [email |-> r.email, password |-> r.password,
                   is_active |-> r.is_active, role |-> r.role]
<1>1. r # Unborn
  BY AccountsMarksAssumption
<1> QED
  BY <1>1 DEF UserRow

\* A stored email is its own stored form.
LEMMA StoredFacts == \A e \in Stored : Lower[e] = e
  BY LowerAssumption DEF Stored

\* A registration or the first administrator makes a row of the table.
LEMMA NewAccountFacts ==
    ASSUME NEW f \in Forms, f.op \in {"register", "bootstrap"}
    PROVE  /\ NewAccount(f) \in UserRow
           /\ NewAccount(f).email = EmailOf(f)
<1>1. EmailOf(f) \in Stored
  BY FormFacts, AdminAssumption DEF EmailOf, Stored
<1>2. (IF f.op = "bootstrap" THEN AdminPassword ELSE f.password) \in Passwords
  BY FormFacts, AdminAssumption
<1>3. (IF f.op = "bootstrap" THEN "ADMIN" ELSE "EMPLOYEE") \in UserRole
  BY DEF UserRole
<1>4. NewAccount(f).email = EmailOf(f)
  BY DEF NewAccount
<1>5. NewAccount(f) \in UserRow
  BY <1>1, <1>2, <1>3 DEF NewAccount, UserRow
<1> QED
  BY <1>4, <1>5

\* The stages of a request, one by one.
LEMMA StageFacts ==
    /\ Stages("update") = {"authorize", "find", "write", "commit"}
    /\ Stages("act") = {"authorize", "commit"}
    /\ Stages("register") = {"claim", "commit"}
    /\ Stages("bootstrap") = {"find", "claim", "commit"}
    /\ Stages("login") = {"find", "issue"}
    /\ Stages("refresh") = {"find", "issue"}
  BY DEF Stages

\* What a session that is not idle serves.
LEMMA Served ==
    ASSUME NEW w \in Workers, Serving(w), pc[w] # "idle"
    PROVE  /\ form[w] \in Forms
           /\ pc[w] \in Stages(form[w].op)
           /\ actor[w] = ActorOf(form[w])
           /\ pc[w] = "authorize" => form[w].op \in {"update", "act"}
           /\ pc[w] = "write" => form[w].op = "update"
           /\ pc[w] = "claim" => form[w].op \in {"register", "bootstrap"}
           /\ pc[w] = "issue" => form[w].op \in {"login", "refresh"}
           /\ pc[w] = "commit" => form[w].op \in {"update", "act", "register", "bootstrap"}
           /\ pc[w] \in {"authorize", "find", "claim", "write", "issue", "commit"}
<1>1. form[w] \in Forms /\ pc[w] \in Stages(form[w].op) /\ actor[w] = ActorOf(form[w])
  BY DEF Serving
<1>2. form[w].op \in {"register", "login", "refresh", "update", "act", "bootstrap"}
  BY <1>1, FormFacts
<1> QED
  BY <1>1, <1>2, StageFacts

----------------------------------------------------------------------------
(* Steps that leave the accounts alone *)

\* Nothing that a session knows has changed.
Undisturbed(v) ==
    /\ pc'[v] = pc[v] /\ form'[v] = form[v] /\ actor'[v] = actor[v]
    /\ target'[v] = target[v] /\ seen'[v] = seen[v] /\ lived'[v] = lived[v]
    /\ \A u \in Ids : writer[u] = v => writer'[u] = v

\* A session that nothing has changed is as it was.
LEMMA UndisturbedSession ==
    ASSUME NEW v \in Workers, Session(v), Undisturbed(v), account' = account
    PROVE  Session(v)' /\ Pending(v)' = Pending(v)
<1>1. /\ pc'[v] = pc[v] /\ form'[v] = form[v] /\ actor'[v] = actor[v]
      /\ target'[v] = target[v] /\ seen'[v] = seen[v] /\ lived'[v] = lived[v]
      /\ \A u \in Ids : writer[u] = v => writer'[u] = v
  BY DEF Undisturbed
<1>2. Serving(v)'
  BY <1>1 DEF Session, Serving
<1>3. Reading(v)'
  BY <1>1 DEF Session, Reading, Exists
<1>4. Authorized(v)'
  BY <1>1 DEF Session, Authorized
<1>5. Written(v)' = Written(v)
  BY <1>1 DEF Written
<1>6. ChangesSelf(v, seen[v])' <=> ChangesSelf(v, seen[v])
  BY <1>1 DEF ChangesSelf
<1>7. Updating(v)'
  BY <1>1, <1>5, <1>6 DEF Session, Updating
<1>8. Pending(v)' = Pending(v)
  BY <1>1 DEF Pending
<1>9. Inserting(v)'
  BY <1>1, <1>8 DEF Session, Inserting, Exists
<1> QED
  BY <1>2, <1>3, <1>4, <1>7, <1>8, <1>9 DEF Session

\* What a step of one session must show when it leaves the accounts alone.
LEMMA LocalStep ==
    ASSUME Inv, NEW w \in Workers, account' = account,
           writer' \in [Ids -> Workers \cup {Nobody}], tokens' \subseteq TokenClaims,
           DOMAIN pc' = Workers, DOMAIN form' = Workers, DOMAIN actor' = Workers,
           DOMAIN target' = Workers, DOMAIN seen' = Workers, DOMAIN lived' = Workers,
           \A v \in Workers \ {w} : Undisturbed(v),
           Session(w)',
           Pending(w)' => \A v \in Workers \ {w} :
               Pending(v) => EmailOf(form[v]) # EmailOf(form'[w])
    PROVE  Inv'
<1>1. Typed'
  BY DEF Typed, Inv
<1>2. EmailsDiffer'
  BY DEF EmailsDiffer, Inv, Exists
<1>3. \A v \in Workers \ {w} :
          Session(v)' /\ Pending(v)' = Pending(v) /\ form'[v] = form[v]
  BY UndisturbedSession DEF Inv, Undisturbed
<1>4. \A v \in Workers : Session(v)'
  BY <1>3
<1>5. ClaimsDiffer'
  BY <1>3 DEF ClaimsDiffer, Inv
<1> QED
  BY <1>1, <1>2, <1>4, <1>5 DEF Inv

\* A session that ends with the accounts as they are: an error response, an
\* aborted session, or a pair of tokens.
LEMMA ClosePreserves ==
    ASSUME Inv, NEW w \in Workers, Close(w), account' = account, tokens' \subseteq TokenClaims,
           lived' = [lived EXCEPT ![w] = {}]
    PROVE  Inv'
<1>1. Typed
  BY DEF Inv
<1>2. /\ pc' = [pc EXCEPT ![w] = "idle"] /\ form' = [form EXCEPT ![w] = NoForm]
      /\ actor' = [actor EXCEPT ![w] = NoId] /\ target' = [target EXCEPT ![w] = NoId]
      /\ seen' = [seen EXCEPT ![w] = <<>>]
      /\ writer' = [u \in Ids |-> IF writer[u] = w THEN Nobody ELSE writer[u]]
  BY DEF Close, Goto
<1>3. writer' \in [Ids -> Workers \cup {Nobody}]
  BY <1>1, <1>2 DEF Typed
<1>4. /\ DOMAIN pc' = Workers /\ DOMAIN form' = Workers /\ DOMAIN actor' = Workers
      /\ DOMAIN target' = Workers /\ DOMAIN seen' = Workers /\ DOMAIN lived' = Workers
  BY <1>1, <1>2 DEF Typed
<1>5. ASSUME NEW v \in Workers \ {w}
      PROVE  Undisturbed(v)
  <2>1. \A u \in Ids : writer[u] = v => writer'[u] = v
    BY <1>2
  <2> QED
    BY <2>1, <1>1, <1>2 DEF Undisturbed, Typed
<1>6. /\ pc'[w] = "idle" /\ form'[w] = NoForm /\ actor'[w] = NoId /\ DOMAIN seen'[w] = {}
  <2>1. DOMAIN seen'[w] = DOMAIN <<>>
    BY <1>1, <1>2 DEF Typed
  <2>2. DOMAIN <<>> = {}
    OBVIOUS
  <2> QED
    BY <2>1, <2>2, <1>1, <1>2 DEF Typed
<1>7. Session(w)' /\ ~Pending(w)'
  <2>1. Serving(w)'
    BY <1>6 DEF Serving
  <2>2. Reading(w)'
    BY <1>6 DEF Reading
  <2>3. Authorized(w)' /\ Updating(w)' /\ Pending(w)' = FALSE
    BY <1>6 DEF Authorized, Updating, Pending
  <2>4. Inserting(w)'
    BY <2>3 DEF Inserting
  <2> QED
    BY <2>1, <2>2, <2>3, <2>4 DEF Session
<1> QED
  BY <1>3, <1>4, <1>5, <1>7, LocalStep

\* An error response.
LEMMA RollbackPreserves ==
    ASSUME Inv, NEW w \in Workers, Rollback(w)
    PROVE  Inv'
  BY ClosePreserves DEF Rollback, Inv, Typed

\* The tokens of an account that a session has read.
LEMMA IssuePreserves ==
    ASSUME Inv, NEW w \in Workers, Issue(w)
    PROVE  Inv'
<1>1. pc[w] = "issue" /\ Session(w) /\ Typed
  BY DEF Issue, Inv
<1>2. target[w] \in Ids /\ seen[w][target[w]] \in UserRow
  BY <1>1 DEF Session, Authorized, Reading
<1>3. TokenPair(target[w], seen[w][target[w]]) \subseteq TokenClaims
  BY <1>2, RowFacts DEF TokenPair, TokenClaims
<1> QED
  BY <1>1, <1>3, ClosePreserves DEF Issue, Typed

\* What the identity map holds after a read of an account that exists.
LEMMA ReadFacts ==
    ASSUME Inv, NEW w \in Workers, NEW u \in Ids, Exists(u)
    PROVE  /\ DOMAIN WithRead(w, u) = DOMAIN seen[w] \cup {u}
           /\ DOMAIN WithRead(w, u) \subseteq Ids
           /\ \A x \in DOMAIN seen[w] : WithRead(w, u)[x] = seen[w][x]
           /\ u \notin DOMAIN seen[w] => WithRead(w, u)[u] = account[u]
           /\ \A x \in DOMAIN WithRead(w, u) :
                  /\ WithRead(w, u)[x] \in UserRow
                  /\ Exists(x)
                  /\ x = actor[w] => WithRead(w, u)[x] \in lived[w]
<1>1. Typed /\ Reading(w)
  BY DEF Inv, Session
<1>2. /\ DOMAIN WithRead(w, u) = DOMAIN seen[w] \cup {u}
      /\ \A x \in DOMAIN seen[w] : WithRead(w, u)[x] = seen[w][x]
      /\ u \notin DOMAIN seen[w] => WithRead(w, u)[u] = account[u]
  BY DEF WithRead
<1>3. DOMAIN WithRead(w, u) \subseteq Ids
  BY <1>1, <1>2 DEF Reading
<1>4. ASSUME NEW x \in DOMAIN WithRead(w, u)
      PROVE  /\ WithRead(w, u)[x] \in UserRow
             /\ Exists(x)
             /\ x = actor[w] => WithRead(w, u)[x] \in lived[w]
  <2>1. CASE x \in DOMAIN seen[w]
    BY <1>1, <1>2, <2>1 DEF Reading
  <2>2. CASE x = u /\ u \notin DOMAIN seen[w]
    <3>1. WithRead(w, u)[x] = account[x] /\ account[x] \in UserRow
      BY <1>1, <1>2, <2>2 DEF Exists, Typed
    <3>2. u = actor[w] => account[u] \in lived[w]
      BY <1>1, AccountsMarksAssumption DEF Reading
    <3> QED
      BY <3>1, <3>2, <2>2
  <2> QED
    BY <1>2, <2>1, <2>2
<1> QED
  BY <1>2, <1>3, <1>4

\* What a step of one session must show when it goes on to another stage of its
\* request.
LEMMA MoveStep ==
    ASSUME Inv, NEW w \in Workers, NEW stage, pc[w] # "idle",
           UNCHANGED <<account, tokens, form, actor, lived>>,
           pc' = [pc EXCEPT ![w] = stage], stage \in Stages(form[w].op), stage # "authorize",
           stage = "find" => form[w].op = "update",
           DOMAIN seen' = Workers, DOMAIN target' = Workers,
           \A v \in Workers \ {w} : seen'[v] = seen[v] /\ target'[v] = target[v],
           writer' \in [Ids -> Workers \cup {Nobody}],
           \A u \in Ids : writer[u] # Nobody => writer'[u] = writer[u],
           DOMAIN seen'[w] \subseteq Ids,
           \A u \in DOMAIN seen'[w] : /\ seen'[w][u] \in UserRow
                                      /\ Exists(u)
                                      /\ u = actor[w] => seen'[w][u] \in lived[w],
           Authorized(w)', Updating(w)', Inserting(w)',
           Pending(w)' => \A v \in Workers \ {w} :
               Pending(v) => EmailOf(form[v]) # EmailOf(form[w])
    PROVE  Inv'
<1>1. Typed /\ Session(w) /\ stage # "idle"
  <2>1. Typed /\ Session(w)
    BY DEF Inv
  <2>2. form[w] \in Forms
    BY <2>1, Served DEF Session
  <2>3. stage # "idle"
    BY <2>2, FormFacts, StageFacts
  <2> QED
    BY <2>1, <2>3
<1>2. DOMAIN pc' = Workers /\ pc'[w] = stage
  BY <1>1 DEF Typed
<1>3. ASSUME NEW v \in Workers \ {w}
      PROVE  Undisturbed(v)
  <2>1. pc'[v] = pc[v]
    BY <1>1 DEF Typed
  <2>2. \A u \in Ids : writer[u] = v => writer'[u] = v
    BY AccountsMarksAssumption
  <2> QED
    BY <2>1, <2>2 DEF Undisturbed
<1>4. Serving(w)'
  BY <1>1, <1>2 DEF Serving, Session
<1>5. Reading(w)'
  BY <1>1, <1>2 DEF Reading, Session, Exists
<1>6. Session(w)'
  BY <1>4, <1>5 DEF Session
<1> QED
  BY <1>1, <1>2, <1>3, <1>6, LocalStep DEF Typed

\* A request arrives.
LEMMA BeginPreserves ==
    ASSUME Inv, NEW w \in Workers, NEW f \in Forms, Begin(w, f)
    PROVE  Inv'
<1>1. Typed /\ Session(w) /\ pc[w] = "idle"
  BY DEF Begin, Inv
<1>2. /\ pc' = [pc EXCEPT ![w] = FirstStage(f)] /\ form' = [form EXCEPT ![w] = f]
      /\ actor' = [actor EXCEPT ![w] = ActorOf(f)]
      /\ lived' = [lived EXCEPT ![w] =
             IF f.op \in {"update", "act", "refresh"} THEN {account[f.token.sub]} ELSE {}]
      /\ UNCHANGED <<account, writer, tokens, target, seen>>
  BY DEF Begin, Goto, ActorOf
<1>3. /\ pc'[w] = FirstStage(f) /\ form'[w] = f /\ actor'[w] = ActorOf(f)
      /\ f.op \in {"update", "act", "refresh"} => lived'[w] = {account[f.token.sub]}
      /\ DOMAIN seen'[w] = {}
  BY <1>1, <1>2 DEF Typed, Session, Serving
<1>4. /\ FirstStage(f) \in Stages(f.op) /\ FirstStage(f) \in {"authorize", "claim", "find"}
      /\ f.op = "update" => FirstStage(f) = "authorize"
  <2>1. /\ f.op \in {"update", "act"} => FirstStage(f) = "authorize"
        /\ f.op = "register" => FirstStage(f) = "claim"
        /\ f.op \in {"login", "refresh", "bootstrap"} => FirstStage(f) = "find"
    BY DEF FirstStage
  <2> QED
    BY <2>1, FormFacts, StageFacts
<1>5. \A v \in Workers \ {w} : Undisturbed(v)
  BY <1>1, <1>2 DEF Undisturbed, Typed
<1>6. Serving(w)'
  BY <1>3, <1>4 DEF Serving
<1>7. Reading(w)'
  <2>1. actor'[w] # NoId => account'[actor'[w]] \in lived'[w]
    BY <1>2, <1>3, ActorFacts
  <2> QED
    BY <1>3, <2>1 DEF Reading
<1>8. Authorized(w)' /\ Updating(w)' /\ Pending(w)' = FALSE
  BY <1>3, <1>4 DEF Authorized, Updating, Pending
<1>9. Session(w)'
  BY <1>6, <1>7, <1>8 DEF Session, Inserting
<1> QED
  BY <1>1, <1>2, <1>5, <1>8, <1>9, LocalStep DEF Typed

\* The check of the token, the account and its role.
LEMMA AuthorizePreserves ==
    ASSUME Inv, NEW w \in Workers, Authorize(w)
    PROVE  Inv'
<1> DEFINE u == form[w].token.sub
           ok == /\ Accepted(form[w].token, "access")
                 /\ Exists(u) /\ account[u].is_active
                 /\ account[u].role \in (IF form[w].op = "update" THEN {"ADMIN"} ELSE form[w].roles)
           stage == IF form[w].op = "update" THEN "find" ELSE "commit"
<1>1. Typed /\ Session(w) /\ pc[w] = "authorize"
  BY DEF Authorize, Inv
<1>2. CASE ~ok
  BY <1>2, RollbackPreserves DEF Authorize
<1>3. CASE ok
  <2>1. /\ seen' = [seen EXCEPT ![w] = WithRead(w, u)]
        /\ pc' = [pc EXCEPT ![w] = stage]
        /\ UNCHANGED <<account, writer, tokens, form, actor, target, lived, begun>>
    BY <1>3 DEF Authorize, Goto
  <2>2. /\ form[w] \in Forms /\ form[w].op \in {"update", "act"}
        /\ actor[w] = u /\ u \in Ids
    BY <1>1, Served, ActorFacts DEF Session
  <2>3. Exists(u) /\ DOMAIN seen[w] = {}
    BY <1>1, <1>3 DEF Session, Reading
  <2>4. seen'[w] = WithRead(w, u)
    BY <1>1, <2>1 DEF Typed
  <2>5. /\ DOMAIN seen'[w] = {u} /\ DOMAIN seen'[w] \subseteq Ids
        /\ seen'[w][u] = account[u]
        /\ \A x \in DOMAIN seen'[w] : /\ seen'[w][x] \in UserRow
                                      /\ Exists(x)
                                      /\ x = actor[w] => seen'[w][x] \in lived[w]
    <3> HIDE DEF u
    <3>1. /\ DOMAIN seen'[w] = DOMAIN seen[w] \cup {u} /\ DOMAIN seen'[w] \subseteq Ids
          /\ u \notin DOMAIN seen[w] => seen'[w][u] = account[u]
      BY <2>2, <2>3, <2>4, ReadFacts
    <3>2. \A x \in DOMAIN seen'[w] : /\ seen'[w][x] \in UserRow
                                     /\ Exists(x)
                                     /\ x = actor[w] => seen'[w][x] \in lived[w]
      BY <2>2, <2>3, <2>4, ReadFacts
    <3> QED
      BY <2>3, <3>1, <3>2
  <2>6. stage \in Stages(form[w].op) /\ stage \in {"find", "commit"}
        /\ (stage = "find" <=> form[w].op = "update")
    BY <2>2, StageFacts
  <2>7. pc'[w] = stage
    BY <1>1, <2>1 DEF Typed
  <2>8. Authorized(w)'
    <3>1. form[w].op = "update" => IsAdmin(account[u])
      BY <1>3 DEF IsAdmin, Exists
    <3>2. form[w].op = "act" => account[u].is_active /\ account[u].role \in form[w].roles
      BY <1>3
    <3> QED
      BY <2>1, <2>2, <2>5, <2>6, <2>7, <3>1, <3>2 DEF Authorized
  <2>9. Updating(w)' /\ Pending(w)' = FALSE
    BY <2>1, <2>2, <2>6, <2>7 DEF Updating, Pending
  <2>10. Inserting(w)'
    BY <2>9 DEF Inserting
  <2>11. /\ DOMAIN seen' = Workers /\ DOMAIN target' = Workers
         /\ \A v \in Workers \ {w} : seen'[v] = seen[v] /\ target'[v] = target[v]
    BY <1>1, <2>1 DEF Typed
  <2>12. /\ writer' \in [Ids -> Workers \cup {Nobody}]
         /\ \A x \in Ids : writer'[x] = writer[x]
    BY <1>1, <2>1 DEF Typed
  <2> HIDE DEF stage, u
  <2> QED
    BY <1>1, <2>1, <2>5, <2>6, <2>8, <2>9, <2>10, <2>11, <2>12, MoveStep
<1> QED
  BY <1>2, <1>3

\* update_user reads the account to change and makes its checks.
LEMMA FindTargetPreserves ==
    ASSUME Inv, NEW w \in Workers, FindTarget(w)
    PROVE  Inv'
<1> DEFINE u == form[w].target
           rows == WithRead(w, u)
<1>1. Typed /\ Session(w) /\ pc[w] = "find" /\ form[w].op = "update"
  BY DEF FindTarget, Inv
<1>2. CASE ~Exists(u) \/ ChangesSelf(w, rows)
  BY <1>2, RollbackPreserves DEF FindTarget
<1>3. CASE Exists(u) /\ ~ChangesSelf(w, rows)
  <2>1. /\ seen' = [seen EXCEPT ![w] = rows] /\ target' = [target EXCEPT ![w] = u]
        /\ pc' = [pc EXCEPT ![w] = "write"]
        /\ UNCHANGED <<account, writer, tokens, form, actor, lived, begun>>
    BY <1>3 DEF FindTarget, Goto
  <2>2. form[w] \in Forms /\ u \in Ids
    BY <1>1, Served, FormFacts DEF Session
  <2>3. seen'[w] = rows /\ target'[w] = u /\ pc'[w] = "write"
    BY <1>1, <2>1 DEF Typed
  <2>4. /\ DOMAIN seen'[w] = DOMAIN seen[w] \cup {u} /\ DOMAIN seen'[w] \subseteq Ids
        /\ \A x \in DOMAIN seen[w] : seen'[w][x] = seen[w][x]
        /\ \A x \in DOMAIN seen'[w] : /\ seen'[w][x] \in UserRow
                                      /\ Exists(x)
                                      /\ x = actor[w] => seen'[w][x] \in lived[w]
    BY <1>3, <2>2, <2>3, ReadFacts
  <2>5. actor[w] \in DOMAIN seen[w] /\ IsAdmin(seen[w][actor[w]])
    BY <1>1 DEF Session, Authorized
  <2>6. Authorized(w)'
    BY <1>1, <2>1, <2>3, <2>4, <2>5 DEF Authorized
  <2>7. Updating(w)'
    <3>1. form'[w] = form[w] /\ actor'[w] = actor[w] /\ ~ChangesSelf(w, rows)
      BY <1>3, <2>1
    <3> HIDE DEF rows
    <3>2. ~ChangesSelf(w, seen[w])'
      BY <2>3, <3>1 DEF ChangesSelf
    <3> QED
      BY <2>1, <2>3, <2>4, <3>2 DEF Updating
  <2>8. Pending(w)' = FALSE
    BY <2>3 DEF Pending
  <2>9. Inserting(w)'
    BY <2>8 DEF Inserting
  <2>10. /\ DOMAIN seen' = Workers /\ DOMAIN target' = Workers
         /\ \A v \in Workers \ {w} : seen'[v] = seen[v] /\ target'[v] = target[v]
    BY <1>1, <2>1 DEF Typed
  <2>11. /\ writer' \in [Ids -> Workers \cup {Nobody}]
         /\ \A x \in Ids : writer'[x] = writer[x]
    BY <1>1, <2>1 DEF Typed
  <2>12. "write" \in Stages(form[w].op)
    BY <1>1, StageFacts
  <2> HIDE DEF u, rows
  <2> QED
    BY <1>1, <2>1, <2>4, <2>6, <2>7, <2>8, <2>9, <2>10, <2>11, <2>12, MoveStep
<1> QED
  BY <1>2, <1>3

\* The UPDATE of a change, or its refusal of a null.
LEMMA WritePreserves ==
    ASSUME Inv, NEW w \in Workers, Write(w)
    PROVE  Inv'
<1>1. Typed /\ Session(w) /\ pc[w] = "write"
  BY DEF Write, Inv
<1>2. form[w] \in Forms /\ form[w].op = "update"
  BY <1>1, Served DEF Session
<1>3. CASE \E x \in Written(w) : form[w].changes[x] = Null
  BY <1>3, RollbackPreserves DEF Write
<1>4. CASE \A x \in Written(w) : form[w].changes[x] # Null
  <2>1. /\ Written(w) # {} => writer[target[w]] = Nobody
        /\ writer' = IF Written(w) = {} THEN writer ELSE [writer EXCEPT ![target[w]] = w]
        /\ pc' = [pc EXCEPT ![w] = "commit"]
        /\ UNCHANGED <<account, tokens, form, actor, target, seen, lived, begun>>
    BY <1>4 DEF Write, Goto
  <2>2. pc'[w] = "commit"
    BY <1>1, <2>1 DEF Typed
  <2>3. Written(w)' = Written(w) /\ (ChangesSelf(w, seen[w])' <=> ChangesSelf(w, seen[w]))
    BY <2>1 DEF Written, ChangesSelf
  <2>4. Authorized(w)'
    BY <1>1, <1>2, <2>1, <2>2 DEF Authorized, Session
  <2>5. Updating(w)'
    BY <1>1, <1>2, <1>4, <2>1, <2>2, <2>3 DEF Updating, Session
  <2>6. Pending(w)' = FALSE
    BY <1>2, <2>1 DEF Pending
  <2>7. Inserting(w)'
    BY <2>6 DEF Inserting
  <2>8. /\ writer' \in [Ids -> Workers \cup {Nobody}]
        /\ \A u \in Ids : writer[u] # Nobody => writer'[u] = writer[u]
    BY <1>1, <2>1 DEF Typed
  <2>9. "commit" \in Stages(form[w].op)
    BY <1>2, StageFacts
  <2> QED
    BY <1>1, <1>2, <2>1, <2>4, <2>5, <2>6, <2>7, <2>8, <2>9, MoveStep DEF Typed, Session, Reading
<1> QED
  BY <1>3, <1>4

\* login and refresh find the account they issue tokens for.
LEMMA FindUserPreserves ==
    ASSUME Inv, NEW w \in Workers, FindUser(w)
    PROVE  Inv'
<1> DEFINE found == IF form[w].op = "login" THEN LoginFinds(form[w]) ELSE RefreshFinds(form[w])
<1>1. Typed /\ Session(w) /\ pc[w] = "find" /\ form[w].op \in {"login", "refresh"}
  BY DEF FindUser, Inv
<1>2. CASE found = {}
  BY <1>2, RollbackPreserves DEF FindUser
<1>3. CASE found # {}
  <2>1. PICK u \in found :
            /\ seen' = [seen EXCEPT ![w] = WithRead(w, u)]
            /\ target' = [target EXCEPT ![w] = u]
            /\ pc' = [pc EXCEPT ![w] = "issue"]
            /\ UNCHANGED <<account, writer, tokens, form, actor, lived, begun>>
    BY <1>3 DEF FindUser, Goto
  <2>2. u \in Ids /\ Exists(u) /\ account[u].is_active
    BY DEF LoginFinds, RefreshFinds, AccountsWith
  <2>3. form[w].op = "refresh" => u = actor[w]
    <3>1. form[w].op = "refresh" => u = form[w].token.sub
      BY DEF RefreshFinds
    <3> QED
      BY <3>1, <1>1, Served, ActorFacts DEF Session
  <2> HIDE DEF found
  <2>4. seen'[w] = WithRead(w, u) /\ target'[w] = u /\ pc'[w] = "issue"
    BY <1>1, <2>1 DEF Typed
  <2>5. DOMAIN seen[w] = {}
    BY <1>1 DEF Session, Reading
  <2>6. /\ DOMAIN seen'[w] = {u} /\ DOMAIN seen'[w] \subseteq Ids
        /\ seen'[w][u] = account[u]
        /\ \A x \in DOMAIN seen'[w] : /\ seen'[w][x] \in UserRow
                                      /\ Exists(x)
                                      /\ x = actor[w] => seen'[w][x] \in lived[w]
    BY <2>2, <2>4, <2>5, ReadFacts
  <2>7. Authorized(w)'
    BY <2>1, <2>2, <2>3, <2>4, <2>6 DEF Authorized
  <2>8. Updating(w)' /\ Pending(w)' = FALSE
    BY <2>4 DEF Updating, Pending
  <2>9. Inserting(w)'
    BY <2>8 DEF Inserting
  <2>10. /\ DOMAIN seen' = Workers /\ DOMAIN target' = Workers
         /\ \A v \in Workers \ {w} : seen'[v] = seen[v] /\ target'[v] = target[v]
    BY <1>1, <2>1 DEF Typed
  <2>11. /\ writer' \in [Ids -> Workers \cup {Nobody}]
         /\ \A x \in Ids : writer'[x] = writer[x]
    BY <1>1, <2>1 DEF Typed
  <2>12. "issue" \in Stages(form[w].op)
    BY <1>1, StageFacts
  <2> QED
    BY <1>1, <2>1, <2>6, <2>7, <2>8, <2>9, <2>10, <2>11, <2>12, MoveStep
<1> QED
  BY <1>2, <1>3

\* The start of the application looks for its first administrator.
LEMMA FindAdminPreserves ==
    ASSUME Inv, NEW w \in Workers, FindAdmin(w)
    PROVE  Inv'
<1>1. Typed /\ Session(w) /\ pc[w] = "find" /\ form[w].op = "bootstrap"
  BY DEF FindAdmin, Inv
<1>2. CASE AccountsWith(EmailOf(form[w])) # {}
  BY <1>2, RollbackPreserves DEF FindAdmin
<1>3. CASE AccountsWith(EmailOf(form[w])) = {}
  <2>1. /\ pc' = [pc EXCEPT ![w] = "claim"]
        /\ UNCHANGED <<account, writer, tokens, form, actor, target, seen, lived, begun>>
    BY <1>3 DEF FindAdmin, Goto
  <2>2. pc'[w] = "claim"
    BY <1>1, <2>1 DEF Typed
  <2>3. Authorized(w)' /\ Updating(w)' /\ Pending(w)' = FALSE
    BY <2>2 DEF Authorized, Updating, Pending
  <2>4. Inserting(w)'
    BY <2>3 DEF Inserting
  <2>5. "claim" \in Stages(form[w].op)
    BY <1>1, StageFacts
  <2> QED
    BY <1>1, <2>1, <2>3, <2>4, <2>5, MoveStep DEF Typed, Session, Reading
<1> QED
  BY <1>2, <1>3

\* The INSERT, which waits for one of the same email and is refused an email in use.
LEMMA ClaimPreserves ==
    ASSUME Inv, NEW w \in Workers, Claim(w)
    PROVE  Inv'
<1> DEFINE email == EmailOf(form[w])
<1>1. /\ Typed /\ Session(w) /\ pc[w] = "claim" /\ Registering(email) = {}
      /\ \A v \in Workers : Session(v)
  BY DEF Claim, Inv
<1>2. form[w] \in Forms /\ form[w].op \in {"register", "bootstrap"}
  BY <1>1, Served DEF Session
<1>3. CASE AccountsWith(email) # {}
  BY <1>3, RollbackPreserves DEF Claim
<1>4. CASE AccountsWith(email) = {}
  <2>1. PICK u \in Ids : /\ account[u] = Unborn /\ writer[u] = Nobody
                         /\ target' = [target EXCEPT ![w] = u]
                         /\ writer' = [writer EXCEPT ![u] = w]
    BY <1>4 DEF Claim
  <2>2. /\ pc' = [pc EXCEPT ![w] = "commit"]
        /\ UNCHANGED <<account, tokens, form, actor, seen, lived, begun>>
    BY <1>4 DEF Claim, Goto
  <2>3. pc'[w] = "commit" /\ target'[w] = u /\ writer'[u] = w
    BY <1>1, <2>1, <2>2 DEF Typed
  <2>4. \A x \in Ids : Exists(x) => account[x].email # email
    BY <1>4 DEF AccountsWith
  <2>5. Inserting(w)'
    BY <2>1, <2>2, <2>3, <2>4 DEF Inserting, Exists
  <2>6. Authorized(w)' /\ Updating(w)'
    BY <1>2, <2>2, <2>3 DEF Authorized, Updating
  <2>7. ASSUME NEW v \in Workers \ {w}, Pending(v)
        PROVE  EmailOf(form[v]) # EmailOf(form[w])
    <3>1. /\ target[v] \in Ids /\ ~Exists(target[v]) /\ writer[target[v]] = v
      BY <1>1, <2>7 DEF Session, Inserting
    <3>2. v # Nobody
      BY AccountsMarksAssumption
    <3> QED
      BY <1>1, <3>1, <3>2 DEF Registering
  <2>8. /\ writer' \in [Ids -> Workers \cup {Nobody}]
        /\ \A x \in Ids : writer[x] # Nobody => writer'[x] = writer[x]
    BY <1>1, <2>1 DEF Typed
  <2>9. "commit" \in Stages(form[w].op)
    BY <1>2, StageFacts
  <2>10. /\ DOMAIN seen' = Workers /\ DOMAIN target' = Workers
         /\ \A v \in Workers \ {w} : seen'[v] = seen[v] /\ target'[v] = target[v]
    BY <1>1, <2>1, <2>2 DEF Typed
  <2> HIDE DEF email
  <2> QED
    BY <1>1, <2>2, <2>5, <2>6, <2>7, <2>8, <2>9, <2>10, MoveStep DEF Session, Reading
<1> QED
  BY <1>3, <1>4

----------------------------------------------------------------------------
(* A commit *)

\* What a change has made of the account it was about: the same person's row.
LEMMA UpdatedRow ==
    ASSUME Inv, NEW w \in Workers, pc[w] = "commit", form[w].op = "update"
    PROVE  /\ target[w] \in Ids /\ Exists(target[w])
           /\ Result(w) \in UserRow
           /\ Result(w).email = account[target[w]].email
           /\ Written(w) = {} => Result(w) = account[target[w]]
           /\ target[w] = actor[w] => Written(w) = {}
<1> DEFINE row == account[target[w]]
           changes == form[w].changes
           active == IF "is_active" \in Written(w) THEN changes.is_active ELSE row.is_active
           role == IF "role" \in Written(w) THEN changes.role ELSE row.role
<1>1. Session(w) /\ Typed
  BY DEF Inv
<1>2. form[w] \in Forms
  BY <1>1, Served DEF Session
<1>3. target[w] \in DOMAIN seen[w] /\ target[w] \in Ids /\ Exists(target[w])
  BY <1>1 DEF Session, Updating, Reading
<1>4. row \in UserRow
  BY <1>1, <1>3 DEF Typed, Exists
<1>5. \A x \in Written(w) : x \in DOMAIN changes /\ changes[x] # seen[w][target[w]][x]
                            /\ changes[x] # Null
  BY <1>1 DEF Written, Session, Updating
<1>6. "is_active" \in Written(w) => changes.is_active \in BOOLEAN
  BY <1>2, <1>5, FormFacts
<1>7. "role" \in Written(w) => changes.role \in UserRole
  BY <1>2, <1>5, FormFacts
<1>8. active \in BOOLEAN /\ role \in UserRole
  BY <1>4, <1>6, <1>7, RowFacts
<1>9. Result(w) = [email |-> row.email, password |-> row.password,
                   is_active |-> active, role |-> role]
  BY DEF Result
<1>10. Result(w) \in UserRow /\ Result(w).email = row.email
  <2> HIDE DEF active, role, row
  <2> QED
    BY <1>4, <1>8, <1>9, RowFacts DEF UserRow
<1>11. Written(w) = {} => Result(w) = row
  <2>1. Written(w) = {} => active = row.is_active /\ role = row.role
    OBVIOUS
  <2> HIDE DEF active, role, row
  <2> QED
    BY <2>1, <1>4, <1>9, RowFacts
<1>12. ASSUME target[w] = actor[w]
       PROVE  Written(w) = {}
  <2> DEFINE own == seen[w][actor[w]]
  <2>1. own \in UserRow /\ own.is_active = TRUE
    BY <1>1, <1>3, <1>12 DEF Session, Reading, Authorized, IsAdmin, UserRow
  <2>2. form[w].target = actor[w] /\ ~ChangesSelf(w, seen[w])
    BY <1>1, <1>12 DEF Session, Updating
  <2>3. /\ "is_active" \in DOMAIN changes => changes.is_active # FALSE
        /\ "role" \in DOMAIN changes => changes.role \in {Null, own.role}
    BY <2>2 DEF ChangesSelf
  <2>4. "is_active" \notin Written(w)
    <3>1. "is_active" \in Written(w) =>
              /\ "is_active" \in DOMAIN changes
              /\ changes.is_active # own.is_active
      BY <1>5, <1>12
    <3> QED
      BY <3>1, <1>6, <2>1, <2>3
  <2>5. "role" \notin Written(w)
    <3>1. "role" \in Written(w) =>
              /\ "role" \in DOMAIN changes
              /\ changes.role # own.role /\ changes.role # Null
      BY <1>5, <1>12
    <3> QED
      BY <3>1, <2>3
  <2>6. Written(w) \subseteq {"role", "is_active"}
    BY <1>2, <1>5, FormFacts
  <2> QED
    BY <2>4, <2>5, <2>6
<1> QED
  BY <1>3, <1>10, <1>11, <1>12

\* What a commit does to the table: it changes a row's activity or role, or it
\* adds the row that the request has inserted.
LEMMA CommitRows ==
    ASSUME Inv, NEW w \in Workers, Commit(w)
    PROVE  /\ account' \in [Ids -> UserRow \cup {Unborn}]
           /\ \A u \in Ids : Exists(u) => /\ Exists(u)'
                                          /\ account'[u].email = account[u].email
           /\ \A u \in Ids : ~Exists(u) /\ Exists(u)' =>
                  /\ Pending(w) /\ u = target[w]
                  /\ account'[u].email = EmailOf(form[w])
           /\ \A u \in Ids : u # target[w] => account'[u] = account[u]
<1>1. /\ pc[w] = "commit" /\ Session(w) /\ Typed
      /\ account' = IF form[w].op = "act" THEN account
                    ELSE [account EXCEPT ![target[w]] = Result(w)]
  BY DEF Commit, Inv
<1>2. form[w] \in Forms /\ form[w].op \in {"update", "act", "register", "bootstrap"}
  BY <1>1, Served DEF Session
<1>3. CASE form[w].op = "act"
  BY <1>1, <1>3 DEF Typed, Exists
<1>4. CASE form[w].op = "update"
  <2>1. /\ target[w] \in Ids /\ Exists(target[w]) /\ Result(w) \in UserRow
        /\ Result(w).email = account[target[w]].email
    BY <1>1, <1>4, UpdatedRow
  <2>2. Result(w) # Unborn
    BY <2>1, RowFacts
  <2> QED
    BY <1>1, <1>4, <2>1, <2>2 DEF Typed, Exists
<1>5. CASE form[w].op \in {"register", "bootstrap"}
  <2>1. Pending(w) /\ target[w] \in Ids /\ ~Exists(target[w])
    BY <1>1, <1>5 DEF Pending, Session, Inserting
  <2>2. Result(w) = NewAccount(form[w])
    BY <1>5 DEF Result
  <2>3. Result(w) \in UserRow /\ Result(w).email = EmailOf(form[w])
    BY <1>2, <1>5, <2>2, NewAccountFacts
  <2> QED
    BY <1>1, <1>5, <2>1, <2>3 DEF Typed, Exists
<1> QED
  BY <1>2, <1>3, <1>4, <1>5

\* A commit.
LEMMA CommitPreserves ==
    ASSUME Inv, NEW w \in Workers, Commit(w)
    PROVE  Inv'
<1>1. Typed /\ Session(w) /\ EmailsDiffer /\ ClaimsDiffer
  BY DEF Inv
<1>2. /\ pc' = [pc EXCEPT ![w] = "idle"] /\ form' = [form EXCEPT ![w] = NoForm]
      /\ actor' = [actor EXCEPT ![w] = NoId] /\ target' = [target EXCEPT ![w] = NoId]
      /\ seen' = [seen EXCEPT ![w] = <<>>]
      /\ writer' = [u \in Ids |-> IF writer[u] = w THEN Nobody ELSE writer[u]]
      /\ lived' = [v \in Workers |->
             IF v = w \/ actor[v] = NoId THEN {} ELSE lived[v] \cup {account'[actor[v]]}]
      /\ tokens' = tokens
  BY DEF Commit, Close, Goto
<1>3. Typed'
  BY <1>1, <1>2, CommitRows DEF Typed
<1>4. EmailsDiffer'
  <2>1. ASSUME NEW u \in Ids, NEW v \in Ids, u # v, Exists(u)', Exists(v)', Exists(u)
        PROVE  account'[u].email # account'[v].email
    <3>1. CASE Exists(v)
      BY <1>1, <2>1, <3>1, CommitRows DEF EmailsDiffer
    <3>2. CASE ~Exists(v)
      <4>1. Pending(w) /\ account'[v].email = EmailOf(form[w])
        BY <2>1, <3>2, CommitRows
      <4>2. account[u].email # EmailOf(form[w])
        BY <1>1, <2>1, <4>1 DEF Session, Inserting
      <4> QED
        BY <2>1, <4>1, <4>2, CommitRows
    <3> QED
      BY <3>1, <3>2
  <2>2. ASSUME NEW u \in Ids, NEW v \in Ids, u # v, Exists(u)', Exists(v)'
        PROVE  Exists(u) \/ Exists(v)
    BY <2>2, CommitRows
  <2> QED
    BY <2>1, <2>2 DEF EmailsDiffer
<1>5. /\ pc'[w] = "idle" /\ form'[w] = NoForm /\ actor'[w] = NoId /\ DOMAIN seen'[w] = {}
  <2>1. DOMAIN seen'[w] = DOMAIN <<>>
    BY <1>1, <1>2 DEF Typed
  <2>2. DOMAIN <<>> = {}
    OBVIOUS
  <2> QED
    BY <2>1, <2>2, <1>1, <1>2 DEF Typed
<1>6. Session(w)' /\ Pending(w)' = FALSE
  <2>1. Serving(w)' /\ Reading(w)'
    BY <1>5 DEF Serving, Reading
  <2>2. Authorized(w)' /\ Updating(w)' /\ Pending(w)' = FALSE
    BY <1>5 DEF Authorized, Updating, Pending
  <2>3. Inserting(w)'
    BY <2>2 DEF Inserting
  <2> QED
    BY <2>1, <2>2, <2>3 DEF Session
<1>7. ASSUME NEW v \in Workers \ {w}
      PROVE  Session(v)' /\ Pending(v)' = Pending(v) /\ form'[v] = form[v]
  <2>1. Session(v)
    BY DEF Inv
  <2>2. /\ pc'[v] = pc[v] /\ form'[v] = form[v] /\ actor'[v] = actor[v]
        /\ target'[v] = target[v] /\ seen'[v] = seen[v]
        /\ actor[v] # NoId => lived'[v] = lived[v] \cup {account'[actor[v]]}
        /\ \A u \in Ids : writer[u] = v => writer'[u] = v
    BY <1>1, <1>2 DEF Typed
  <2>3. Serving(v)'
    BY <2>1, <2>2 DEF Session, Serving
  <2>4. Reading(v)'
    <3>1. \A u \in DOMAIN seen[v] :
              /\ u \in Ids /\ seen[v][u] \in UserRow /\ Exists(u)'
              /\ u = actor[v] => seen[v][u] \in lived'[v]
      BY <2>1, <2>2, CommitRows, AccountsMarksAssumption DEF Session, Reading
    <3>2. actor[v] # NoId => account'[actor[v]] \in lived'[v]
      BY <2>2
    <3>3. pc[v] = "authorize" \/ (pc[v] = "find" /\ form[v].op # "update") => DOMAIN seen[v] = {}
      BY <2>1 DEF Session, Reading
    <3> QED
      BY <2>2, <3>1, <3>2, <3>3 DEF Reading
  <2>5. Authorized(v)'
    BY <2>1, <2>2 DEF Session, Authorized
  <2>6. Written(v)' = Written(v)
    BY <2>2 DEF Written
  <2>7. ChangesSelf(v, seen[v])' <=> ChangesSelf(v, seen[v])
    BY <2>2 DEF ChangesSelf
  <2>8. Updating(v)'
    BY <2>1, <2>2, <2>6, <2>7 DEF Session, Updating
  <2>9. Pending(v)' = Pending(v)
    BY <2>2 DEF Pending
  <2>10. Inserting(v)'
    <3> SUFFICES ASSUME Pending(v)
                 PROVE  /\ target[v] \in Ids /\ account'[target[v]] = Unborn /\ writer'[target[v]] = v
                        /\ \A u \in Ids : Exists(u)' => account'[u].email # EmailOf(form[v])
      BY <2>2, <2>9 DEF Inserting, Exists
    <3>1. /\ target[v] \in Ids /\ ~Exists(target[v]) /\ writer[target[v]] = v
          /\ \A u \in Ids : Exists(u) => account[u].email # EmailOf(form[v])
      BY <2>1 DEF Session, Inserting
    <3>2. Pending(w) => target[w] # target[v]
      BY <1>1, <3>1 DEF Session, Inserting
    <3>3. account'[target[v]] = Unborn
      <4>1. \A u \in Ids : ~Exists(u) /\ account'[u] # Unborn => u = target[w] /\ Pending(w)
        BY CommitRows DEF Exists
      <4> QED
        BY <3>1, <3>2, <4>1
    <3>4. ASSUME NEW u \in Ids, Exists(u)'
          PROVE  account'[u].email # EmailOf(form[v])
      <4>1. CASE Exists(u)
        BY <3>1, <4>1, CommitRows
      <4>2. CASE ~Exists(u)
        <5>1. Pending(w) /\ account'[u].email = EmailOf(form[w])
          BY <3>4, <4>2, CommitRows
        <5> QED
          BY <1>1, <5>1 DEF ClaimsDiffer
      <4> QED
        BY <4>1, <4>2
    <3> QED
      BY <2>2, <3>1, <3>3, <3>4
  <2> QED
    BY <2>2, <2>3, <2>4, <2>5, <2>8, <2>9, <2>10 DEF Session
<1>8. ClaimsDiffer'
  BY <1>1, <1>6, <1>7 DEF ClaimsDiffer
<1> QED
  BY <1>3, <1>4, <1>6, <1>7, <1>8 DEF Inv

----------------------------------------------------------------------------
(* The invariant holds *)

\* The accounts to begin with satisfy the invariant, and no session is at work.
LEMMA InitInv == Init => Inv
<1> SUFFICES ASSUME Init
             PROVE  Inv
  OBVIOUS
<1> USE DEF Init
<1>1. Typed
  BY AccountsStartAssumption DEF Typed
<1>2. EmailsDiffer
  BY AccountsStartAssumption DEF EmailsDiffer, Exists
<1>3. ASSUME NEW w \in Workers
      PROVE  Session(w) /\ Pending(w) = FALSE
  <2>1. pc[w] = "idle" /\ form[w] = NoForm /\ actor[w] = NoId /\ DOMAIN seen[w] = {}
    OBVIOUS
  <2>2. Serving(w) /\ Reading(w)
    BY <2>1 DEF Serving, Reading
  <2>3. Authorized(w) /\ Updating(w) /\ Pending(w) = FALSE
    BY <2>1 DEF Authorized, Updating, Pending
  <2>4. Inserting(w)
    BY <2>3 DEF Inserting
  <2> QED
    BY <2>2, <2>3, <2>4 DEF Session
<1>4. ClaimsDiffer
  BY <1>3 DEF ClaimsDiffer
<1> QED
  BY <1>1, <1>2, <1>3, <1>4 DEF Inv

\* A token that runs out, or a step of something else, leaves every session alone.
LEMMA OutsidePreserves ==
    ASSUME Inv, UNCHANGED <<account, writer, session>>, tokens' \subseteq tokens
    PROVE  Inv'
<1> USE DEF session
<1>1. \A v \in Workers : Undisturbed(v)
  BY DEF Undisturbed
<1>2. \A v \in Workers : Session(v)' /\ Pending(v)' = Pending(v)
  BY <1>1, UndisturbedSession DEF Inv
<1>3. Typed'
  BY DEF Typed, Inv
<1>4. EmailsDiffer'
  BY DEF EmailsDiffer, Exists, Inv
<1>5. ClaimsDiffer'
  BY <1>2 DEF ClaimsDiffer, Inv
<1> QED
  BY <1>2, <1>3, <1>4, <1>5 DEF Inv

\* Every step keeps the invariant.
LEMMA NextInv == Inv /\ [Next]_vars => Inv'
<1> SUFFICES ASSUME Inv, [Next]_vars
             PROVE  Inv'
  OBVIOUS
<1>1. ASSUME NEW w \in Workers, NEW f \in Forms, Begin(w, f)
      PROVE  Inv'
  BY <1>1, BeginPreserves
<1>2. ASSUME NEW w \in Workers, Step(w)
      PROVE  Inv'
  BY <1>2, AuthorizePreserves, FindTargetPreserves, WritePreserves, FindUserPreserves,
     IssuePreserves, FindAdminPreserves, ClaimPreserves, CommitPreserves DEF Step
<1>3. ASSUME NEW w \in Workers, Abort(w)
      PROVE  Inv'
  BY <1>3, RollbackPreserves DEF Abort
<1>4. ASSUME NEW token \in tokens, Expire(token)
      PROVE  Inv'
  BY <1>4, OutsidePreserves DEF Expire
<1>5. CASE UNCHANGED vars
  BY <1>5, OutsidePreserves DEF vars, session
<1> QED
  BY <1>1, <1>2, <1>3, <1>4, <1>5 DEF Next

\* Every state the accounts reach satisfies the inductive invariant.
THEOREM Invariance == Spec => []Inv
  BY InitInv, NextInv, PTL DEF Spec

----------------------------------------------------------------------------
(* What it says *)

(***************************************************************************)
(* Variables are typed: no row ever holds a null or a role that is not one,*)
(* whatever the bodies of the requests name.                               *)
(***************************************************************************)
THEOREM TypeCorrect == Spec => []TypeOK
<1>1. Inv => TypeOK
  <2> SUFFICES ASSUME Inv
               PROVE  TypeOK
    OBVIOUS
  <2>1. ASSUME NEW w \in Workers
        PROVE  /\ pc[w] \in {"idle", "authorize", "find", "claim", "write", "issue", "commit"}
               /\ pc[w] = "idle" <=> form[w] = NoForm
               /\ pc[w] \in {"write", "issue"} => target[w] \in DOMAIN seen[w]
    <3>1. Session(w)
      BY DEF Inv
    <3>2. pc[w] # "idle" => form[w] # NoForm
      BY <3>1, Served, FormFacts DEF Session
    <3>3. pc[w] = "write" => target[w] \in DOMAIN seen[w]
      BY <3>1, Served DEF Session, Updating
    <3>4. pc[w] = "issue" => target[w] \in DOMAIN seen[w]
      BY <3>1 DEF Session, Authorized
    <3> QED
      BY <3>1, <3>2, <3>3, <3>4, Served DEF Session, Serving
  <2> QED
    BY <2>1 DEF TypeOK, Inv, Typed
<1> QED
  BY <1>1, Invariance, PTL

(***************************************************************************)
(* No two accounts have one email, however it is typed and whoever         *)
(* registers it.                                                           *)
(***************************************************************************)
THEOREM EmailsNeverClash == Spec => []EmailsUnique
<1>1. Inv => EmailsUnique
  <2> SUFFICES ASSUME Inv, NEW u \in Ids, NEW v \in Ids, Exists(u), Exists(v), u # v
               PROVE  Lower[account[u].email] # Lower[account[v].email]
    BY DEF EmailsUnique
  <2>1. account[u] \in UserRow /\ account[v] \in UserRow
    BY DEF Inv, Typed, Exists
  <2>2. account[u].email # account[v].email
    BY DEF Inv, EmailsDiffer
  <2> QED
    BY <2>1, <2>2, RowFacts, StoredFacts
<1> QED
  BY <1>1, Invariance, PTL

(***************************************************************************)
(* What a request does, its actor had the right to do at some time while   *)
(* the request ran.                                                        *)
(***************************************************************************)
THEOREM RightsAreHeld == Spec => []RightsHeld
<1>1. Inv => RightsHeld
  <2> SUFFICES ASSUME Inv, NEW w \in Workers
               PROVE  /\ pc[w] = "commit" /\ form[w].op = "update" =>
                             \E a \in lived[w] : IsAdmin(a)
                      /\ pc[w] = "commit" /\ form[w].op = "act" =>
                             \E a \in lived[w] : a # Unborn /\ a.is_active /\ a.role \in form[w].roles
                      /\ pc[w] = "issue" /\ form[w].op = "refresh" =>
                             \E a \in lived[w] : a # Unborn /\ a.is_active
    BY DEF RightsHeld
  <2>1. Reading(w) /\ Authorized(w)
    BY DEF Inv, Session
  <2>2. actor[w] \in DOMAIN seen[w] =>
            seen[w][actor[w]] \in lived[w] /\ seen[w][actor[w]] # Unborn
    BY <2>1, RowFacts DEF Reading
  <2>3. CASE pc[w] = "commit" /\ form[w].op = "update"
    BY <2>1, <2>2, <2>3 DEF Authorized
  <2>4. CASE pc[w] = "commit" /\ form[w].op = "act"
    BY <2>1, <2>2, <2>4 DEF Authorized
  <2>5. CASE pc[w] = "issue" /\ form[w].op = "refresh"
    BY <2>1, <2>2, <2>5 DEF Authorized
  <2> QED
    BY <2>3, <2>4, <2>5
<1> QED
  BY <1>1, Invariance, PTL

(***************************************************************************)
(* Nobody changes their own role or activity, not even back.               *)
(***************************************************************************)
THEOREM OnlyOthersChange == Spec => NobodyChangesThemself
<1>1. Inv /\ [Next]_vars =>
          [\A w \in Workers :
              (Commit(w) /\ form[w].op = "update" /\ target[w] = actor[w])
                  => account'[actor[w]] = account[actor[w]]]_vars
  <2> SUFFICES ASSUME Inv, NEW w \in Workers, Commit(w), form[w].op = "update",
                      target[w] = actor[w]
               PROVE  account'[actor[w]] = account[actor[w]]
    OBVIOUS
  <2>1. pc[w] = "commit" /\ account' = [account EXCEPT ![target[w]] = Result(w)]
    BY DEF Commit
  <2>2. Result(w) = account[target[w]] /\ target[w] \in Ids
    BY <2>1, UpdatedRow
  <2> QED
    BY <2>1, <2>2 DEF Inv, Typed
<1> QED
  BY <1>1, Invariance, PTL DEF Spec, NobodyChangesThemself

(***************************************************************************)
(* The last administrator goes only in a race: whoever takes their rights  *)
(* has lost their own since they were authorized.                          *)
(***************************************************************************)
THEOREM AdminsFallOnlyToARace == Spec => LastAdminFallsOnlyToARace
<1>1. Inv /\ [Next]_vars =>
          [\A w \in Workers :
              (/\ Commit(w)
               /\ \E u \in Ids : IsAdmin(account[u])
               /\ \A u \in Ids : ~IsAdmin(account'[u]))
                  => ~IsAdmin(account[actor[w]])]_vars
  <2> SUFFICES ASSUME Inv, NEW w \in Workers, Commit(w),
                      NEW u \in Ids, IsAdmin(account[u]), \A v \in Ids : ~IsAdmin(account'[v])
               PROVE  ~IsAdmin(account[actor[w]])
    OBVIOUS
  <2>1. /\ pc[w] = "commit" /\ Session(w) /\ Typed
        /\ account' = IF form[w].op = "act" THEN account
                      ELSE [account EXCEPT ![target[w]] = Result(w)]
    BY DEF Commit, Inv
  <2>2. form[w].op \in {"update", "act", "register", "bootstrap"}
    BY <2>1, Served DEF Session
  <2>3. u = target[w] /\ form[w].op # "act"
    BY <2>1, CommitRows
  <2>4. form[w].op = "update"
    <3>1. form[w].op \in {"register", "bootstrap"} => ~Exists(target[w])
      BY <2>1 DEF Session, Inserting, Pending
    <3> QED
      BY <2>2, <2>3, <3>1 DEF IsAdmin, Exists
  <2>5. target[w] # actor[w]
    <3>1. target[w] = actor[w] => Result(w) = account[target[w]]
      BY <2>1, <2>4, UpdatedRow
    <3> QED
      BY <2>1, <2>3, <2>4, <3>1 DEF Typed
  <2>6. actor[w] \in Ids
    BY <2>1, <2>4 DEF Session, Authorized, Reading
  <2>7. account'[actor[w]] = account[actor[w]]
    BY <2>5, <2>6, CommitRows
  <2> QED
    BY <2>6, <2>7
<1> QED
  BY <1>1, Invariance, PTL DEF Spec, LastAdminFallsOnlyToARace

=============================================================================
