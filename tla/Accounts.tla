------------------------------ MODULE Accounts ------------------------------
(***************************************************************************)
(* The accounts of StockFlow: registration, login, token refresh, the      *)
(* administrator's changes of roles and activity, the administrator that   *)
(* an installation starts with, and the check every protected route makes  *)
(* before it acts.  Requests are concurrent READ COMMITTED transactions,    *)
(* each in a session of its own whose identity map keeps the accounts it    *)
(* has read: what a request knows of its actor is what it read first.       *)
(*                                                                         *)
(*   register, bootstrap    (find ->) claim -> commit                      *)
(*   login, refresh         find -> issue                                  *)
(*   update                 authorize -> find -> write -> commit           *)
(*   act (any other route)  authorize -> commit                            *)
(***************************************************************************)
EXTENDS Integers, FiniteSets

CONSTANTS
    Ids,            \* users.id
    Start,          \* the accounts to begin with
    StartTokens,    \* and their tokens
    Unborn,         \* an id that has no account yet
    Forms,          \* the requests that may arrive
    Lower,          \* the stored form of each email that may be typed
    Passwords,      \* the passwords that may be typed
    AdminEmail,     \* BOOTSTRAP_ADMIN_EMAIL, as typed
    AdminPassword,  \* BOOTSTRAP_ADMIN_PASSWORD
    Null,           \* null in the body of a request
    Workers,        \* sessions that serve requests concurrently
    Nobody,         \* no worker: an account nobody is changing
    NoForm,         \* the request of an idle worker
    NoId,           \* no account
    MaxRequests     \* bound: so many requests arrive

UserRole == {"ADMIN", "WAREHOUSE_MANAGER", "EMPLOYEE"}

\* The emails in their stored form, and the row of an account.
Stored == {Lower[text] : text \in DOMAIN Lower}

UserRow == [email : Stored, password : Passwords, is_active : BOOLEAN, role : UserRole]

TokenClaims == [sub : Ids, type : {"access", "refresh"}, role : UserRole]

\* A stored email is its own stored form.
ASSUME LowerAssumption ==
    \A text \in DOMAIN Lower : Lower[text] \in DOMAIN Lower /\ Lower[Lower[text]] = Lower[text]

\* The setting of the first administrator.
ASSUME AdminAssumption == AdminEmail \in DOMAIN Lower /\ AdminPassword \in Passwords

\* The accounts to begin with are rows of the table, and its unique index holds.
ASSUME AccountsStartAssumption ==
    /\ Start \in [Ids -> UserRow \cup {Unborn}]
    /\ \A u, v \in Ids :
           u # v /\ Start[u] # Unborn /\ Start[v] # Unborn => Start[u].email # Start[v].email
    /\ StartTokens \subseteq TokenClaims

\* A mark is none of what it stands beside.
ASSUME AccountsMarksAssumption ==
    Unborn \notin UserRow /\ Nobody \notin Workers /\ NoForm \notin Forms /\ NoId \notin Ids

ASSUME AccountsBoundAssumption == MaxRequests \in Nat

VARIABLES
    (* the database *)
    account,    \* the row of each id, or Unborn
    writer,     \* who has changed an account, not yet committed
    (* outside *)
    tokens,     \* the tokens that have been issued and have not expired
    (* the sessions *)
    pc,         \* stage of each worker
    form,       \* the request it serves
    actor,      \* the account its token names
    target,     \* the account it reads, writes or creates
    seen,       \* identity map: the accounts its session has read
    lived,      \* history: the states of the actor's account while it ran
    begun       \* how many requests have arrived

session == <<pc, form, actor, target, seen, lived>>
vars == <<account, writer, tokens, pc, form, actor, target, seen, lived, begun>>

Exists(u) == account[u] # Unborn

IsAdmin(a) == a # Unborn /\ a.is_active /\ a.role = "ADMIN"

----------------------------------------------------------------------------
(* Requests: the bodies the schemas admit.  A role is never among what is     *)
(* registered.                                                               *)

RegisterRequest(f) ==
    f.op = "register" /\ f.email \in DOMAIN Lower /\ f.password \in Passwords

LoginRequest(f) == f.op = "login" /\ f.email \in DOMAIN Lower

RefreshRequest(f) == f.op = "refresh" /\ f.token \in TokenClaims

\* A change names a field.  It may name it with null, which no column takes.
UserUpdate(f) ==
    /\ f.op = "update"
    /\ f.token \in TokenClaims
    /\ f.target \in Ids
    /\ DOMAIN f.changes \in (SUBSET {"role", "is_active"}) \ {{}}
    /\ "role" \in DOMAIN f.changes => f.changes.role \in UserRole \cup {Null}
    /\ "is_active" \in DOMAIN f.changes => f.changes.is_active \in BOOLEAN \cup {Null}

\* Any other route, with the roles it requires.
RouteRequest(f) ==
    /\ f.op = "act"
    /\ f.token \in TokenClaims
    /\ f.roles \subseteq UserRole

BootstrapRequest(f) == f.op = "bootstrap"

ASSUME AccountsFormsAssumption ==
    \A f \in Forms :
        \/ RegisterRequest(f) \/ LoginRequest(f) \/ RefreshRequest(f)
        \/ UserUpdate(f) \/ RouteRequest(f) \/ BootstrapRequest(f)

\* The email a request is about, as it is stored and looked up.
EmailOf(f) == IF f.op = "bootstrap" THEN Lower[AdminEmail] ELSE Lower[f.email]

\* The account with that email.
AccountsWith(email) == {u \in Ids : Exists(u) /\ account[u].email = email}

\* A new account.
NewAccount(f) ==
    [email |-> EmailOf(f), is_active |-> TRUE,
     password |-> IF f.op = "bootstrap" THEN AdminPassword ELSE f.password,
     role |-> IF f.op = "bootstrap" THEN "ADMIN" ELSE "EMPLOYEE"]

----------------------------------------------------------------------------
(* Sessions *)

Goto(w, stage) == pc' = [pc EXCEPT ![w] = stage]

\* The session ends, whatever became of the request.
Close(w) ==
    /\ Goto(w, "idle")
    /\ form' = [form EXCEPT ![w] = NoForm]
    /\ actor' = [actor EXCEPT ![w] = NoId]
    /\ target' = [target EXCEPT ![w] = NoId]
    /\ seen' = [seen EXCEPT ![w] = <<>>]
    /\ writer' = [u \in Ids |-> IF writer[u] = w THEN Nobody ELSE writer[u]]

\* An error response: nothing of the request remains.
Rollback(w) ==
    /\ Close(w)
    /\ lived' = [lived EXCEPT ![w] = {}]
    /\ UNCHANGED <<account, tokens, begun>>

FirstStage(f) ==
    CASE f.op \in {"update", "act"} -> "authorize"
      [] f.op = "register" -> "claim"
      [] OTHER -> "find"

\* A request arrives.  The history of its actor starts here.
Begin(w, f) ==
    /\ pc[w] = "idle"
    /\ begun < MaxRequests
    /\ Goto(w, FirstStage(f))
    /\ form' = [form EXCEPT ![w] = f]
    /\ actor' = [actor EXCEPT ![w] = IF f.op \in {"update", "act", "refresh"} THEN f.token.sub ELSE NoId]
    /\ lived' = [lived EXCEPT ![w] =
           IF f.op \in {"update", "act", "refresh"} THEN {account[f.token.sub]} ELSE {}]
    /\ begun' = begun + 1
    /\ UNCHANGED <<account, writer, tokens, target, seen>>

\* The identity map once the session has read an account: a row it has already
\* stays as it was.
WithRead(w, u) ==
    [x \in DOMAIN seen[w] \cup {u} |-> IF x \in DOMAIN seen[w] THEN seen[w][x] ELSE account[x]]

\* decode_token: the token was issued here and has not expired.
Accepted(token, type) == token \in tokens /\ token.type = type

\* Mutant: what the token says of the role is believed.
AuthorizeByClaim(w) ==
    LET f == form[w]
        u == f.token.sub
    IN
    /\ pc[w] = "authorize"
    /\ IF /\ Accepted(f.token, "access")
          /\ Exists(u)
          /\ f.token.role \in (IF f.op = "update" THEN {"ADMIN"} ELSE f.roles)
       THEN /\ seen' = [seen EXCEPT ![w] = WithRead(w, u)]
            /\ Goto(w, IF f.op = "update" THEN "find" ELSE "commit")
            /\ UNCHANGED <<account, writer, tokens, form, actor, target, lived, begun>>
       ELSE Rollback(w)

\* get_current_user, then require_roles: one SELECT of the actor's account, which
\* must be active (401) and have a role of the route (403).
Authorize(w) ==
    LET f == form[w]
        u == f.token.sub
    IN
    /\ pc[w] = "authorize"
    /\ IF /\ Accepted(f.token, "access")
          /\ Exists(u) /\ account[u].is_active
          /\ account[u].role \in (IF f.op = "update" THEN {"ADMIN"} ELSE f.roles)
       THEN /\ seen' = [seen EXCEPT ![w] = WithRead(w, u)]
            /\ Goto(w, IF f.op = "update" THEN "find" ELSE "commit")
            /\ UNCHANGED <<account, writer, tokens, form, actor, target, lived, begun>>
       ELSE Rollback(w)

----------------------------------------------------------------------------
(* The administrator's changes *)

\* An administrator does not deactivate or demote themselves.
ChangesSelf(w, rows) ==
    LET f == form[w] IN
    /\ f.target = actor[w]
    /\ \/ "is_active" \in DOMAIN f.changes /\ f.changes.is_active = FALSE
       \/ /\ "role" \in DOMAIN f.changes
          /\ f.changes.role \notin {Null, rows[f.target].role}

\* Mutant: the check on oneself is left out.
FindTargetUnchecked(w) ==
    LET u == form[w].target IN
    /\ pc[w] = "find" /\ form[w].op = "update"
    /\ IF ~Exists(u)
       THEN Rollback(w)
       ELSE /\ seen' = [seen EXCEPT ![w] = WithRead(w, u)]
            /\ target' = [target EXCEPT ![w] = u]
            /\ Goto(w, "write")
            /\ UNCHANGED <<account, writer, tokens, form, actor, lived, begun>>

\* update_user reads the account to change, unless it is the actor's, which the
\* session has read, and makes its checks.
FindTarget(w) ==
    LET u == form[w].target
        rows == WithRead(w, u)
    IN
    /\ pc[w] = "find" /\ form[w].op = "update"
    /\ IF ~Exists(u) \/ ChangesSelf(w, rows)
       THEN Rollback(w)
       ELSE /\ seen' = [seen EXCEPT ![w] = rows]
            /\ target' = [target EXCEPT ![w] = u]
            /\ Goto(w, "write")
            /\ UNCHANGED <<account, writer, tokens, form, actor, lived, begun>>

\* Mutant: the UPDATE names every column of the request.
WrittenAsAsked(w) == DOMAIN form[w].changes

\* The columns its UPDATE names: those that differ from what the session has read.
Written(w) ==
    {x \in DOMAIN form[w].changes : form[w].changes[x] # seen[w][target[w]][x]}

\* Mutant: the columns take null.
WriteNull(w) ==
    LET u == target[w] IN
    /\ pc[w] = "write"
    /\ Written(w) # {} => writer[u] = Nobody
    /\ writer' = IF Written(w) = {} THEN writer ELSE [writer EXCEPT ![u] = w]
    /\ Goto(w, "commit")
    /\ UNCHANGED <<account, tokens, form, actor, target, seen, lived, begun>>

\* The UPDATE waits for the row.  A null is an error of the database, and of the
\* server (500).  An update that changes nothing is no statement.
Write(w) ==
    LET u == target[w] IN
    /\ pc[w] = "write"
    /\ IF \E x \in Written(w) : form[w].changes[x] = Null
       THEN Rollback(w)
       ELSE /\ Written(w) # {} => writer[u] = Nobody
            /\ writer' = IF Written(w) = {} THEN writer ELSE [writer EXCEPT ![u] = w]
            /\ Goto(w, "commit")
            /\ UNCHANGED <<account, tokens, form, actor, target, seen, lived, begun>>

----------------------------------------------------------------------------
(* Login, refresh, registration and the first administrator *)

\* get_by_email and the password; or decode_token and get_by_id.
LoginFinds(f) ==
    {u \in AccountsWith(EmailOf(f)) : account[u].password = f.password /\ account[u].is_active}

RefreshFinds(f) ==
    {u \in Ids : /\ Accepted(f.token, "refresh")
                 /\ u = f.token.sub
                 /\ Exists(u) /\ account[u].is_active}

FindUser(w) ==
    LET found == IF form[w].op = "login" THEN LoginFinds(form[w]) ELSE RefreshFinds(form[w]) IN
    /\ pc[w] = "find" /\ form[w].op \in {"login", "refresh"}
    /\ IF found = {}
       THEN Rollback(w)
       ELSE \E u \in found :
               /\ seen' = [seen EXCEPT ![w] = WithRead(w, u)]
               /\ target' = [target EXCEPT ![w] = u]
               /\ Goto(w, "issue")
               /\ UNCHANGED <<account, writer, tokens, form, actor, lived, begun>>

\* The token pair of an account as the session has read it.
TokenPair(u, a) == {[sub |-> u, type |-> type, role |-> a.role] : type \in {"access", "refresh"}}

Issue(w) ==
    /\ pc[w] = "issue"
    /\ tokens' = tokens \cup TokenPair(target[w], seen[w][target[w]])
    /\ Close(w)
    /\ lived' = [lived EXCEPT ![w] = {}]
    /\ UNCHANGED <<account, begun>>

\* bootstrap_admin leaves an account with its email alone, whatever it is.
FindAdmin(w) ==
    /\ pc[w] = "find" /\ form[w].op = "bootstrap"
    /\ IF AccountsWith(EmailOf(form[w])) # {}
       THEN Rollback(w)
       ELSE /\ Goto(w, "claim")
            /\ UNCHANGED <<account, writer, tokens, form, actor, target, seen, lived, begun>>

\* The accounts being inserted with an email, not yet committed.
Registering(email) ==
    {u \in Ids : ~Exists(u) /\ writer[u] # Nobody /\ EmailOf(form[writer[u]]) = email}

\* Mutant: the email is not unique in the table.
ClaimAnyway(w) ==
    /\ pc[w] = "claim"
    /\ \E u \in Ids :
          /\ account[u] = Unborn /\ writer[u] = Nobody
          /\ target' = [target EXCEPT ![w] = u]
          /\ writer' = [writer EXCEPT ![u] = w]
    /\ Goto(w, "commit")
    /\ UNCHANGED <<account, tokens, form, actor, seen, lived, begun>>

\* The INSERT: the unique index waits for another insert of the same email, and
\* refuses an email in use (EMAIL_ALREADY_REGISTERED; the script stops with an error).
Claim(w) ==
    LET email == EmailOf(form[w]) IN
    /\ pc[w] = "claim"
    /\ Registering(email) = {}
    /\ IF AccountsWith(email) # {}
       THEN Rollback(w)
       ELSE /\ \E u \in Ids :
                  /\ account[u] = Unborn /\ writer[u] = Nobody
                  /\ target' = [target EXCEPT ![w] = u]
                  /\ writer' = [writer EXCEPT ![u] = w]
            /\ Goto(w, "commit")
            /\ UNCHANGED <<account, tokens, form, actor, seen, lived, begun>>

----------------------------------------------------------------------------
\* What the request has made of its account.
Result(w) ==
    LET row == account[target[w]]
        changes == form[w].changes
    IN
    IF form[w].op = "update"
    THEN [email |-> row.email, password |-> row.password,
          is_active |-> IF "is_active" \in Written(w) THEN changes.is_active ELSE row.is_active,
          role |-> IF "role" \in Written(w) THEN changes.role ELSE row.role]
    ELSE NewAccount(form[w])

Commit(w) ==
    /\ pc[w] = "commit"
    /\ account' = IF form[w].op = "act" THEN account
                  ELSE [account EXCEPT ![target[w]] = Result(w)]
    /\ Close(w)
    /\ lived' = [v \in Workers |->
           IF v = w \/ actor[v] = NoId THEN {} ELSE lived[v] \cup {account'[actor[v]]}]
    /\ UNCHANGED <<tokens, begun>>

\* The server process or its connection goes away, or a statement is cancelled.
Abort(w) ==
    /\ pc[w] # "idle"
    /\ Rollback(w)

\* A token runs out.
Expire(token) ==
    /\ token \in tokens
    /\ tokens' = tokens \ {token}
    /\ UNCHANGED <<account, writer, session, begun>>

Init ==
    /\ account = Start
    /\ writer = [u \in Ids |-> Nobody]
    /\ tokens = StartTokens
    /\ pc = [w \in Workers |-> "idle"]
    /\ form = [w \in Workers |-> NoForm]
    /\ actor = [w \in Workers |-> NoId]
    /\ target = [w \in Workers |-> NoId]
    /\ seen = [w \in Workers |-> <<>>]
    /\ lived = [w \in Workers |-> {}]
    /\ begun = 0

Step(w) ==
    \/ Authorize(w)
    \/ FindTarget(w)
    \/ Write(w)
    \/ FindUser(w)
    \/ Issue(w)
    \/ FindAdmin(w)
    \/ Claim(w)
    \/ Commit(w)

Next ==
    \/ \E w \in Workers :
          \/ \E f \in Forms : Begin(w, f)
          \/ Step(w)
          \/ Abort(w)
    \/ \E token \in tokens : Expire(token)

Spec == Init /\ [][Next]_vars

----------------------------------------------------------------------------
(* Properties *)

(***************************************************************************)
(* Variables are typed.                                                    *)
(***************************************************************************)
TypeOK ==
    /\ account \in [Ids -> UserRow \cup {Unborn}]
    /\ writer \in [Ids -> Workers \cup {Nobody}]
    /\ tokens \subseteq TokenClaims
    /\ \A w \in Workers :
          /\ pc[w] \in {"idle", "authorize", "find", "claim", "write", "issue", "commit"}
          /\ pc[w] = "idle" <=> form[w] = NoForm
          /\ pc[w] \in {"write", "issue"} => target[w] \in DOMAIN seen[w]

(***************************************************************************)
(* No two accounts have one email, however it is typed and whoever         *)
(* registers it: two people, or two instances of the application that both *)
(* find no administrator when they start.                                  *)
(***************************************************************************)
EmailsUnique ==
    \A u, v \in {x \in Ids : Exists(x)} :
        u # v => Lower[account[u].email] # Lower[account[v].email]

(***************************************************************************)
(* docs/authentication.md: "role changes and deactivation take effect      *)
(* without waiting for token expiry": what a request does, its actor had   *)
(* the right to do at some time while the request ran.  (Not at its commit: *)
(* nothing keeps the actor's account as it was.)                           *)
(***************************************************************************)
RightsHeld ==
    \A w \in Workers :
        /\ pc[w] = "commit" /\ form[w].op = "update" => \E a \in lived[w] : IsAdmin(a)
        /\ pc[w] = "commit" /\ form[w].op = "act" =>
               \E a \in lived[w] : a # Unborn /\ a.is_active /\ a.role \in form[w].roles
        /\ pc[w] = "issue" /\ form[w].op = "refresh" =>
               \E a \in lived[w] : a # Unborn /\ a.is_active

(***************************************************************************)
(* The last administrator goes only in a race: whoever takes their rights  *)
(* has lost their own since they were authorized.  One administrator alone *)
(* cannot leave the system without any.                                    *)
(***************************************************************************)
LastAdminFallsOnlyToARace ==
    [][\A w \in Workers :
          (/\ Commit(w)
           /\ \E u \in Ids : IsAdmin(account[u])
           /\ \A u \in Ids : ~IsAdmin(account'[u]))
              => ~IsAdmin(account[actor[w]])]_vars

(***************************************************************************)
(* Nobody changes their own role or activity, not even back: an            *)
(* administrator who is demoted while their request runs stays demoted.    *)
(***************************************************************************)
NobodyChangesThemself ==
    [][\A w \in Workers :
          (Commit(w) /\ form[w].op = "update" /\ target[w] = actor[w])
              => account'[actor[w]] = account[actor[w]]]_vars

=============================================================================
