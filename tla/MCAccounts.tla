---------------------------- MODULE MCAccounts ----------------------------
(* A small instance of Accounts: two administrators who may act on one       *)
(* another, a start of the application, and an address registered meanwhile. *)
EXTENDS Accounts, TLC

CONSTANTS w1, w2, w3, secret

MCLower == "Boss" :> "boss" @@ "boss" :> "boss" @@ "ann" :> "ann" @@ "bob" :> "bob"

Admin(email) == [email |-> email, password |-> secret, is_active |-> TRUE, role |-> "ADMIN"]

MCStart == 1 :> Admin("ann") @@ 2 :> Admin("bob") @@ 3 :> Unborn @@ 4 :> Unborn

Token(u, type) == [sub |-> u, type |-> type, role |-> "ADMIN"]

MCTokens == {Token(1, "access"), Token(2, "access"), Token(1, "refresh")}

Change(u, v, changes) ==
    [op |-> "update", token |-> Token(u, "access"), target |-> v, changes |-> changes]

MCForms ==
    {Change(1, 2, "role" :> "EMPLOYEE"), Change(2, 1, "is_active" :> FALSE),
     Change(2, 1, "is_active" :> TRUE), Change(2, 1, "role" :> "WAREHOUSE_MANAGER"),
     Change(1, 1, "role" :> "ADMIN"), Change(1, 1, "is_active" :> FALSE),
     Change(2, 1, "role" :> Null),
     [op |-> "act", token |-> Token(1, "access"), roles |-> {"ADMIN", "WAREHOUSE_MANAGER"}],
     [op |-> "act", token |-> Token(1, "refresh"), roles |-> UserRole],
     [op |-> "refresh", token |-> Token(1, "refresh")],
     [op |-> "login", email |-> "ann", password |-> secret],
     [op |-> "register", email |-> "Boss", password |-> secret],
     [op |-> "bootstrap"]}

SessionSymmetry == Permutations(Workers)

=============================================================================
