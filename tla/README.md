# Verification of StockFlow

StockFlow is an inventory and sales-order application: a FastAPI/SQLAlchemy
backend over PostgreSQL (`src/backend`) and a React client (`src/frontend`).
This directory holds TLA+ specifications of it, the TLC configurations that
check them on small instances, and proofs that TLAPS checks, for instances of
every size: of every invariant, every action property and both refinements that the
passing runs check. Only liveness is left to TLC alone.

| File | What it is |
| --- | --- |
| `StockBook.tla` | what stock and orders promise, every request one indivisible step |
| `MCStockBook.tla`, `.cfg` | its instance for TLC |
| `StockBookProofs.tla` | its invariants, proved for all constants |
| `StockTx.tla` | the same requests as concurrent database transactions; implements `StockBook` |
| `MCStockTx.tla`, `MCStockTx{Race,Life,Fair,Inactive}.cfg` | its instances for TLC |
| `StockTxProofs.tla` | its properties and its refinement, proved |
| `CatalogBook.tla` | what warehouses and products promise to the rows that refer to them |
| `CatalogTx.tla` | the requests that change and use the catalogue, as transactions under foreign keys and unique indexes; implements `CatalogBook` |
| `MCCatalogTx.tla`, `.cfg`, `MCCatalogTxFair.cfg` | its instances for TLC |
| `CatalogTxProofs.tla` | its properties and its refinement, proved |
| `Accounts.tla`, `MCAccounts.tla`, `.cfg` | users, tokens, and the check every route makes of its actor |
| `Listing.tla`, `MCListing.tla`, `.cfg` | the list endpoints, page by page and statement by statement |
| `ClientSession.tla`, `MCClientSession.tla`, `.cfg` | tokens, interceptors, the provider that asks who the user is, sign-in and sign-out of one browser page |
| `ClientCache.tla`, `MCClientCache.tla`, `.cfg`, `MCClientCacheProducts.cfg` | the query results a page keeps, and which mutation invalidates which |
| `AccountsProofs.tla`, `ListingProofs.tla`, `ClientSessionProofs.tla`, `ClientCacheProofs.tla` | the properties of these four, proved |
| `FiniteOrders.tla` | lemmas about strict orders of finite sets, for circles of waiting requests and for places in a list |
| `PROJECT.json` | components, runs, mutants, the map from definitions to source lines, hazards, findings, theorems |

## 1. The system

All paths are below `src/backend/app` unless they begin with `frontend`.

| Component | State | Operations | Interacts with |
| --- | --- | --- | --- |
| inventory (`inventory/`) | `inventory` rows: `quantity_on_hand`, `quantity_reserved` of a product in a warehouse, at most one row each; `stock_movements`, append-only | receive, adjust, transfer; lists | reads products and warehouses; shares its rows with orders |
| orders (`orders/`) | `orders` with a status and an author, `order_items` | create, confirm, process, ship, complete, cancel; lists | locks and writes inventory rows, appends movements, reads products and warehouses |
| products (`products/`) | `products`: SKU (unique), price, reorder level, `is_active` | create, update, deactivate; lists | checked by inventory and orders, referenced by their rows |
| warehouses (`warehouses/`) | `warehouses`: code (unique) | create, update, delete; lists | deletion counts inventory; foreign keys from inventory, movements, lines |
| users (`users/`, `core/bootstrap.py`) | `users`: e-mail (unique), role, `is_active` | register, update by an administrator, bootstrap of the first administrator | read by every request |
| authentication (`auth/`) | none: tokens are stateless | login, refresh, the check of a bearer token and of a role | reads users |
| database sessions (`core/database.py`) | one session per request, a connection pool | open, close (rolls back what is not committed) | every service |
| API client (`frontend/src/api`, `features/auth`) | tokens in local storage, the shared refresh promise | request, refresh and retry on 401, login, logout | the API |
| client cache (`frontend/src/features`) | query results, fresh for 30 s | queries, mutations that invalidate keys | the API |
| configuration, logging, error bodies, health, migrations; suppliers, purchase orders, notifications | none of their own; the last three are empty packages | | |

**What is hard.** There is no in-process shared state on the server: everything
that can go wrong goes wrong between transactions. Isolation is PostgreSQL's
READ COMMITTED. The services check the catalogue without locks, take
row locks with `SELECT ... FOR UPDATE`, compute new balances in Python from the
rows returned, and write absolute values at commit. A balance without a row
cannot be locked; it is inserted, and a unique constraint decides between
two inserts. Reservations live twice, as `quantity_reserved` and as the lines of
orders in certain statuses; stock lives twice, as balances and as the journal;
nothing in the code compares them. On the client, timeouts, retries and a token
refresh shared by several requests race with login and logout.

**What makes each part correct.**

- inventory: no update is lost, no CHECK constraint is ever hit, both halves of
  a transfer happen or neither, the journal adds up to the balances;
- orders: what is reserved is exactly what open orders ask for; a confirmed order
  can always be shipped or cancelled; each line is reserved once and settled once;
  an employee cancels only an own pending order;
- both together: no circular wait between requests, every request is answered;
- products, warehouses: no change for an inactive product; a warehouse in use is
  not deleted, and deletion and first use never both succeed;
- users: no two with one e-mail; what a request does, its actor had the right to do
  while it ran; the last active administrator goes only when two race;
- lists: a walk through the pages loses or repeats no more rows than moved meanwhile;
  a page agrees with its totals but for what was committed between its statements;
- client: a change is sent out once and carried out at most once, as the user who made
  it; the session is that of the last sign-in; every call is settled; what
  a page shows as fresh includes its own changes.

Several of these hold only with an exception, which the property then names: see
section 3. `PROJECT.json` lists the hazards behind them at their source lines, with the
properties that cover them, a note on what these do not promise, or the reason
none covers the hazard.

## 2. The modules

### StockBook: the promise

State: `on_hand`, `reserved` (per slot, a product/warehouse pair), `status` and
`lines` (per order) and `movements`. One action for each of the nine services
that write (`cancel_order` is the disjunction of its two branches), named as in
the code; a guard for each refusal, the journal rows it writes via `Record`.
A missing row is a zero balance here, which no handler can tell
from a row of zeros except by its error code. A refused request changes nothing and is not an
action. `RESERVATION_INVALID` is a guard (`CoversRelease`, `CoversShipment`),
so that the model does not assume what `ReservationsCover` states. The CHECK
constraints are *not* guards: `TypeOK` states that they are never hit. The
32-bit width of the columns is the guard `<= MaxInt` on what is added: such a
write fails in the database and is rolled back.

### StockTx: how it is done

The database: `row` (a balance or `Absent`), `status`, `lines`, `owner`,
`movements`, `active`, and the row locks `rowLock` and `orderLock`. The
sessions: each worker has a stage `pc`, a `form` (the request), the rows its
`SELECT ... FOR UPDATE` still has to lock (`wanted`) and the balances it has read
(`copy`).

| Action | Code |
| --- | --- |
| `Begin` | a route hands a validated request to a service in a new session |
| `ReadCatalogue` | `_require_product`, the product check of `create_order`; no lock |
| `LockOrder` | `_lock_order` (waits while another holds the order), then status and permission checks |
| `Select` | the `FOR UPDATE` query takes its snapshot: rows inserted later are not in it |
| `LockRow` | it locks one row at a time in `ORDER BY` order, waiting for the holder, and returns it as it is once locked |
| `Decide` | the checks of the service on what it locked (`Accepts`); overflow fails here |
| `Insert` | the flush that inserts a missing row: waits for an uncommitted rival, fails if it committed (`INVENTORY_CONFLICT`) |
| `CommitStock`, `CommitNewOrder` | balances, journal and status become visible together, locks go |
| `Abort` | process or connection lost at any stage: nothing remains |
| `SetActive` | a manager switches a product off or on |

`_commit_change` and both flushes of `transfer_stock` write inside one
transaction, so nobody sees the state between them; what others do feel, the wait on
an uncommitted insert, is `Insert`. The reload of the response after the
commit reads only and is left out.

`Book == INSTANCE StockBook` with `on_hand` and `reserved` read off the rows is the
refinement mapping; `ImplementsBook == Book!Spec`. Each commit must be a step of the
book that is enabled when it happens, and everything else must leave the book alone.
This is where lost updates, torn transfers and transitions on a stale status would show.

### CatalogBook and CatalogTx: references and unique keys

`CatalogBook` is the promise. State: `row` (a catalogue row, `Unborn` or `Deleted`),
`stocked` (the pairs that have an inventory row), `orders` (the unit price of each
line) and `offered` (the prices each product has ever had). Its actions are
`Create`, `Update` (a *subset* of the fields asked for is written, for the session
names only columns that differ from what it had read), `Delete`, `Stock` and `Order`.

`CatalogTx` is the same as transactions. No service takes a lock on a catalogue row; the
locks are the ones PostgreSQL takes by itself: `writer` for `UPDATE` and `DELETE`,
`sharers` for the `KEY SHARE` of a foreign key, `slotLock` for an inventory row. The
stages of a request:

    create           claim -> commit -> reload
    update    read -> write -> claim -> commit -> reload
    delete    read -> count -> write -> restrict -> (probe) | commit
    stock     read -> select -> lock -> insert -> refer -> commit -> reload
    order     read -> refer -> commit -> reload

| Action | Code |
| --- | --- |
| `Begin` | the schema trims a code or SKU and turns it to upper case (`Normalised`) |
| `Read` | the `SELECT`s on products and warehouses, each once per session: the identity map `seen` answers later ones |
| `Count` | `inventory_count` before a deletion |
| `Write` | the `UPDATE` of the changed columns, or the `DELETE`, once no conflicting lock is held |
| `Claim` | the unique index on code or SKU: waits for an uncommitted rival |
| `Restrict`, `Probe` | the foreign keys look for referring rows, lock the one found, and refuse |
| `Select`, `LockRow`, `Decide`, `Insert` | as in `StockTx`, reduced to which rows exist |
| `Refer` | each inserted row locks the warehouse and the product it refers to, which must be there |
| `Commit`, `Reload` | the changes become visible; the response reads them back in another transaction |
| `Victim` | the deadlock detector ends one of a circle of waiting requests |
| `Abort` | a balance refuses, or the connection is lost |

The order of foreign key checks and the lock modes are PostgreSQL's, and external in the map.
`Book == INSTANCE CatalogBook WITH Requests <- {Normalised(f) : f \in Forms}` is the
refinement; the other variables have the same names. The history `lived` collects the
catalogue rows committed while a request runs, for `ActsOnItsOwnTime`.

`StockTx` and `CatalogTx` share the stock requests. The first has their balances and
statuses over a fixed catalogue, the second the catalogue and the existence of their rows.
Every receipt, adjustment, transfer or new order is a request of both; `Abort` stands, in each, for
the refusals that only the other can see.

### Accounts

State: `account` (the rows), `writer` (an uncommitted change of one), `tokens` (the claims
of the tokens issued and not expired), and for each worker its request, actor, target and
identity map. `Authorize` is `get_current_user` with `require_roles`; `FindTarget` and
`Write` are `update_user` with its checks on oneself; `FindUser` and `Issue` are login and
refresh; `Claim` inserts under the unique e-mail, for `register` and, after `FindAdmin`, for
`bootstrap_admin`; `act` stands for any other protected route. A session reads its
actor once and never again, so `Authorize` to `Commit` is the window in which rights go stale;
`lived` is what the actor's account was in it.

### Listing

One reader walks the pages of one list while other requests commit. A query is a record
of the list, the column and direction it sorts by, the direction of the id as tie-breaker (or
none) and its filter; `AllQueries` is all that the endpoints accept. A page is
`FetchRows`, `AttachProducts` (`selectinload`), `CountRows`, `SumUp` and `TurnPage`, each
statement with its own snapshot. The commits are `InsertRow`, `InsertMovements` (those of one
request, with one `created_at`), `InsertTarget` (a transfer's new balance with the decrease of its
source), `ChangeRows` and `DeleteRow`. `Together` says which columns one commit can write at once:
those of one table, of the list's rows or of what they are joined with; an order's status only
moves on. The histories count the rows that left or came to a place in the list.

### ClientSession

One JavaScript event per action, with everything its settled promises start: `Submit` (the
request interceptor), `Serve` (the API), `Answered`, `GiveUp` (the ten-second timeout,
of which the server does not hear), `Reject` and `AwaitRefresh` (a 401), `RefreshGranted` and
`RefreshFails` (the shared `refreshPromise`), `SignIn`, `SignedIn`, `SignInFails`, `SignOut`,
`Reload`, `Reconnect`, `Expire`. `storage` is the local storage, `bearer[r]` the token a request
carries; `served[c]`, `asker[c]`, `owner` are histories of who did what for whom.

The page does not know its user from the tokens. `AuthProvider` asks `GET /auth/me`, a request
like any other that can meet a 401 and wait for the refresh, and shows what is answered:

| State | Code |
| --- | --- |
| `enabled` | `sessionExists`, as of the provider's last rendering (`Render`) |
| `asking` | the request whose answer the query `['auth', 'me']` waits for |
| `shown` | `currentUser.data`, as of the last rendering |
| `cached` | the query that the provider watches is still the one in the query client |

A page load (`Load`: by the user, or by a refresh that fails) begins with nobody shown and, if
there are tokens, one request on its way. `/login` can be used meanwhile. A sign-in sets the tokens
and the user and cancels nothing, so that an answer that comes later (`Learn`) shows the *former*
user beside the new one's tokens. A sign-out removes the query without a word to the provider: it
shows the former user until its next rendering, and `LoginPage` sends the page back (`path`
stays). What a change submitted from there can do is part of `ServedAsAsker`.

External, from TanStack Query: `removeQueries` cancels and tells no observer; `setQueryData` cancels
no fetch; a fetch ends in its own query; a reconnect asks again when the data is stale; what a
mutation reports makes the component that uses it render.

### ClientCache

Queries are known by the first element of their key. The server is a counter per resource of
the commits that change what its lists show; a cached result is the counter it was
computed at. `Writes(m)` and `Borrow(m)` say what each mutation of the pages changes, and
`Invalidates(m)`, page by page, which keys its `onSuccess` names. TanStack Query (mounting,
staleness, cancellation of a refetch but not of a first fetch, garbage collection) is external.

## 3. The runs

| Run | Instance | Shows |
| --- | --- | --- |
| `stock_book` | 1 product, 2 warehouses, 2 orders of one or two lines, quantities 1 and 2, `MaxInt` 2, 6 movements | the six properties of the book |
| `tx_race` | 3 workers, 5 requests: receipts, corrections up and down, transfers both ways, one order created, confirmed, cancelled | type, no stale copy, no circular wait, refinement |
| `tx_life` | 2 workers, 2 orders, 8 requests: every transition, a manager and an employee | refinement over whole lives; employee cancellations |
| `tx_fair` | 2 workers, 4 requests, fair scheduling | every request is answered |
| `tx_inactive` | 2 workers, 3 requests | **violation**: see Findings |
| `catalog` | 3 workers, 3 warehouses of which one is not created yet, a product; 3 of 13 requests | types and columns, references, unique keys, the age of what was read, deadlocks, refinement |
| `catalog_fair` | 2 workers, 3 of the 8 requests that can wait for one another, fair scheduling | every request is answered, deadlocks included |
| `accounts` | 3 workers, 2 administrators, 2 free ids; 4 of 13 requests | rights, e-mails, the last administrator |
| `listing` | 3 rows at first of 5 ids, values 0 and 1, pages of 2, 2 commits; every list in at least one order | pages against commits |
| `session` | 2 users, a change and one `GET /auth/me` at a time, sign-ins and page loads without bound | session, provider and calls, safety and liveness |
| `cache` | balances and movements, 2 mutations repeated at will, 2 commits per resource | what is fresh is current |
| `cache_products` | products and categories, 2 mutations | **violation**: see Findings |

Properties, and what each would catch:

- `TypeOK` (one per module): in the stock modules, a write the CHECK constraints refuse; in
  `CatalogTx`, a code or SKU stored as it was typed.
- `ReservedIsHeld`: `quantity_reserved` is the sum over confirmed and processing
  orders. A reservation leaked by a cancellation, or taken twice.
- `ReservationsCover`: no adjustment, transfer or other order takes reserved stock.
- `JournalExplainsStock`, `JournalExplainsReservations`: the journal adds up to the balances.
- `OrderJournal`: a line is reserved once, then released or shipped once, never both,
  in agreement with the status.
- `CopiesAreCurrent`: no session computes from a balance that has changed since.
- `NoWaitCycle`: in any set of workers one waits for nobody in the set.
- `ImplementsBook`: above.
- `EmployeesCancelOwnPending`: at the moment of commit, not only of the check.
- `Answered` (`StockTx`, `CatalogTx`): liveness; in the second through deadlocks.
- `ReferencesHold`: an inventory row or an order line whose warehouse was deleted in between. Hence
  the answer to a committed stock change or order can be read back; that to a change of a
  warehouse cannot always, for another request may delete it before the reload.
- `KeysUnique`: two rows with one code or SKU, in whatever spelling, whoever races.
- `ActsOnItsOwnTime`: a stock change or order that used a product or price from
  before it began, from a session or identity map that outlived its request. That the row is
  still the same at the commit does not hold: nothing locks it.
- `DeadlocksNeedExclusive`: a circle of requests none of which deletes or renames. Circles with one do exist.
- `ImplementsBook` (`CatalogTx`): two updates of one row that undo each other's columns; a
  price that was never offered; a request half done.
- `EmailsUnique`: an address registered while an instance starts, or two instances at once.
- `RightsHeld`: a role or activity from a token, or older than the request. As of the
  commit it does not hold: a demoted actor's request under way goes through.
- `LastAdminFallsOnlyToARace`: an administrator alone who removes the last one. Two who act on
  one another at once do leave none; the property says that this is the only way.
- `NobodyChangesThemself`: a role given back by a stale session.
- `WalkIsWhole`: rows passed over or shown twice beyond what moved. For users, who are listed by
  `created_at` without a tie-breaker, only while no two have the same time.
- `TotalCoversPage`, `LowStockAgrees`: a page that disagrees with its count, summary or filter
  by more than what was committed between the statements.
- `NeverTwice`: a change the client sends again after the server has carried it out. (A *user*
  who sends a timed-out change again does repeat it: there is no idempotency key.)
- `SessionIsLastSignIn`, `ServedAsAsker`: another user's or a former session's tokens, be it after a
  sign-out that leaves the former user shown. A refresh under way at a sign-in or sign-out does
  bring them back (`overtaken`); both except it. `ServedAsAsker` also excepts a session begun
  while `GET /auth/me` was unanswered (`outdated`), until the page is loaded again: open `/login`
  with Ann's tokens, sign in as Bob before her answer comes, and the page shows Ann and acts as Bob.
- `Settles`: a call that waits for a refresh forever.
- `FreshShowsOwnChanges`: a list shown as fresh without the page's own change. Two exceptions:
  `Lagging`, the movements after a receipt or correction, which the dialog does not
  invalidate; and `missed`, a first fetch under way that an invalidation does not cancel.

**Bounds.** `MaxInt`, `MaxMovements`, `MaxRequests` and the finite `Orders` are the
only bounds; each appears in a guard or an assumption. With quantities 1 and 2 and
`MaxInt` 2, a balance can be empty, partly and wholly reserved and at its limit; two
warehouses give transfers both ways and orders whose lines are listed against the
locking order; two orders compete for one balance. Six movements are enough for
two receipts, two reservations and their settlement; in `StockTx` the requests run out
before the journal does (`RequestsAssumption`), so `Record`'s bound never
hides a refinement error. Three workers are the least for a cycle longer than two and
for a third who inserts or commits while two wait. One product
suffices: no operation relates two products except an order with several lines, and
to the locks and sums such a line is another slot. Workers and orders are interchangeable in the
symmetric runs (`Spec` and the properties mention none by name; in `tx_race` only
workers are permuted since its requests name an order); the liveness runs use no symmetry.
Deadlock checking is off in the runs of requests and lists because they stop by design when requests, journal
entries or pages run out; that a *request* never hangs is `Answered`. `session` and the two
`cache` runs check for deadlock.

In `catalog` three requests are the least for a first receipt, a deletion and a third that
waits for one of them, or for a circle of three; the 13 kinds include two that take each
other's code, a code in lower case, both directions of a transfer and an update of two
fields of the product whose price an order copies. `catalog_fair` takes the kinds that can wait; two workers
with three requests give every circle of two, with a third request queued behind it. In
`accounts` the fourth request is there for a demotion that races with two requests of the
demoted. In `listing` two commits are enough for a row that leaves a page and one that comes to
another, five ids for a pair inserted between three, and two values for ties and for both sides
of a filter; `MCListing` picks a query for each way a list can
change, since queries that differ in the name of an ordinary column behave alike. In `session`
a change and a `GET /auth/me` are enough to share a refresh, to be answered out of order and to
meet two sessions, and two users for a wrong one; nothing else is bounded. (A second change gives
fifteen million states. The theorems hold for any number of either.)
In `cache` `MaxCommits` 2 lets another commit come before or after the page's own.

**Fairness.** `StockTx`'s `FairSpec` is strong fairness of `Step(w)`, the steps of one request.
The event loop resumes a task whose database answer arrived, and PostgreSQL queues
waiters of a row lock, so a waiter whose lock is free again and again gets it;
weak fairness would not express that queue. Nothing is assumed of arrivals, of
`Abort` or of `SetActive`. `CatalogTx` adds weak fairness of `Victim(w)`: the detector runs
after `deadlock_timeout` and ends a request of every circle that lasts. `ClientSession` assumes weak fairness of each
request's own handling, whose last resort is the timer of ten seconds, and of an answer or error for a
refresh. The client sends the refresh without a timeout, so that this is an
assumption about the network; without it `Settles` does not hold.

**Mutants.** For each property of each passing run `PROJECT.json` names a mutated
definition (a lock not taken, a forgotten rollback, a missing `ORDER BY`, an upsert, a
wrong sign, ...), defined next to the original and labelled as such, under which TLC
finds the property violated.

## 4. Findings

`docs/inventory.md:49`: "Inactive products cannot receive inventory changes." Only
receive, adjust, transfer and the creation of orders check `is_active`. Confirming,
shipping or cancelling an order writes the balances of its products without
looking. `tx_inactive` checks `InactiveStockIsFrozen` and finds an order confirmed
for a product that is switched off. (Whether the sentence or the code should
change is for the authors: shipping what was ordered before is sensible.) The
property allows a stock request already under way when its product is switched off;
such a request does commit, since the product row is read without a lock.

`docs/products.md:38`: "Successful create, update, and deactivate mutations invalidate product
and category queries." The deactivation in `frontend/src/features/products/ProductsPage.tsx:53` invalidates
only `['products']`. `cache_products` checks `ProductMutationsInvalidate` and finds a product
deactivated and the categories still valid. No wrong category is shown for it today, because
`list_categories` does not look at `is_active`.

## 5. Proofs

Every theorem is about `Spec` for all values of the constants that the named assumptions of
its module admit. Each module of proofs has an inductive invariant: that it holds at first,
that every step keeps it (one lemma per action), and that it implies the property. In most of
them it is a conjunction of what the tables hold and, for each worker, what its stage says it
has read and locked; two lemmas do most of the work, one for the worker that takes the
step and one, `Undisturbed`, for what a step of one leaves true of another.

| Module | Theorem | States |
| --- | --- | --- |
| `StockBookProofs` | `TypeCorrect` | `TypeOK` |
| | `ReservationsExact` | `ReservedIsHeld` |
| | `ReservationsSuffice` | `ReservationsCover` |
| | `JournalSound` | `JournalExplainsStock` |
| | `ReservationsJournalled` | `JournalExplainsReservations` |
| | `OrdersJournalled` | `OrderJournal` |
| `StockTxProofs` | `TypeCorrect`, `CopiesCurrent`, `WaitsEnd` | `TypeOK`, `CopiesAreCurrent`, `NoWaitCycle` |
| | `EmployeesCancel` | `EmployeesCancelOwnPending` |
| | `Implementation` | `ImplementsBook`: `Spec => Book!Spec` |
| | `ReservationsExactInTransactions`, `ReservationsSufficeInTransactions`, `JournalSoundInTransactions` | the five invariants of the book, of the transactions |
| `CatalogTxProofs` | `TypeCorrect`, `ReferencesKept`, `KeysNeverClash` | `TypeOK`, `ReferencesHold`, `KeysUnique` |
| | `OwnTime`, `DeadlocksAreExclusive` | `ActsOnItsOwnTime`, `DeadlocksNeedExclusive` |
| | `Implementation` | `ImplementsBook` |
| `AccountsProofs` | `TypeCorrect`, `EmailsNeverClash`, `RightsAreHeld` | `TypeOK`, `EmailsUnique`, `RightsHeld` |
| | `OnlyOthersChange`, `AdminsFallOnlyToARace` | `NobodyChangesThemself`, `LastAdminFallsOnlyToARace` |
| `ListingProofs` | `TypeCorrect`, `WalkWhole` | `TypeOK`, `WalkIsWhole` |
| | `TotalCovers`, `LowStockShown` | `TotalCoversPage`, `LowStockAgrees` |
| `ClientSessionProofs` | `TypeCorrect`, `CarriedOutOnce` | `TypeOK`, `NeverTwice` |
| | `LastSignInHolds`, `ServedAsShown` | `SessionIsLastSignIn`, `ServedAsAsker` |
| `ClientCacheProofs` | `TypeCorrect`, `FreshIsCurrent` | `TypeOK`, `FreshShowsOwnChanges` |

**StockBook.** `ReservationsCover` is not inductive: nothing in the state of one order prevents
another's cancellation from taking its share, unless `reserved` is known to be the *sum*.
A sum over a set is usually a recursive definition, about which the prover
cannot reason by induction. Here sums are cardinalities: `Units(S, count)` is the set of pairs
of an element and a number up to its count. An action that changes one
order adds or removes that order's units, a disjoint set of known size, so
`FS_Union` and its relatives give the new sum. `Flow` does the same for the rows of the
journal by sign: appending rows adds disjoint units, and each operation has one lemma for what
its rows add. The rows of an order add to one flow of reservations, the one of their type
(`FlowOrder`), and to that flow what the order asks of the slot; `SettledInv` is
`JournalExplainsReservations` with the finiteness of the flows.

`OrderJournal` is not inductive either: it admits a pending order whose lines were
once reserved and released, which a confirmation would reserve again. `OrderInv` says for each
status what the journal holds of each line: nothing (`Clean`), one
reservation (`Taken`), or one reservation and one later row that ended it (`Closed`), and
nothing at all of an order that does not exist.

**StockTx.** The invariant is `CopiesAreCurrent` with three things: a row or an order that a
session counts on is locked by it alone (`Exclusive`, `OrderHeld`, `RowsHeld`), what it has
decided still holds (`Decided`), and the journal has room left for every request that is still to
end (`JournalRoom`, without which the bound `MaxMovements` could refuse a step of the book
that the transaction takes). For the refinement each commit then finds the book's guards true on
the current balances, since they are the copies; every other step leaves the book as it is,
because `Insert` writes a row of zeros, which the book cannot tell from none. `NoWaitCycle`
rests on the order of the locks: what a session has locked comes before what it waits for
(`RowsHeld`), and of finitely many that wait for rows one waits for the last
(`HasTop`). Through `Implementation` the invariants of the book hold of the transactions, where they
say something that no handler could check by itself.

**CatalogTx.** `Referred` (what an inventory row or a line refers to is there) and `KeysDiffer` need
to know what the locks of PostgreSQL stand for. `Referring`: a
request that inserts has a `KEY SHARE` on each row it refers to, or is still to take it, and
such a row is live. `Writing`: a deletion past its checks holds the row's lock, and nothing refers to
it. `Exclusion`: the two locks exclude one another. `KeysClaimed`: whoever is about
to commit a code has it alone. `SeenOf` ties the identity map to `lived`, which gives
`ActsOnItsOwnTime` and, with `PricesOffered`, the price that an order copies. A circle of waiting
requests without a deletion or a renaming would consist of waits for inventory rows of
ever later warehouses.

**Accounts.** `Inserting` and `ClaimsDiffer` are the unique index: an uncommitted insert has an
address that no committed row and no other insert has. `Reading` says that a session's copy of its actor
is among the states the actor's account had while the request ran, and `Authorized` that it
was good enough for the stage the request is in; together they are `RightsHeld`. A last
administrator who falls to another's request means that this other was one when
authorized and is none now.

**Listing.** The order of the listed rows is strict, and total where the id breaks ties
(`ListedOrder`), so that a row's place is the number of rows before it (`RankPlaces`), and a page
read holds exactly the rows of its places (`FetchPlaces`). `WalkIsWhole` is about the end of a walk;
inductively, while it lasts, of the rows that stayed and are in the places walked so far at most `left` have not
been shown (`FewPassedOver`), and the repetitions so far *plus the rows shown that now are in places
still to be walked* are at most `came` (`FewRepeated`). That a commit keeps these are the two
lemmas of `FiniteOrders` about a list before and after a change. `FirstAfter`: a kept row moves up by
no more places than rows left, so those that get into the first `o` places had as many different places
just behind them. `LastAfter`: of the first `o` places after the change, those taken by rows that came push
kept rows behind, no more than they are. The list of users has no tie-breaker:
there, `OneOrderIsTotal` shows that a state with only one order has no ties, by swapping two tied rows, and
what was shown stays free of ties because rows are only added.

**ClientSession, ClientCache.** `Once` and `OwnSession` say for each call what its stage implies of the server and
of whose token it carries. `ServedAsAsker` is about what is shown, which is not the storage's: `ShownIsOwner`
says that while no refresh was overtaken and no answer outdated, the page shows who signed in last or nobody,
and the answer it waits for will be about the same user. A page load keeps this because it asks with the
stored tokens, which by `SessionIsLastSignIn` are that user's. `Committed` and `Current` bound what was reported and what is cached or on its way by
the commits of the server; `WritesInvalidated` is the fact about the pages' `onSuccess` handlers that
`FreshShowsOwnChanges` rests on.

**Assumptions.** They are the `ASSUME`s of the models, which TLC evaluates in every run: what the
schemas enforce of a request (`QuantitiesAssumption`, `OrderFormsAssumption`, the `FormsAssumption`s, `QueriesAssumption`);
ids and values are numbers; finitely many sessions (`SessionsAssumption`, `CatalogSessionsAssumption`) and, for the
counts of `Listing`, finitely many ids; tables to begin with that their constraints admit
(`CatalogStartAssumption`, `AccountsStartAssumption`); normal forms are their own (`NormalAssumption`, `LowerAssumption`);
bounds are numbers, and in `StockTx` the journal is long enough for the requests (`RequestsAssumption`); and model values that
mark an absence are none of the values they stand beside. `StockBookProofs`
assumes nothing finite: its invariants carry the finiteness of the sets they count.

**Only model-checked.** Both `Answered` and `Settles` are liveness under fairness, which is out of the
prover's reach. The two expected violations are counterexamples.

## 6. Not modelled

- Names, notes, order numbers, dates and the text of errors, on which no property depends.
  A date is one of a few values of a column in `Listing`; the formats of a date range are left out.
- Password hashing and the encoding of tokens: a password matches or not, a token was
  issued here and has not expired or is refused.
- The connection pool: each worker has a connection, so that requests that wait for one while others
  hold it and wait for row locks are the one hazard without a property.
- `StockTx` has neither foreign keys nor a deadlock detector. `NoWaitCycle` shows that row locks alone never
  need one; `CatalogTx` has both.
- A warehouse that a movement refers to and no inventory row does: inventory rows are never
  deleted, so a movement's warehouse always has one.
- Several tabs over one local storage: `ClientSession` is one page. A second tab changes
  the storage under the first, which amounts to sign-ins and refreshes that `owner` does
  not know of; the code makes no attempt at keeping tabs in step.
- What other cached queries show after a sign-out: `AuthContext.tsx:38` removes only `['auth']`, and
  `ClientCache` is one user's page.
- A mutation that timed out on the client and was committed invalidates nothing (`Fail`); no
  property asks it to.
- Rendering, forms, routing beyond the login page; logging, health, error bodies; upgrading and
  downgrading a database in use. Suppliers, purchase orders and notifications are empty packages.

## 7. Plan

Every component with state of its own has its module, and every invariant and action property of
the passing runs its theorem. What could follow:

1. invariants of `CatalogBook` itself, inherited through `Implementation` as those of the stock book are:
   a line's price was once offered, what a line refers to was never deleted;
2. a theorem that combines `StockTx` and `CatalogTx`, whose stock requests are the same: so far each
   covers the other's refusals by `Abort`;
3. several browser tabs over one local storage, which `ClientSession` leaves out.
