# A TLA+ model of classic-models-api

The Classic Models API is a Django REST service over a MySQL database: a
catalogue of products with their stock, orders with their lines, payments and
customers. What it writes it announces, through an outbox table that a relay
publishes to Kafka. These modules model the parts in which several actors meet
in one table, a set of files or a git remote, and the access rules that are
written down more than once; TLC checks them on small instances, and TLAPS
proves every safety property of theirs for all values of the constants. Paths below are relative to `src/`.

## The system

| Part | State | Operations | Meets others in |
|---|---|---|---|
| Catalogue: `ProductViewSet`, `OrderdetailViewSet` (`api/v1/classicmodels/views.py`), `commit_stock` (`events/stock.py`) | tables `products`, `orderdetails` | POST, PUT/PATCH, DELETE of each | the row of a product: a line locks it, an edit does not |
| Events: `events/emit.py`, `events/models.py` | table `outbox_event` | `emit` and the six event functions | written in the transactions of the views |
| Relay: `events/management/commands/publish_outbox.py`, one Deployment, and `--once` by hand | `published_at`, `publish_attempts`, the producer's queue | poll, produce, flush, mark | polls what the API committed; Kafka |
| Sales: `OrderViewSet`, `PaymentViewSet`, `CustomerViewSet`, `EmployeeViewSet`, `OfficeViewSet`, `ProductLineViewSet` | `orders`, `payments`, and the plain tables `customers`, `employees`, `offices`, `productlines` | POST, PUT/PATCH, DELETE of each | foreign keys, `DO_NOTHING` in Django |
| Users: `authentication/oidc_auth.py`, `signup_view` and `RegisterSerializer` | `auth_user`, `authentication_externalidentity`, `auth_user_groups` | `get_user`, at every request with such a token; POST /signup | unique names and subjects |
| Rate limits: `config/throttles.py` | a cache in every gunicorn worker | `allow_request`, `wait` | nobody: that is the point of interest |
| Permissions: `authentication/permissions.py`, `get_queryset` and `get_object` of the views, their lists under an object | none | functions of user, method and owner | one rule, three encodings |
| Backlog gauge, worker hooks (`events/metrics.py`, `config/gunicorn.py`) | files in `PROMETHEUS_MULTIPROC_DIR`, one per worker | count, set; start, exit | workers that die; the master |
| Release script (`scripts/version_manager.py`) | a clone and its origin | one command of many steps | other releasers |
| Login, refresh, logout | SimpleJWT's blacklist | calls into SimpleJWT | |
| Settings, migrations, middleware, chart, docs, seed data | configuration | | |

What is hard here: three gunicorn workers and any number of pods run views at
once; a view is several statements, and some of what it read is old when it
writes; a worker may be killed between two statements (`--timeout`); the relay
may crash between Kafka's acknowledgement and its UPDATE, its flush may give up,
a delivery may fail and another not, and someone may run `--once` beside it; a
worker that died leaves its figures behind; a release is a row of commands, each of
which may fail. What
each part must keep to is listed under `hazards` in PROJECT.json, by line, with
the property that would catch it going wrong.

## How the code is modelled

The database is InnoDB under READ COMMITTED (Django's default for MySQL). Tables
hold committed rows. What a transaction has written lives with its request
(`job`, `seen`, `events`; `wrote` and `name` in Identity) and reaches the tables
in the step that commits. A plain SELECT reads the committed tables; a statement
that needs a row another transaction has written, or has locked, has the absence
of such a transaction as its guard, which is the wait. Each statement that
reads or writes is one action, so every interleaving of statements is a
behaviour. `Abort` may end any transaction: a killed worker, a deadlock victim, a
lost connection. AUTO_INCREMENT ids are allocated at the INSERT and are not given
back.

A request is served once and its `pc` is the statement it runs next, or its
answer. Data is what the properties tell apart: a product is its stock and
price, a line its product, order and quantity, an order its customer and status.

| Module | Models | Correspondence |
|---|---|---|
| `CatalogEvents` | the product events of `emit.py` | one operator per event function, with its name |
| `Catalog` | products, order lines, stock | `LockStock`, `TakeStock`, `SaveLine` are `commit_stock` and `perform_create`; `ProductUpdate`, `RereadProduct`, `WriteProduct`, `Commit` are an update with its two reads |
| `StockLedger` | what the catalogue promises of stock | a figure per product, moved only by an entry that starts from it |
| `OutboxRelay` | `Command.handle`, `_drain` and the producer | `Settle` ends the rows of one transaction of the API, all as one, those of a key in the order of their ids unless the key is one of `LooseKeys` (payments', which no row lock orders); `Poll` (the oldest pending rows, a batch at most), `Produce`, `Store`, `BrokerStores`/`BrokerFails` (reports), `Mark`, `Exit`; faults `Signal`, `Crash`, `Launch` (of a run by hand); `Restart` is the Deployment |
| `AtLeastOnce` | what the outbox promises consumers | rows settle, are delivered, and only then published |
| `Pipeline` | Catalog, OutboxRelay and a consumer over one outbox | `Api` puts rows where the relay polls at the commit |
| `Sales` | orders, payments and the plain tables | as Catalog, with shared locks on the rows foreign keys refer to; `rows` maps a key to the keys its row refers to, and `RowCreate` ... `DeleteRow` are the methods of `ModelViewSet` that four views take as they are |
| `SalesHistory` | Sales with a history variable | `had`: the statuses the order of an edit has had since `perform_update` read `was_status`; no action reads it |
| `Access` | permission classes, querysets, lists under an object | `Check`, `HasPermission`, `HasObjectPermission` and `InQueryset` are `check`, `has_permission`, `has_object_permission` and `get_queryset`, a parameter naming the view; no variables |
| `SalesAccess` | Sales under Access | `RowsServed`: each committed row with its view and owner |
| `Identity` | `OIDCJWTAuthentication.get_user`, `signup_view` | one action per query of `get_user`, `_unique_username`, `_sync_roles`; `ValidateSignUp` and `InsertSignUp` are those of a sign-up |
| `Throttle` | the throttles of a view | `Peek` and `Show` are `DemoRateLimitThrottle.allow_request` around its parent's; `Checks` is what ReadThrottle and WriteThrottle skip |
| `Backlog` | the gauge of unpublished events | `OnStarting`, `ChildExit`, `Fork` are the hooks of `gunicorn.py`; `Count` and `Set` the two halves of `refresh_outbox_unpublished_gauge`; `Gauge` is what a scrape merges |
| `Release` | `VersionManager.version` | an action per git command, on HEAD, which is main or a branch beside it; a clone keeps what a failed run has left; `reports` keeps what `version()` has printed at its end; beside the script people pull, restore and check out |
| `CatalogProofs`, `SalesProofs`, `RelayProofs`, `PipelineProofs`, `IdentityProofs`, `ThrottleProofs`, `BacklogProofs`, `ReleaseProofs` | the theorems about Catalog with StockLedger, about Sales with Access, and about the others | |
| `MC*` | instances for TLC | |

Definitions named "Mutant of ..." are wrong forms of the definition that follows
them, each a plausible slip in the code, kept to show that the property they
break is one the code has to work for. `map` in PROJECT.json names the lines of
every definition. InnoDB, librdkafka, Kafka, DRF and the consumer are modelled
from how the code uses them and marked external.

## What the runs check

| Run | Question | Bounds |
|---|---|---|
| `CatalogWrites` | with all six endpoints at once: is what a line reads under its lock current, does every event commit with its change and no other, is every take exact, do ids follow commits? | 3 requests, 2 products, stock to 2, one order with a line |
| `CatalogLedger` | without the edit of a product: does Catalog refine StockLedger, and is the last event the stock? | 3 requests on 1 product, 2 orders, returns and sales |
| `RelayDelivers` | is anything lost or marked unsent, are entities whose row is locked in order, do repeats need a fault, is every healthy event published in the end? | 4 events of 2 entities, batch of 2, the Deployment and one run by hand, a delivery that may fail, one that always does, 1 fault (a crash, a signal, a flush that gives up, a failed delivery, or the run by hand) |
| `PipelineSells` | do a consumer's books balance and catch up, are pieces conserved, does the API give the relay what it assumes? | 2 order lines, the Deployment and one run by hand, 2 faults |
| `SalesWrites` | does what a row refers to exist, does each event tell its change, what may an edit change in silence, do ids follow commits; which routes differ in what they show a user of a committed row, and which show a customer the rows of another? | 3 requests; 2 customers, 2 employees, an office, a product line; 2 each of orders, statuses, checks; every set of groups, profile and method |
| `IdentityRaces` | does each subject have one user with a name of their own and the groups of their token, whoever signs up beside them? | 3 requests, 2 subjects, 2 names, one held by a local user, 2 roles of which one is a group |
| `Throttles` | is the limit kept in every window, and are the headers and the wait true? | 1 worker, limits 1 and 2, windows of 2 ticks, 6 ticks |
| `BacklogShows` | is a backlog that stays shown, and does the gauge rest at the backlog while no worker has died? | 2 workers of 3 process ids, a backlog to 2, 2 faults (a death, the master's, a count that raises) |
| `Releases` | whatever fails and whoever is faster, is what a run prints of its tag and its push so, is the tag of an increment on a commit that carries it, how may a tag come to the origin off its main? | 2 releasers, 2 branches, versions 0.0, 0.1 and 1.0, 5 commits, 3 runs, 1 command that fails |

Two requests are what a lost update, a stale read or a broken order needs, and
three add a bystander who reads, waits or inserts between them; a further one
repeats what one of them does, for a request touches one or two rows and the
guards only ask whether some other holds a row. Stock runs to 2 or 3, so that
selling out, refusing, returning and leaving the column's range all happen.
Two events of each entity are
enough to break an order, and two entities to have one fail beside one that does not;
a batch of 2 leaves part of the pending rows behind. The relay's faults are a budget
because an unbounded crash loop says nothing new and hides liveness. The suffix of a
name stops at 3 (`MaxSuffix`): a request that would need more, as when two people sign
up under the names it would try, is still there to be aborted. The gauge needs a third
process id, for a worker whose place is taken by another, and two faults, for one that
dies after a count that failed. A release race is two people; five commits are the
first, one by each of three runs (`MaxRuns`) and a merge; the third run is one made
again after the first has failed, or has met the second.
In `Throttles` workers share nothing but the clock, so one worker is as good as three
for what a worker keeps to. Symmetry is used over requests, over subjects in Identity
and over releasers, in runs without liveness.

### Fairness

Catalog alone has none: no property of its own speaks of what must happen.
`RelayDelivers` assumes that a running relay takes
its steps, that the broker answers every record (librdkafka reports each one by
`message.timeout.ms`) and that the Deployment restarts what exited (a Deployment's
pods always are); faults are never fair and are bounded. `PipelineSells` assumes this and
weak fairness of each request that has begun: its worker runs its statements, and
InnoDB grants a lock in the end. Nobody need arrive, and no `Abort` need happen.
An event that always fails is outside `EventuallyPublished`; fewer of them than a
batch holds must be assumed, since the poll takes the oldest rows whatever their
attempts. `BacklogShows` assumes that the container starts gunicorn again, that
the master reaps and replaces its workers, and that a worker's thread takes its
steps (it sleeps between two, and never ends: `gunicorn.py:66`).

### Where the documents and the code part

Three runs end in a counterexample, each against a quoted sentence (`findings`):

- `CatalogSilentMove`: a PATCH that does not send the stock writes back one it read
  before an order line took from it, without an event. `perform_update` compares with
  a second read that is not locked, and saves every column. In the run the stock is 2
  and both of the edit's reads come before the line's COMMIT; the line commits 1 and
  its event, the edit then commits 2 and none.
- `RelayReorders`: all of a batch is produced before any report is looked at. In the
  run the broker rejects event 1 and stores event 3 of the same entity, while 1 waits
  for a later poll.
- `SalesPaymentOrder`: payments of one customer share a key but no lock, so their
  ids need not follow their commits.

Others, met while modelling and without a run of their own: as many events that
always fail as a batch holds keep every later one from being polled, against the
"at least once" of `publish_outbox.py:8`; the
first may also announce a stock that nobody sent as a `manual-adjustment`; an
order's status can be moved back in silence by an edit that overlaps another, and
`before` of `order.status_changed` may be a status the order has already left,
against `DOMAIN_EVENTS.md:189` and `emit.py:3-4` (`views.py:804-809`;
`SilentEditsGoBack` and `EventsTellTheirChange` say how far it may be); a line that is edited to more pieces takes nothing from
stock (`views.py:1066`); an event that always fails is retried for ever, whatever
`events/models.py:52` says; each worker counts requests on its own, so the API lets
the limit times the workers pass, against `throttles.py:99` and
`docs/RATE_LIMITING.md:39`, which speak of the user; a request that both throttles count
(`order_details`) spends its read allowance even when the write throttle refuses
it; of two requests of one external user with different roles that overlap, the
groups left may be those of neither token; `docs/RATE_LIMITING.md` gives limits
that `config/throttles.py` does not.

Of the access rules: payments and order lines are retrieved past the queryset
(`views.py:937`, `:1088`), so an admin who is also in `customer` retrieves more than
the lists show; the list under a product (`views.py:222`) shows every user in
`customer` the order lines of all customers, and the list under an employee
(`views.py:505`) the customers, to a user in `customer` whose other groups may read
employees. `Agree` and `Crosses` name them, and the properties say that these are all. POST names no existing object, so the owner a created
row is given is checked by nothing `Access` models.

Of the gauge: `child_exit` calls `mark_process_dead`, which removes the files of the
live modes only; a gauge of mode `max` keeps the file, so the figure of a worker
that died may stay the maximum until its process id or the master starts again,
against `gunicorn.py:12` and `:46`. An import that fails in `_loop`, outside its
`try`, would end the thread; that is left out.

Of a release: the check looks at main and never at the branch that is tagged and
pushed, so a run on another branch, or one whose clone has a tag off its own main,
puts a tag on the origin off its main (`version_manager.py:192`, `:279`, `:370`);
`--push --skip-git` prints "Version ... ready!" with nothing tagged or pushed (`:374`);
an explicit version whose first run failed after its settings were
written is tagged by a second run on a commit with the old version (`updated` is
false then, and nothing is committed: `version_manager.py:350`); an increment made
again after its check failed and main was pulled has nothing to commit, and fails;
an image may be pushed, and `latest` moved, by a run whose git push is then refused;
without a tag the current version is 0.0.0, since the pattern of
`_get_version_from_settings` is not in the settings.

## What is proved

Each theorem holds for any values of the constants that satisfy the assumption its
module names (`CatalogAssumption`, `SalesAssumption`, ...): any number of requests,
products, relays, workers or people, any stock, batch, limit or window. A theorem
that needs more says so in its ASSUME. Every proof of an invariant has the same
shape: the invariant is strengthened to one that is inductive (`IInv`), the initial
states satisfy it, a lemma per action or group of actions shows that it is kept,
with a step per conjunct the action can disturb, and what the runs check follows.

### Catalog (`CatalogProofs`)

TypeOK is far from inductive. `IInv` adds that
the lock of a row has one holder (`Exclusive`), that what a holder read is the
committed row (`ReadIsCurrent`), that between the decrement and the INSERT of
its line a request has exactly its own event pending (`TakePending`), that an
edit or insertion never speaks for an order (`EditPending`), and that ids pending
for a product are above those committed for it (`IdsPending`). Each part is
needed by the next: ids are ordered because they are allocated under the lock.

- `TypeCorrect`, `Invariance`; `LockProtects`: `LockedReadIsCurrent` always.
- `TakesAreExact`: every committed take starts from the committed stock, ends at
  the new one, at zero or above, and comes with its line.
- `IdsFollowCommits`: the ids of one product's events are in the order of their
  commits, which is what lets the relay publish by id.
- `AnnouncementsAreCommits`: `AnnouncedIffCommitted` always. Beside `IInv` it needs
  that a request that has raised nothing has no events, and that no two requests
  ever raise events with one id (`EventsDiffer`): otherwise the commit of one could
  bring in what another had rolled back.
- `ImplementsLedger`: if `Ops` has no edit of products, `Spec => Ledger`: each step
  is a step of StockLedger or a stutter. `CatalogSilentMove` shows that the
  condition cannot be dropped.
- `LastWordIsStock`: under the same condition the last event that tells a product's
  stock tells the committed one.

### Sales and its access rules (`SalesProofs`)

`OwnersExist` alone is not inductive: a COMMIT
could bring in a row whose customer has gone since it was written. `IInv` adds
that the job of a request fits its statement (`Fits`); that the customer of what is
written and not yet committed is there (`PendingOwner`), which DELETE keeps because
it waits for the foreign keys' locks (`Refers`); that an order with lines is there
(`LinesHaveOrders`); that locks of an order and of a payments key have one holder
(`Exclusive`); and that pending events say what the COMMIT will do
(`PendingTells`), with ids above the order's committed ones (`IdsPending`).

- `TypeCorrect`, `OwnersAlwaysExist`, `OrderIdsFollowCommits` follow. No such theorem
  as the last holds of payments: `SalesPaymentOrder` shows why.
- `EventsTell` and `SilenceGoesBack`, of SalesHistory. `HInv` adds to `IInv` that
  `was_status` is kept from its read to the COMMIT and no longer (`ReadInTime`), that
  it is among what the order has had since (`BeforeWasHad`), and that the event of a
  status starts from it and is raised exactly when the status differs
  (`EventsAreOfEdit`).
- `RoutesAgree` and `TwoListsCross`, of any set of owners and
  any user, by the views' roles: who passes the permission of a view is let through by
  the permission on an object exactly where the queryset lists it (`ScopedReads`,
  `PlainReads`), and a parent's roles differ from its rows' only for customers, whom the
  owner tells apart (`ShownIsListed`).
- `RowsAlikeButForThree` and `RowsCrossByTwoLists`: the same of every
  committed row, with what `IInv` says of owners.

### The relay (`RelayProofs`)

`IInv` joins to `NoEventIsLost` and `ReportsAreOfTheBatch` what makes them inductive:
a relay outside `_drain` has no batch and no reports (`IdleIsEmpty`), what it has read
or produced was committed (`OnlyCommitted`), and a message whose report still counts
was produced by the call that is flushing, from its batch (`AwaitedIsOfTheBatch`).

- `TypeCorrect`, `NothingIsLost`, `ReportsCountOnce`.
- `ContractKept`: every step is a step of AtLeastOnce or a stutter. A mark maps to
  the abstract one because what it marks was stored.
- `EntitiesAreInOrder`: `FirstDeliveriesInOrder` always, for the entities none of
  whose deliveries fails and whose writers a row lock orders. Its own invariant, `OrderInv`, says that whatever must be
  read before an event is stored already, or ahead of it in the same batch or queue
  (`InOrder`), of every relay at once; it rests on the API ending the rows of such an
  entity in the order of their ids (`SettledInOrder`), which `IdsFollowCommits` and
  `OrderIdsFollowCommits` prove of products and orders; of the payments of a customer it
  is false, and the theorem says nothing of them (`LooseKeys`).
- `NoRepeatWithoutFault`: with one Deployment replica (`outbox-relay.yaml:20`), an
  event is delivered twice only after a fault. Until the first fault (`Calm`) what a
  relay has in hand is pending and not stored, and what is stored is marked or about
  to be.

### From the API to a consumer (`PipelineProofs`)

- `ApiFeedsIt`: whatever the requests do, edits and deletions of products included,
  a step of the API is a `Settle` of OutboxRelay or leaves its table alone. A row
  that is not there is one to come, or its transaction runs (`AbsentIsComing`); with
  one product only one transaction at a time is between its events and its end
  (`OneIsOpen`), so rows end in the order of their ids. Hence all theorems of
  `RelayProofs` hold of the relay in Pipeline.
- `BooksBalance`: where only order lines are written, the committed events are a
  chain, each starting from the figure the one before left (`Chained`); rows are
  there for the relay exactly when committed (`RowsAreThose`); what a consumer
  has been sent was committed and was sent a first time (`Heard`); and since first
  deliveries are in order it walks the chain link by link (`HeardIsChained`).
- `ReadingAllIsEnough`: under the same condition a consumer that has read all that was
  committed believes the committed stock, which is the safety half of
  `ConsumerCatchesUp`; that it does read all of it in the end is TLC's.
- `PiecesConserved`: where lines are only created, `PiecesAreConserved` always.
  `PiecesInv` adds that a line of a request is there only when it was answered ok, so
  that its COMMIT adds a new one. What the library's `MapThenSumSet` does over a set
  is proved first: that the recursion has a solution at all (`SumExists`), that two
  solutions agree (`SumsAgree`), that it does not matter which element is taken first
  (`SumWithout`), each from a least counterexample, since an induction theorem cannot
  be instantiated. `SeedAssumption` is used here only: the product is there at the
  start, and the lines of the start are not those of the requests.

### Users (`IdentityProofs`)

`IInv` says what a request has at hand at each of `get_user`'s queries
(`AtStatement`), that a name or a subject that is written and not committed is
nobody else's (`NameHeld`, `SubHeld`: the locks of the unique indexes), and that every
subject's user is that of the request that created it (`UsersAndSubjects`).

- `TypeCorrect`, `NamesAreUnique`; `SubjectsKeepTheirUser`: `OneUserPerSubject` always.
- `GroupsFollowTheToken`: a request that commits while the groups it read are still
  there leaves its user those of its token.

### Rate limits (`ThrottleProofs`)

What holds is that a history is sorted (`LatestFirst`), is the beginning of what was
accepted, and has forgotten of the last `Limit` accepted times only those out of the
window (`Remembers`); that `retryAt` is when the oldest entry of a full history leaves
it (`ToldWhen`); and that the header counts room that time can only widen (`CountsRoom`).

- `TypeCorrect`; `WaitingIsEnough`: `RetryAfterIsEnough` always.
- `WindowsAreLimited`: no window, wherever it starts, has more accepted requests than
  the limit.
- `RemainingIsTrue`: what `X-RateLimit-Remaining` told is there for the next requests.

### The gauge (`BacklogProofs`)

`TypeCorrect`, and the safety half of the two liveness properties TLC checks. With
`Invariance` (`CountsAndFiles`: who has counted holds a figure and has a file;
`DownHasNone`: no worker outlives its master): a backlog that is shown, with no lower count on
its way, stays shown while it lasts (`ShownStaysShown`), and a gauge that rests at it
stays there (`RestStays`), until the master starts again. That the scrape's maximum
exists over any number of files is `FiguresHaveAMax`, again by a least counterexample.

### Releases (`ReleaseProofs`)

`IInv` says that commits are made on top of earlier ones (`History`), that branches and
tags are on commits that were made (`RefsAreMade`), that a run that has pushed its
branch has its HEAD on the origin (`PushedBranch`, since a branch only moves forward
there), and what a run has done at each command (`AtCommand`).

- `TypeCorrect`, `ReportsHold`, `TagsCarryTheirVersion`.
- `MainCarriesItsTags`: a push from main brings main first, and a tag on main with it. A
  tag therefore comes to the origin off its main only from a run on another branch, or
  from a clone that has it off its own main; that no tag ever does is false of the
  script, and is not claimed.

### What is only model-checked

Liveness: `EventuallyPublished`, `ConsumerCatchesUp`,
`BacklogIsSeen`, `GaugeSettles`. The prover does not reason about ENABLED, so fairness
stays with TLC. Every invariant and action property of the passing runs is a theorem,
some under the conditions above on `Ops` or replicas, which are those of the runs.

## What is left out

Reads that change nothing, but for what they show to whom; the content of events
beyond what is compared; the traceparent; token verification and key encoding;
login, refresh and logout, which are SimpleJWT's; the culling of a worker's full
cache; the wording of errors; configuration. The clock only moves forward.
Deadlock between database transactions appears as `Abort`, since a victim is
rolled back and answered 500. The lines of an order and the products of a product
line are constant in Sales, and orders are constant in Catalog. A user's groups are
those of one moment in Access. Branches are never rewritten in Release, change by releases and pulls only, and pulls
merge;
the image is built and pushed by commands that may fail and change nothing else.
The components listed as `not_modelled` in PROJECT.json say why.

## Plan

Done, in this order: Catalog with its events, ledger and proofs; OutboxRelay with
its contract; Sales; Pipeline; Identity; Throttle; the plain tables of Sales;
Access and SalesAccess; Backlog; sign-up in Identity; Release; the proofs of Access
and Sales; those of the relay, of users, rate limits and releases, of Pipeline and of
the gauge.

What could still be modelled: refresh and logout over SimpleJWT's blacklist, once its
code is at hand; a Sales whose orders have lines of their own, composed with Catalog.

Next, to prove: Pipeline with several products, each a partition, where the ids
of different products may end out of order and only those of one may not;
`PiecesAreConserved` where creations of products are allowed beside lines.
