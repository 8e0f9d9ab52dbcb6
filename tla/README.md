# Coupon redemption service: TLA+ models, model checking and proofs

The service redeems coupons against orders for many clients at once, over one
Postgres database, from any number of gunicorn processes. Its one requirement is
that a coupon is never redeemed more often than its cap allows, at any instant.
This directory models the service statement by statement, checks the model with
TLC on small instances, and proves its main safety properties with TLAPS for any
number of workers, orders, customers, coupons and requests.

## 1. Inventory

| Component | Source (under `src/redemption/`) | State | Operations | Module |
|---|---|---|---|---|
| Data model | `models.py`, `migrations/` | tables `users`, `coupons`, `orders`; CHECK constraints; partial unique index | insert, update | `Schema` |
| Repositories, transactions | `repositories/` | row locks, open transactions, uncommitted saves | `lock_by_id`, `lock_by_code`, `save_redeemed_count`, `attach_coupon`, `mark_cancelled`, commit, rollback | `Sessions` |
| Policies | `policies/` | none (reads coupon, orders, clock) | `enforce`, `for_type` | `Policies` |
| Redemption service | `services/redemption.py` | the instances of one request | `redeem`, `_replay` | `RedemptionService` |
| Cancellation service | `services/cancellation.py` | the instances of one request | `cancel`, `_already_cancelled` | `CancellationService` |
| Query service | `services/coupon_query.py` | none | `get_by_code` | `CouponQueryService` |
| Seeding services | `services/seeding.py` | none | `create` of users, coupons, orders | `SeedingServices` |
| HTTP API | `api/`, `errors.py` | the request in a worker | validation, normalisation, `Idempotency-Key`, error rendering | `Api`, `Sessions` (life of a request, error codes) |
| Clock | `clock.py` | the system time | `now` | `Sessions` |
| Pricing | `pricing.py` | none | `apply` | `Pricing` |
| Correlation ids, logging | `observability/` | one context variable | set, reset | `Api` (the log formatter is not modelled) |
| Load test script | `../scripts/loadtest_http.py` | what it has heard, a thread pool | seed, redeem, judge | `LoadTest` |
| Clients (outside) | README, `tests/test_idempotency.py` | what each was told | send, time out, send again | `Clients` |
| Other writers (outside) | README, `tests/test_capacity.py`, `tests/test_load_multiprocess.py` | none | hand-written `UPDATE` | `Maintenance` |
| Wiring, settings | `container.py`, `coupon_service/` | none | | not modelled (see 9) |

**How they interact.** A view validates a request and calls one method of one
service. The redemption and cancellation services open a transaction, lock the
order row, then (if there is one) the coupon row, decide, save, and return from
inside `transaction.atomic`, which commits; an exception rolls back. Nothing is
shared between workers except the tables and their row locks. The policies are
called under both locks; the expiry rule reads the clock there, and the
per-customer rule runs a query of its own. Query and seeding run single
statements, without locks of their own.

**What is hard.** Interleavings of redeem, cancel, retry, query and seed; the gap
between a check (capacity, customer) and the write it licenses; counters saved as
absolute in-memory values; a process killed between two saves; retries of
requests whose answer was lost; the clock moving while a request waits for
locks; the order of the locks; waiting without a timeout.
`PROJECT.json` lists each as a hazard, at its line, with the properties that
watch it.

**What makes each part correct.**
- *Tables*: the counter of a coupon is the number of live orders that carry it;
  cap and per-customer rule hold; `is_single_use` agrees with the coupon's type.
- *Repositories*: a save never overwrites what another transaction committed; no
  constraint fires; no trace is left by a rollback or a crash; no deadlock.
- *Redemption, cancellation*: what was checked is true at the commit; one slot
  per order, released at most once; answers are exact; retries are replayed.
- *Policies*: nothing late is redeemed; a refusal is true and is the most specific.
- *Seeding*: no created row is replaced, whatever already uses it.
- *API*: every request ends; a coupon is found in every spelling of its code;
  what is stored fits; a retry is scoped as its client believes; errors share one
  shape and name their own call.
- *Pricing*: no negative amount, no lost cent, rounding half up, fair across orders.
- *Clients*: what they are told stays true; whoever keeps asking is answered.
- *Other writers*: the constraints hold without the services' help as long as
  `is_single_use` goes with the coupon's type, and the services do not make a foreign
  mistake worse.

## 2. Modules

```
Schema            rows, constraints, the index
  Policies        the three rules and their order
    Sessions      workers, transactions, locks, crash, clock, requests, answers
      RedemptionService  CancellationService  CouponQueryService  SeedingServices
        CouponSystem       Next, fairness, the properties
          CouponInvariant    the inductive invariant
            CouponTypeProofs    type correctness
              CouponSafetyProofs  the safety theorems
                CouponAnswerProofs  answers, clock, history of orders, and
                                    the refinement of LedgerRefinement
          LedgerRefinement   ImplementsLedger   (INSTANCE CouponLedger)
            MCCoupons          instances for TLC, extended by the MC modules below
          Maintenance        the service beside hand-written UPDATEs    (MCMaintenance)
            MaintenanceProofs  its theorems
          Clients            the service with clients that retry         (MCClients)
            ClientsProofs      what clients are told stays true
          LoadTest           the service with the load test script       (MCLoadTest)
            LoadTestProofs     the verdict is true
          Api                the service behind middleware, serializers,
                             views and error rendering                   (MCApi)
            ApiProofs          its theorems
CouponLedger      the abstract promise: atomic steps, no locks, no counters
Pricing           the discount calculator                                (MCPricing)
  PricingProofs     its theorems
```

### How the model corresponds to the code

* **One action per database statement**, together with the checks the code makes
  on what the statement returned. `RedeemLockOrder` is `lock_by_id` and the four
  tests that follow it; `RedeemEnforcePolicy` is one turn of the policy loop;
  `RedeemSaveCount` is `+= 1` and `save_redeemed_count`; `RedeemAttachCoupon` is
  `attach_coupon` with its `except IntegrityError` and the payload. Python between
  two statements touches nothing another worker can see, so no interleaving is lost.
* **Tables.** `users`, `orders`, `coupons` are the *committed* rows. A statement
  without `FOR UPDATE` reads those (READ COMMITTED). An absent row is `None`.
* **Transactions.** `order[w]` and `coupon[w]` are the Django instances the worker
  read under a lock, `saved[w]` the columns it has saved and not committed.
  `Commit` writes exactly those columns (`save(update_fields=...)`), at absolute
  in-memory values, and frees the locks; `Rollback` and `Crash` forget them.
  A coupon's counter in memory is a Python integer, so a lost update or a double
  release would be seen as such, and is not prevented by its type.
* **Locks.** `LockOrder` and `LockCoupon` wait for the row lock and then read the
  row as committed *by then*, as `SELECT ... FOR UPDATE` does. A row that is not
  there locks nothing and reads as `None`.
* **Constraints.** The CHECKs on the counter are tried by each save, the partial
  unique index by `attach_coupon`; a violation raises. The index is tried against
  committed rows: in Postgres an insertion that clashes with an *uncommitted* entry
  waits for that transaction, and here every such entry belongs to the holder of
  the same coupon lock.
* **Failures.** `Crash` may strike at any statement of any request: the process
  dies or its connection drops, Postgres rolls back, the client hears nothing and
  may send the request again, like any client at any time. A crash after the commit
  is a lost answer.
* **Time.** `now` only moves forward. `arrived[w]` is a history variable:
  when the worker took the request.
* **Identity.** A coupon's code stands for its primary key and a customer for its
  e-mail address: both pairs are one-to-one in the tables. Requests are those the
  serializers let through, with codes already normalised.
* **Left out** of the modules up to `CouponSystem`: amounts, percentages (they are in
  `Pricing`), and messages. Answers keep the error code,
  the slots reported, and the replay flag.

* **`Pricing`.** A `Decimal` is an integer in its smallest unit; an amount comes in
  tenths of a cent so that its own `quantize` does something. `apply` is the method;
  the machine around it is a calculator asked by one `_success` after another.
* **`Maintenance`.** A foreign `UPDATE` is one autocommitted statement that changes one row.
  It waits for the row lock, for the coupon's lock if it attaches one (the foreign key) and,
  where it would clash with an index entry of an open transaction, for that transaction; a
  statement that waits or is refused changes nothing, so it is a step only when it goes
  through. It may store *any* row in place of another (`UpdateCoupon`, `UpdateOrder`), with
  three restrictions, which section 3 explains.
* **`Clients`.** Each client has one goal. It sends it, may stop waiting while the
  worker goes on (`GiveUp`), sees its connection reset when the worker dies (`Die`), and
  may send it again, answered or not. `first` is a history variable. `MaxTimeouts` and
  `MaxCrashes` bound the faults, not the requests.
* **`LoadTest`.** `main` posts its seeds in order, ignoring the answers it does not
  use; the pool calls tasks in order, as many at a time as it has threads;
  a lost answer or an error page raises, which cancels the tasks nobody has taken
  up and waits for the others. With fewer contenders than capacity the script says
  FAIL although nothing is wrong; `LoadTestAssumption` sets that case aside.
* **`Api`.** A call goes through `Accept` (the middleware binds the id), `Handle` (parser,
  serializer, key check, hand-over), the service's own actions (`Serve`), `Render`,
  and `Leave` (the `finally` clause). Of a string only its canonical form and
  its length matter; the two limits are 2 in the instance. `InsertRefused` is the
  `INSERT` of a value that the serializer accepts and the column cannot hold.

## 3. Properties

Those of the first table are in `CouponSystem` (`ImplementsLedger` in
`LedgerRefinement`, `IInv` and `AnswerInv` in `CouponInvariant`), the others in the module named.

| Property | What would break it |
|---|---|
| `CountMatchesHolders` | a lost update, a slot released twice or leaked by a crash |
| `RedemptionLimits` | over-redemption, counted on the orders and not by the counter it guards |
| `ChecksStillHold` | a policy's check gone stale by the time of the write (TOCTOU) |
| `OrderStillFree` | an order cancelled or attached under a running redemption |
| `BackstopsUnreached` | an interleaving in which a constraint has to save the day; redemption.py calls it unreachable |
| `NoDeadlock` | a circle of workers, each waiting for a lock of another |
| `SingleUseAgrees` | a `is_single_use` that disagrees with the type, which blinds the index |
| `OrderHistory` | a resurrected, re-owned or re-attached order; a coupon on a cancelled order |
| `OnlySuccessWrites` | any trace of a rejection, a replay, a rollback or a crash, in the orders or in the counters; a counter committed without its order |
| `AnswerExact` | an answer computed before the commit and wrong at the commit |
| `RetryNotRefused` | a retry refused because its own first attempt took the slot, or because of later expiry |
| `RefusalIsMostSpecific` | "no redemptions left" told to a customer who holds the coupon, or a false refusal |
| `NoLateRedemption` | a redemption asked for after `expires_at` |
| `RequestsEnd` | a lock never released, a waiter never served |
| `ImplementsLedger` | any step that is not one atomic operation of the abstract ledger |
| `TypeOK` | the type invariant |
| `IInv`, `AnswerInv` | the inductive invariants of the proofs: of rows and instances, and with answers and arrival times added |

| Module | Property | What would break it |
|---|---|---|
| `Pricing` | `QuoteLegal` | a negative total, a cent lost between the parts, a price left by a full discount |
| | `RoundsHalfUp` | another rounding mode; stated by distance to the exact discount, not by a formula |
| | `FairQuotes` | rounding that makes a dearer order cheaper or a better coupon worth less |
| `Maintenance` | `ConstraintsHold` | an order reinstated or handed over between the per-customer check and the write, a cap cut below the counter |
| | `ServicesKeepDrift` | a counter kept after the index has refused its order; a second release |
| | `RawErrorsOnlyOnDrift` | a redemption that meets a CHECK because cap or counter moved under it |
| `Clients` | `HeardTrue` | a success told and then overwritten or rolled back |
| | `OneFirstTime` | a retry that redeems or releases again |
| | `EveryClientAnswered` | a lock lost to an abandoned request; a client that starves |
| `LoadTest` | `VerdictTrue` | an oversell, a slot lost, a verdict on incomplete results |
| | `ScriptEnds` | a task that waits for ever, a pool that cannot be closed |
| `Api` | `FoundInAnySpelling` | one of the three code paths normalising differently |
| | `StoredIsValid` | a value that slips through serializer and column together |
| | `KeyScopesOrder` | an order locked although the key names another |
| | `ErrorsCarryTheirId` | an id of the previous call, or none |
| | `EveryErrorRendered` | an error that leaves as a page (it does, see 5) |

`Maintenance` shows how far the README's layers reach, and where they end.
- The CHECK holds whatever anybody writes; but it protects the *counter*, so once
  somebody sets a counter too low the number of live orders can exceed the cap without
  any constraint noticing. Only the services' own discipline (`CountMatchesHolders`) ties
  the counter to the orders.
- The index holds for its entries, and an order has one only if `is_single_use` says so.
  That flag is a copy of the coupon's type which no constraint ties to it: a writer who
  clears it, attaches a STANDARD coupon without it, or changes a coupon's type, takes live
  orders out of the index. The second half of `ConstraintsHold` is therefore checked
  and proved for writers who keep the two in agreement (`AgreesWithType`, and the type guard
  of `UpdateCoupon`) and for no others; without that guard TLC violates it in the same instance. Within the services, `SingleUseAgrees` holds.
- Attaching a STANDARD coupon to a live order by hand is left out. Such an `UPDATE`
  checks its foreign key at its end, when it has entered the index, and so waits for the
  coupon's lock while a redemption that holds the lock may wait for the entry.
  Postgres breaks that deadlock by aborting either, which the model has no step for.

`CouponLedger` is the specification a client would want: orders take and lose
coupons in indivisible steps guarded by *how many live orders carry the coupon*.
It has no counter. The refinement mapping reads the committed tables only, so
`ImplementsLedger` says that everything a redemption checks and writes, over
seven statements and two locks, takes effect at its commit, as if at once.

## 4. Runs

`MCCoupons` defines one group of constants per scenario, the `.cfg` files pick one; the
runs of other modules have an MC module each.
Every request may be sent any number of times, by any number of workers at once,
in any order, so retries, duplicates and reordering need no actions of their own.
The state spaces are finite and explored completely; deadlock is checked in all of
them but `loadtest`, whose script ends (a worker can always receive another request, so TLC's deadlock means a
circle of lock waits that crashes cannot break either; `NoDeadlock` is the
stronger statement, which ignores crashes and looks at every subset of workers).

| Run | Instance | States | Shows |
|---|---|---|---|
| `contention_standard` | 3 workers, 3 orders (two of one customer), a STANDARD coupon with one slot | 218 000 | counter, cap, per-customer rule, no stale check, no constraint reached; `IInv` |
| `contention_stackable` | the same with a STACKABLE coupon and two slots | 303 000 | counter and cap when a customer may redeem twice; `NoDeadlock`; `ImplementsLedger` under contention |
| `errors` | 2 workers, a coupon of each type, an order that does not exist, customers naming each other's orders, reads | 124 000 | `OrderHistory`, `OnlySuccessWrites`, `AnswerExact` |
| `expiry` | 2 workers, 3 orders (two of one customer), a STANDARD coupon with one slot, expiry at instant 1, clock up to 2 | 566 000 | retries, order of the rules, nothing late; `AnswerInv` |
| `expiry_at_arrival` | the same with 2 orders of one customer | stops | violation, see 5 |
| `seeding` | empty tables, everything created during the run, coupon of either type | 526 000 | no created row is replaced while it is used; `SingleUseAgrees`, `AnswerInv`; `ImplementsLedger` |
| `pricing` | 163 amounts, 13 percentages, exact half cents among them | 2 120 | the three pricing properties |
| `maintenance` | 2 workers, 2 orders, 2 customers, a STANDARD coupon, caps 1 and 2, counters 0 to 3, any order row, any writer at any time | 397 000 | what the constraints stop, and what the services add |
| `clients` | 3 clients (two coupons for one order, and its cancellation), 2 workers, one time-out, one crash | 45 500 | truth and uniqueness of answers; `EveryClientAnswered`, `RequestsEnd` |
| `loadtest` | 3 contenders, one slot, 2 threads, 3 workers | 20 800 | `VerdictTrue`, `ScriptEnds`, `RequestsEnd` |
| `api` | 2 workers, 5 strings (two spellings of a code, one that upper-casing makes too long, blank), caps at and past both ends, every key, 2 ids | 668 000 | the four boundary properties |
| `api_columns` | the same, addresses that fit | stops | violation, see 5 |

**Why these bounds are enough to be interesting.** Three workers give a holder, a
waiter and an overtaker; two orders of one customer and one of another separate
the per-customer rule from the cap; one slot makes every second redemption contend
for the last one, two slots on three orders make the counter move between its
bounds with a customer on it twice. Expiry needs three instants: before, at and
after; the slot is then refused to a customer who holds it and to one who does not. What the bounds cannot show (a fourth worker, a second coupon under
three-way contention, a larger cap) is what the proofs are for. In `clients` the two redemptions and the cancellation
exclude one another, so every answer can be overtaken by a contradicting one; one
fault of each kind can hit any attempt at any statement. In `loadtest` two contenders
are bound to lose, the pool has a task that no thread has taken up when another one
raises, and there are more workers than threads, so that abandoned requests run on
beside new ones. In `api` the limits are as small as the strings, so each side of
each limit is reached. `SYMMETRY` is over workers,
in runs that check safety; nothing chooses a worker or orders them. `maintenance` adds
its two orders, which start alike and are named by the same requests.
`MaxTime` caps `now`, `MaxTimeouts` and `MaxCrashes` the faults of `clients`; nothing
else is bounded.

**Fairness** (`Fairness` in `CouponSystem`, used by `clients` and `loadtest`). Weak
fairness of each worker's statements that do not wait: the operating system runs a
ready process. Strong fairness of those that wait for a row lock: Postgres queues
waiters of a row, so a lock that is released again and again is granted to each in the
end. Under weak fairness TLC starves one worker behind two others that pass a lock
back and forth. In `clients` an unanswered client persists, with strong fairness:
workers are free only now and then, and the listening socket takes connections in
turn (under weak fairness TLC lets the answered clients, which may ask again, take
every free worker). In `loadtest` the script's own steps are weakly fair.
Other requests, crashes, time-outs and time have no fairness. `RequestsEnd`
is what it says with crashes allowed: a request ends by its answer or by the loss of
its worker. Neither run uses symmetry.

Every property of a passing run has a mutant in `PROJECT.json`: an operator
marked *Broken* next to the definition it replaces (no `FOR UPDATE`,
the cap tried before the customer, a second cancellation that releases again, no
`transaction.atomic`, locks in the opposite order, ...), under which the property fails.

## 5. Findings

**Expiry is judged late.** `policies/expiry.py:12` says *A request arriving exactly at
`expires_at` is allowed; only `now` strictly after `expires_at` is expired*, and the
docstring at `tests/test_expiry.py:42` says of such a request that it is *allowed, not
rejected*. The two halves of the first sentence agree only if the clock stands still between
the arrival of a request and its evaluation, as the clock does that the test injects. The
code reads the clock *inside* the transaction, after the order and the coupon row
have been locked and waited for, so the second half decides. `expiry_at_arrival` shows a
request received at `now = 1 = expires_at`; it takes both locks, the clock ticks to 2,
and the answer is `COUPON_EXPIRED` (`AllowedAtExpiry` fails). The converse, which protects
the campaign, holds (`NoLateRedemption`): waiting never lets a request in that arrived too
late. A redemption that passed the rule in time may *commit* after `expires_at`.

**Not every error is rendered.** README line 51 (*Errors all render as*) and
`tests/test_api.py:124` (*Every error renders the same actionable shape*) promise one
shape, and `serializers.py:3` that input is rejected before any service runs. The
serializers are wider than the columns: `max_redemptions` has no upper bound
(`serializers.py:74`, a 32-bit column), a code is measured before it is upper-cased
(`serializers.py:96`), an e-mail address is not measured against its column
(`serializers.py:105`). Such a value fails in the `INSERT` with `DataError`; the services
translate `IntegrityError` only, the handler returns `None`, and Django answers with
a page. `api_columns` shows it for the cap. Nothing wrong is stored (`StoredIsValid`).

Three claims the source makes in words and the models confirm: "a deadlock
cycle is impossible" (README), "unreachable while the coupon lock is held"
(redemption.py, on the index error), and "a second cancellation is a no-op"
(cancellation.py).

## 6. Proofs

Run `tlapm` on `CouponTypeProofs.tla`, `CouponSafetyProofs.tla`, `CouponAnswerProofs.tla`,
`ApiProofs.tla`, `ClientsProofs.tla`, `LoadTestProofs.tla`, `MaintenanceProofs.tla` and
`PricingProofs.tla`; no step is left out. The theorems, for all constants that meet the assumptions:

| Theorem | Statement |
|---|---|
| `TypeCorrect` | `Spec => []TypeOK` |
| `SafetyCorrect` | `Spec => []IInv` |
| `CountCorrect`, `LimitsCorrect`, `SingleUseCorrect` | the invariants of the tables |
| `ChecksCorrect`, `OrderFreeCorrect` | what a redemption relies on until it commits |
| `BackstopsCorrect` | no constraint is ever reached |
| `DeadlockFree` | no circle of lock waits, in any set of workers, even infinite |
| `AnswersCorrect` | `Spec => []AnswerInv` |
| `DeadlineCorrect`, `RetryCorrect`, `RefusalsCorrect` | when a redemption may be written, and what a refusal says |
| `HistoryKept`, `WritesCorrect`, `ExactCorrect` | the action properties of `Spec` |
| `LedgerImplemented` | `Spec => ImplementsLedger`, the refinement of `CouponLedger` |
| `BoundaryCorrect` | `ApiSpec => []ApiInv`, the services' `IInv` included |
| `StoredCorrect`, `KeyCorrect`, `ErrorIdsCorrect`, `FoundCorrect` | the properties of the HTTP boundary |
| `ClientsCorrect`, `HeardCorrect`, `OnceCorrect` | what clients are told, through timeouts, retries and crashes |
| `LoadCorrect`, `VerdictCorrect` | `LoadSpec => []LoadInv`, and the verdict of the load test |
| `ClientsRefine`, `LoadRefines` | `ClientsSpec => Spec` and `LoadSpec => Spec`: all of the above about `Spec` holds among such clients |
| `MaintainedCorrect`, `ConstraintsCorrect`, `DriftErrorsCorrect`, `DriftCorrect` | what holds beside the writers of `Maintenance` |
| `LegalQuotes`, `RoundedQuotes`, `QuotesFair` | pricing, for every amount and percentage |

**Assumptions**: `None` is none of the values it stands beside (`NoneAssumption`,
`WorkersAssumption`, `LedgerAssumption`); finitely many order ids, so that live orders can
be counted (`OrdersAssumption`); requests as the serializers pass them on, a new coupon's
counter being 0 (`RequestsAssumption`); the clock's bound is a natural
(`TimeAssumption`); the tables start migrated, empty or seeded (`SeedAssumption`). Of the
boundary: normalising a code once is enough and leaves an empty one empty, as `strip` and
`upper` do (`ApiAssumption`); what is seeded came through the same boundary
(`StoredAssumption`); `Requests` has the requests of the accepted calls
(`CallsAssumption`). Of the clients: each has a request to make, and timeouts and crashes
are bounded, by any naturals (`ClientsAssumption`). Of the load test: at least as many
contenders as slots, a pool with a thread, empty tables, made-up identifiers that differ
(`uuid4`) and requests the service takes (`LoadTestAssumption`); a task without an
outcome is told from one that has any (`OutcomeAssumption`). Of the other writers: the coupon rows they store have the types
of their columns (`RowsAssumption`).

**Why a strengthening is needed.** None of the table invariants is inductive.
`CountMatchesHolders` is broken by a commit from a state in which the worker's
in-memory counter is stale; that such a state is unreachable is a fact about who
holds which lock. `IInv` adds, for each worker:

* `LocksOK`: a row lock belongs to a worker that is between the lock and
  the end of its transaction, on that very row, which exists;
* `MemoryOK`: it holds instances, saves and answers only where it should;
* `TransactionOK`: under the order lock the instance equals the row, or differs from
  it by exactly what was saved; the coupon's instance is *fresh* until the counter
  is saved, then off by one in the right direction and within its bounds;
* `ServiceOK`: the customer of a redemption past the per-customer rule still does not
  hold the coupon, and no transaction fails after a write.

The first three and the types are `HeldInv`: what row locks guarantee, whoever else
writes, as long as everybody waits for them. `ServiceOK` and the table invariants
(`TablesOK`) need in addition that every writer is one of these services. `IInv` is the
conjunction, and the proof keeps the two apart.

**How it goes.**
1. `TypeInv` (types, control flow, which instances exist) is inductive on its own and
   needs no locks: one lemma per action, in `CouponTypeProofs`.
2. `WorkerStays`: a worker whose own variables and locked rows a step leaves alone
   (`Untouched`) keeps its `WorkerOK`. Nothing is said of who takes the step.
3. `HeldStep`: every step of a worker is `Sound`. It changes only rows whose lock the
   worker holds, or that did not exist, and the worker's own `WorkerOK` holds
   afterwards: one `Held...` lemma per action. `SoundHeld` combines this with 2.
4. `ServiceStep` and `ServiceStays` do the same for `ServiceOK`, which only the policy
   loop establishes.
5. Only `Commit` and the inserts change the tables. `TablesRedeemed` and
   `TablesCancelled` show that the set of live holders gains or loses
   exactly one order while the counter moves by one, with the cardinality lemmas of
   `FiniteSetTheorems`; `DriftStays`, `CapsStay`, `AgreeStays` and `OneUseStays` each take
   one table invariant and no more of `IInv` than that one needs.
6. `DeadlockFree`: in a circle of waiters every worker would wait for a coupon, since a
   holder of an order row waits, if at all, for a coupon; but whoever holds a
   coupon row waits for nothing.

**Answers.** What is said of rows does not tell why an answer is right, which depends on
when the request arrived and on what was refused or replayed. `AnswerInv` adds to `IInv`,
for each worker:

* `InTime`: past the expiry rule, the *arrival* of the request is no later than the
  coupon's `expires_at`. `now` may be later, so this cannot be recovered from the tables;
* `RefusalOK`: a refused policy still holds both locks, its instance is fresh, and the
  committed rows bear the refusal out. The retry of a redemption in force finds the
  order's coupon set, so it never gets there: this is `RetryNotRefused`;
* `CommitOK`: an OK answer waiting for COMMIT is a replay if nothing was saved, and
  reports the slots the row will have after it;
* `Done`: what an answer on its way out claims is in the tables.

`IInv` does not depend on any of it, so `AnswerStep` takes it as given: `StepWrites` says
once what any step may write, `StepApart` that it leaves another worker, the rows that one
has locked included, as they are, and `OthersAnswer` follows for all actions at
once. `HistoryKept` and `WritesCorrect` (by `ChangeSucceeds`) are read off `StepWrites`.

**The refinement.** `LedgerImplemented` maps each row to the ledger's view of it. By
`StepWrites` a step that is neither the `Commit` of a worker that has saved something nor an
insert leaves the tables, hence the ledger, alone. A redemption's commit is
`Ledger!Redeem`: its guards are the conjuncts of `RedeemOK` at the commit, and
`Exhausted` becomes the ledger's own count of carriers through `CountMatchesHolders`
(`CarriersAre`). A cancellation's commit is `Ledger!Cancel`, and the inserts
are the ledger's registrations.

**The boundary.** `ApiInv` adds to `IInv` who serves which call: the worker's request is
that of its call's body, after normalisation; a page is there exactly when it answers; a
correlation id belongs to the call at hand. The calls never touch the services'
variables except through `Receive`, and an insert the database refuses for a reason only
the boundary has (a column too narrow) is the one new step (`SafeInsertRefused`).
`KeyCorrect` follows from `LocksOK`: an order lock names its worker's request.
`FoundCorrect` needs that normalising twice is normalising once (`CanonicalOnce`).

**The clients.** `ClientsInv` adds to `AnswerInv` that a worker with a peer serves that
peer's goal, that everything heard has happened, and that *among* the answers already
heard and those on their way out, at most one is a first one for the order. The commit that
makes a new one starts from an order in which it has not happened, where
by the invariant there is none yet (`ClientsOnce`).

**The load test.** The script knows nothing but what it is told, and it may miss answers, so
why its count agrees with the tables' takes an invariant of both sides. `LoadInv` adds to
`AnswerInv`:

* `OnlyCoupon`, `OnlyOrders`: the tables hold the script's coupon and live orders of its
  contenders. With `AnswerInv` this leaves a redemption one way to be refused
  (`Unrefused`): the cap. The coupon is STACKABLE, never late, nothing is cancelled, and no
  contender's order is asked for in another's name;
* `ServesOK`, `OneCall`: a worker serves main's current request, or a task's that waits for
  it, or a request whose sender has given up; nobody waits for two workers;
* `ContenderOK`, `SeedOK`: a redemption runs against rows that are there, and
  `COUPON_EXHAUSTED` is heard only once all slots are gone, which they then stay
  (`FullStays`: nobody cancels here, and the cap bounds the orders from above);
* `OutcomeOK`: what a task returned is true, and, the other way about, a contender whose order
  carries the coupon has returned OK, has raised, or is about to be told OK. The second half is
  why no success goes uncounted: `CommitOK` and `Done` tie the commit to its answer;
* `StageOK`, `VerdictOK`: what main relies on when it goes on.

`PoolDone` is the count. When every task has returned and none raised, each contender was told
OK or `COUPON_EXHAUSTED`; `OrderOf` is then a bijection from the winners to the live orders
that carry the coupon. With a loser the coupon is full by `OutcomeOK`; with none the winners
are all contenders, at least as many as slots, and the cap bounds them from above. So
main reaches its last question only with a full coupon and as many winners as slots, and
`Judge` says PASS.

**Foreign writers.** Beside them the counter no longer counts, and a customer found
without the coupon may get it back with an order that is reinstated or handed over. `MaintainedInv` keeps `HeldInv`,
since a foreign statement waits for the row lock it needs (`ForeignUntouched`,
`WorkerStays`), and replaces the rest by what the constraints say: `WithinCaps` and
`OneUseEach`. Two facts are new. `EntryOK`: a redemption past `attach_coupon` has an index
entry that a clashing writer waits for, so its customer still does not hold the coupon at
the commit (`EntryMade` from the unique index, `EntryAwaited` for the wait, which an
order foregoes only if its flag disagrees with its coupon's type). `Stranded`: a
failed CHECK is a cancellation's, and the rows that made it fail are still under its locks.
`ConstraintsCorrect` is `WithinCaps` and `OneUseEach` in the terms of the schema;
`DriftErrorsCorrect` follows since a counter refused by the CHECK is zero with the
order itself still a holder; `DriftCorrect` is `DriftStays`, which never used that the
drift was none.

**Pricing.** `QuoteOK` (the quote in hand is `apply` of its order and coupon) is
inductive. The rest is arithmetic of rounding: `RoundDiscount` puts the rounded
discount within half a cent of the exact one, `PartsRounded` carries that to the parts of
a quote, and `DearerPays` needs in addition that the exact discount grows by at most
what the order's amount does, since no percentage exceeds a hundred. Products are
kept whole and the constant `Whole` folded where a step only instantiates a lemma.
`PricingAssumption` (percentages from 0.01 to 100.00, no negative amount) is the
database's CHECK constraint and the serializers' limits.

**Not proved, checked by TLC only**: `RequestsEnd`, `EveryClientAnswered` and
`ScriptEnds`. They are liveness under fairness, which is out of this prover's reach. Every
invariant and action property that a passing run checks is proved, each as a theorem of the
specification the run uses or, where `ClientsRefine` or `LoadRefines` applies, of `Spec`.
There is no `ApiSpec => Spec`: a value that is too wide for its column fails in the
database, which `Spec` does not know of, so `BoundaryCorrect` carries `IInv` over by itself.

## 7. Trust in the environment

Assumed of Postgres: row locks are exclusive, are held to the end of the
transaction, and the row is re-read after the wait; commit is atomic and durable;
unlocked reads see committed rows. Assumed of Django: `atomic` commits on return and
rolls back on any exception, and `ATOMIC_REQUESTS` is off, so a view outside a
service's transaction runs in autocommit. Assumed of the host: the clock does not
step back; with several hosts, that their clocks agree.

## 8. Plan

Done: every component but the wiring, and the theorems of section 6. What is left to TLC is
liveness. A service that gains an operation needs, besides its actions, a `Held...` lemma
for each of them, a place in `ServiceStep`, and what it may write in `StepWrites`, which is
where most later proofs look.

## 9. Not modelled

`container.py`, settings and URL wiring have no behaviour of their own; what they
fix (one system clock, READ COMMITTED, no `ATOMIC_REQUESTS`) is built into `Sessions`
and `Policies`. The abstract classes of `interfaces.py` declare what their
implementations, which are modelled, do. URLs that match no pattern, and unsupported
methods, are answered by the framework before any code of the service runs.
`get_by_id` of the coupon repository is called by no service. Log formatting and JSON
rendering are output only.
