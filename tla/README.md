# FlashCart in TLA+

A TLA+ model of the FlashCart back end (`internal/`), the TLC runs that check it
on small instances and TLAPS proofs that hold for every size. Paths below are
relative to `internal/` of the repository unless they say otherwise.

## 1. The system

FlashCart is one Go process. Every HTTP request runs in its own goroutine, behind
a chain of middleware, and works on two stores that all requests share: Postgres
(through pgx) and Redis. A pool of worker goroutines executes background jobs.

| component | state | operations | interacts through |
|---|---|---|---|
| inventory (`inventory/`) | table `inventory`: quantity, version per product | `SetStock`, `GetByProductID`, `ReserveStockWithOptimisticLock` | Postgres statements of checkout and product creation |
| product catalogue (`product/`) | table `products` | `CreateProduct`, `Update`, reads | creates the inventory row in a second statement |
| product cache (`product/repository_cache.go`) | one Redis entry per product, with a ttl | `GetByID` (read through), `Update` (delete) | Postgres, then Redis, in separate calls |
| cart (`cart/`) | one JSON document per user in Redis | `AddItem`, `RemoveItem`, `GetCart`, `Clear` | GET then SET of the whole document; read and cleared by checkout |
| checkout (`order/`) | tables `orders`, `order_items` | `CreateOrderFromCart` | cart, inventory, orders, worker pool |
| cancellation (`order/`) | order status | `CancelOrder` | orders, worker pool |
| payment (`payment/`) | table `payments`, the provider | `Charge`, reads | idempotency key, UNIQUE constraint |
| worker pool (`worker/`) | channel, workers, WaitGroup | `Dispatch`, `runWorker`, `Shutdown` | handlers send, workers receive |
| server (`server/`) | phase of the process, requests | `Start` | waits for requests, closes the pool |
| request pipeline (`middleware/`, `response/`) | one ResponseWriter and its wrappers, the deadline | `Chain`, `RequestID`, `Tracing`, `Recovery`, `CORS`, `Logger`, `Metrics`, `Timeout`, `JSON` | two goroutines answer one request |
| rate limiter (`middleware/rate_limit.go`) | a counter per route and client in Redis | `RateLimit` | INCR, then EXPIRE; guards registration and login |
| accounts (`auth/`, `user/`) | table `users`, tokens held by clients | `Register`, `Login`, `GoogleLogin`, `UpdateProfile`, `AuthMiddleware`, `RequireRole` | UNIQUE address; a token's claims stand for the account |
| coupons (`coupon/`) | tables `coupons`, `coupon_uses` | `Validate`, `RecordUse` | Postgres; nothing ties the two together, or to the checkout that names a coupon |
| reviews (`review/`) | their table | upsert, reads | Postgres |

What is hard:

* Checkout is a sequence of separate statements on two stores. Nothing but the
  version test of one `UPDATE` and the transaction inside `orderRepo.Create`
  orders concurrent requests, and every statement can fail, be applied with its
  acknowledgement lost, or be the last one before a crash.
* A cart edit writes back a document it read earlier.
* A payment must be charged once although its requests are retried and overlap.
* Cancelling an order, registering an address and updating a profile each read, then
  decide, then write, in separate statements.
* The `Timeout` middleware gives a request up without stopping its handler, which
  goes on changing state, answering and dispatching, even while the process shuts down.
* The product cache is filled with what was read before, and deleted after the row
  was changed; both calls to Redis may be lost, and their errors are dropped.
* A coupon is validated in one request and its discount claimed in another; recording
  its use is left to a caller that does not exist.
* A handler that outlives its request keeps a writer whose buffer net/http gives to
  another request.

What makes each part correct: stock is never oversold and each deduction builds on the
last one (inventory); a stored order has its stock, taken once (checkout); a cart holds
one line per product and no made-up units (cart); one charge per key, and no record or
answer of a charge that did not happen (payment); an accepted job is executed, by one
worker, within its attempts, before the process exits (worker pool and server); an order
is cancelled by its owner and its stock given back, item by item, once (cancellation,
but for lost answers); an address has one account, a token's claims are true and an
update changes what it names (accounts); a key's life admits its limit and ends (rate
limiter); a client gets one whole answer, its own, and what is logged and measured is
that answer (request pipeline); the cache is stale only while an update is under way or
after a loss or a race, and never for ever (product cache); uses are counted, and a
discount is given for a validated coupon whose use is then recorded (coupons, where the
code does neither). PROJECT.json lists the hazards line by line.

## 2. Modules

| module | models |
|---|---|
| `Inventory` | tables `products` and `inventory`, `CreateProduct`, the WHERE and SET of the reserving UPDATE |
| `Cart` (extends `Inventory`) | the cart documents and their edits |
| `Checkout` (extends `Cart`) | `CreateOrderFromCart`; composes the three into one specification |
| `AtomicSale` | what checkouts promise about stock: taken once, in one step, before the order is placed |
| `CheckoutProofs` | theorems about `Checkout`, among them that it implements `AtomicSale` |
| `SalesProofs` (extends `CheckoutProofs`) | theorems about carts and about what is sold from them |
| `Payment` | `Charge`, its row, its provider |
| `AtomicCharge` | what an idempotency key promises: one payment, one charge, one settlement |
| `PaymentProofs` | theorems about `Payment`, among them that it implements `AtomicCharge` |
| `WorkerPool` | the channel, its workers, `Dispatch`, `Shutdown` |
| `Server` (extends `WorkerPool`), `ServerProofs` | requests behind `Timeout` and `Recovery`, `Server.Start`, and theorems about them and the pool |
| `OrderCancel`, `OrderCancelProofs` | `CancelOrder` on tables `orders` and `order_items`, and theorems about it |
| `RateLimit` | the limiter's counter, its expiry and a request's way through it |
| `Accounts` (extends `RateLimit`), `AccountsProofs` | table `users`, registration, sign-in, tokens, profile updates, and theorems about them and the limiter |
| `Pipeline`, `PipelineProofs` | one request through the middleware chain, its handler and the writer they share, and theorems about it |
| `ShopRequests` | what the requests of the next two have in common |
| `Catalogue` (extends `ShopRequests`) | `CachedProductRepository` over table `products` |
| `Coupons` (extends `ShopRequests`) | `Validate` and `RecordUse` on one coupon, and a checkout that names it |
| `Storefront` (extends both), `StorefrontProofs` | composes catalogue and coupons into one specification, and theorems about it |
| `MCCheckout`, `MCPayment`, `MCServer`, `MCOrderCancel`, `MCAccounts`, `MCPipeline`, `MCStorefront` | values of constants and symmetry for TLC |

**Correspondence.** Every call to Postgres, Redis, the provider or the channel is
one step, since another goroutine may run before and after it; the code between
two calls belongs to the step of the first. A request's program counter names the
call it makes next (`probe`, `reserve`, `diagnose`, `persist`, `clear`; `create`,
`charge`, `record`; `items`, `update`, `dispatch`; `get`, `select`, `fill`). `Pipeline`
is finer, because nothing orders its two goroutines: each store to a wrapper, each
change of the header map, the status line and the body are steps. Each call that can fail has up
to three actions: it works, it is applied but reported as failed (`...Unacknowledged`), it is not applied
(`...Fails`). The constant `Faults` says which faults an instance has; guards that
do not mention it are failures the code reaches with no fault at all (no row
matched, a CHECK refused).

**Abstractions.** Ids are model values. A cart is the set of its lines: the code
keeps insertion order, the model lets a checkout take the lines in any order. Go's
`int` wraps at `MaxInt` and an INT column holds at most `MaxInt4`, both constants.
Versions are BIGINT and taken as unbounded. Prices, totals, names and time stamps
are left out; so is the amount of a discount, which only changes a total (that an order
has one is in `Coupons`). The answer of
a handler is its status class. In `Accounts` an id is the request that made the
account and a name is the request that supplied it, so that a lost update shows; a
token is its claims; a password hash is the password it was made from; a window of
the limiter ends at any moment after its EXPIRE. In `OrderCancel` the orders are
those checkout has stored: PENDING, since no code sets PAID or SHIPPED. Backoff and
deadlines are nondeterminism: a deadline may pass at any moment. `Server` sees a
request from the job queue (what it dispatches, whether it was abandoned); `Pipeline`
sees the same request from its answer. In `Catalogue` a product is the update that
wrote it and its `is_active`, and one product stands for all, as entries share
nothing; in `Coupons` one coupon does. A document of a response is who wrote it.

**History variables.** `ledger` (deductions applied to a product, with the row each was
decided on), `stocked`, `skipped` and `added` in the checkout model, `runs` and `sent`
in the pool, `applied`, `before`, `restored` and `patch` in the cancellation and account
models, the sets of requests per window in the limiter, `cut` and `dropped` in the
cancellations, `overtook`, `lost` and `ordered` in the shop front, and `branch` and
`late` in the pipeline record what happened so that properties can refer to it. No guard
reads them, except that `sent` is written once per job.

## 3. Runs

Deadlock checking is off in every run: an instance has finitely many requests, and
stops when they have been served.

| run | shows |
|---|---|
| `checkout_faults` | two checkouts and two edits of one user under all four faults, a product created meanwhile, quantities that wrap around: `TypeOK`, `StockChain`, `ConflictMeansProgress`, `OrderBacked`, `NoOversell`, `CartWellFormed`, `CartNeverInflates`, and the refinement `SaleSpec` |
| `payment_faults` | three requests, two orders, a client key and derived keys: `TypeOK`, `ChargedOncePerKey`, `AnswerTruthful`, and the refinement `ChargeSpec` |
| `server_jobs` | a checkout with two jobs and a cancellation with one, two workers, a queue of two, two attempts: `TypeOK`, `JobConserved`, `RetriesExact`, `StopDrains`, `OnlyAbandonedPanic`, `StopCompletes`, `JobFinishes` |
| `cancel_faults` | three cancellations of two orders by two users under failing statements, cut-off reads and crashes: `TypeOK`, `ConflictHasCause`, `RestoreAfterCancel`, `RestoreAccounted`, `RestoredAgainOnlyInRace` |
| `accounts_faults` | three requests to any of the account routes, two addresses, a limit of two, every fault: `TypeOK`, `OneAccountPerEmail`, `ClaimsHold`, `PatchLostOnlyInRace`, `WindowBound`, `KeyExpires` |
| `pipeline_answers` | one request, a preflight or not, every interleaving of its two goroutines with the deadline and a client that leaves: `TypeOK`, `AnswerIntact`, `StatusRecorded`, `RequestServed`, `PanicEnds` |
| `storefront_faults` | three requests to any operation of catalogue and coupons, two users, a coupon with no limit or a limit of one, every fault: `TypeOK`, `StaleOnlyInRace`, `UsesCounted`, `StaleEnds` |

Runs that TLC must refute, each a disagreement of the code with what the
repository says of it:

| run | refuted | shortest story |
|---|---|---|
| `checkout_rollback` | `AllOrNothing` | the first line is reserved, the second is out of stock: 409, and the first line's stock is gone |
| `checkout_twice` | `BoughtOnce` | two checkouts read the same cart before either clears it |
| `payment_pending` | `PaymentSettles` | one request: no row under its key, PENDING row inserted, the provider captures or declines, the UPDATE of the outcome fails; the error is dropped, the answer says CAPTURED or FAILED, the row stays PENDING |
| `coupon_unrecorded` | `UseRecorded` | an order is stored with a coupon's discount; the coupon expires, no step that records the use ever follows |
| `server_closed` | `DispatchReturns` | a request is abandoned, the pool is closed, its handler dispatches: panic |

**Known limits of the code that a property states as its exception.** Two racing
cancellations both give the stock back (`RestoredAgainOnlyInRace`), two racing profile
updates lose a field (`PatchLostOnlyInRace`), a lost INCR reply or EXPIRE leaves a
limiter key that never expires (`KeyExpires`), and a failed inventory read puts a line
into an order without its stock (`skipped` in `OrderBacked`). A reader that is overtaken
by an update, or a lost DEL, leaves an old product in the cache until its ttl ends
(`StaleOnlyInRace`, `StaleEnds`). A cancelled order's item is not restored if the full
pool dropped its job, a broken read hid it, although the client is told that the order
is cancelled, or if its request was told an error after its UPDATE was applied, or died
(`RestoreAccounted`): the job of `order/service.go:171`, "for each item", is then never
dispatched. Past the deadline the 504 and the handler's own answer go to one writer: the
client may get both documents, or the handler's status with the 504's document, and if
both goroutines are in the header map at once the Go runtime may stop the process, which
`Recovery` cannot prevent. The same may happen before the deadline when the client has
left: Timeout answers nothing, so net/http completes the response itself, which copies
the header map while the handler, woken by the same cancellation, sets its headers.
`AnswerIntact` allows all of this only in a request that was abandoned. A request that
panics, and a preflight, are in the traces only, whereas `middleware.go:170` lets
`Metrics` see "every HTTP request" (`StatusRecorded`). A user who asks for more of a
product than Go's `int` holds gets a line of a negative quantity, as `AddItem` adds
without a test (`cart/service.go:46`), and a checkout that reserves it adds stock before
the CHECK of `order_items` refuses the order: `CartWellFormed` and `NoOversell` except
what such a user asks for (`AsksFit`).

Beyond the properties: what an abandoned handler writes after ServeHTTP has returned
goes to a buffer that net/http has put back and may have given to another request, whose
client may get it. `rate_limit.go:15` calls the limiter a sliding window, but the window
is fixed, so around its end a client may be let through twice the limit. A checkout
takes the coupon's discount from the request, whether or not `Validate` has seen it
("pre-validated", `order/service.go:39`), and no handler calls `RecordUse`, or `Update`
of the product repository. A discount of 100% is not applied (`order/service.go:83`).

**Bounds.** Two checkouts suffice for a lost update, a conflict and a cart that is
ordered twice, and each may in turn have been overtaken at either product (the proofs
are for any number); a cart of two products is the smallest one that can be refused half
way. In `checkout_faults` an `int` and an INT column have 4 bits for 64 and 32: an
AddItem asks for 1 or for 7, so that lines of 1 and 2 units fall on both sides of a
stock of 1 or 2, 7 is out of stock, and two edits wrap to -2 or -8, of which the first
can be reserved and the second not. In the other runs of the checkout `MaxInt` is 100,
far more than anybody asks for. Two workers and two jobs per request are enough for a
duplicate, an overtaking job and a full queue; two attempts tell the first, a middle and
the last attempt apart. Three account requests are a registration and two racing updates
of the account it made, or a limit of two and the request beyond it; three cancellations
are two that race and one that comes after them. A pipeline serves one request (the
buffers that requests share one after another are left out); two handler statuses tell
the handler's answer from the 504 and from each other. Three requests to the shop front
are a reader, the update that overtakes it and a later reader, or two uses that race for
a limit of one and a third that is refused. Symmetry is used only where interchangeable
requests or workers are never named, and never with a liveness property (`SaleSpec` and
`ChargeSpec` are safety: no fairness is in them).

**Fairness.** `Payment!Fairness`: a request that has begun keeps running. Go schedules
every goroutine and every call returns, at the latest when the request's context ends.
No client is obliged to send a request. `Server!Fairness`: workers run and their jobs
end (all of them only log), `httpServer.Shutdown` returns, at the latest at its
deadline, and `Start` goes on. Handlers get no fairness: the shutdown must complete
whatever they do. `Pipeline!Fairness`: the serving goroutine runs, the timer of the
deadline fires, and a handler that has begun to answer or to panic goes on; one that has
done neither may hang for ever. `Storefront!LiveSpec`: Redis expires an entry that has a
ttl; no request need come, or end. `Storefront!ServedSpec`, for `UseRecorded` only, adds
that a request that has begun keeps running: even then no use is recorded.

## 4. Proofs

Every invariant of a passing run is stated by a theorem, for every value of the
constants; what is left to TLC is liveness.

`CheckoutProofs` proves, for any number of checkouts, users, products and edits,
any initial stocks and any subset of the faults: `TypeOK`, `StockChain`,
`OrderBacked`, `TakesOnce`, `ConflictMeansProgress`, and that `Checkout` implements
`AtomicSale` (`ImplementsSale`). The assumptions are those
of `Inventory`, `Cart` and `Checkout`: typing of the constants, and that `None` is
neither a row, a probe nor an order.

None of these is inductive. Their common strengthening `IndInv` adds

* `RowInv`: a product's row is inserted once, unreserved, and no deduction comes
  before it;
* `ProbeInv`: a row a checkout has read is *explained* by the ledger, that is, it
  is what the version it carries held. With the version test of the UPDATE this
  is what makes the row read earlier equal to the row updated, hence `StockChain`;
* `BeatenInv`: a checkout whose UPDATE matched nothing was overtaken by a
  deduction of another checkout;
* `LoopInv`, `LedgerInv`, `StoredInv`: the lines still to do, done and skipped
  partition the cart that was read, and the ledger names a line of a checkout
  only once its loop has passed it.

`StockSteps` reduces every step to one of three effects on the stock (a row is
created, a checkout deducts, nothing), so the chain is argued three times, not
once per action.

The refinement maps the shelf to the quantity in a product's row, the lines a checkout
holds to those it has deducted for, read off the ledger, and its sale to the stored
order without the lines it skipped. A deduction is one `Take`: the quantity suffices
because the UPDATE tests it, and the line is new because `LoopInv` keeps the lines
passed apart from those to do (a retry after an unacknowledged UPDATE is refused by its
version, so it does not take the stock again). Storing the order is one `Place`: by
`StoredInv` and `LedgerInv` each of its lines that was not skipped has been taken.
Everything else, faults and crashes included, stutters.

`PaymentProofs` proves `TypeOK`, `ChargedOncePerKey`, `RecordTruthful`, `AnswerTruthful`
and that `Payment` implements `AtomicCharge` (`ImplementsCharge`) for any number of
requests, orders, users and keys. The strengthening adds `KeyInv` (a row carries its
request's key and no two rows share one) and `ProgressInv` (the provider is called only
for a payment whose row exists and is still PENDING): the UNIQUE constraint, not the
lookup before it, is what the argument rests on. The refinement maps a key to the set of
entries under it: the row with that key, and what the provider did for it. `KeyInv`
makes that set empty or a singleton, so the INSERT is `Open`, the provider's call
`Charge`, and the UPDATE of the outcome, acknowledged or not, `Settle`.

`OrderCancelProofs` proves `TypeOK`, `ConflictHasCause`, `RestoreAfterCancel`,
`RestoreAccounted` and `RestoredAgainOnlyInRace` for any number of requests, orders,
users and products. The strengthening has three parts. `RowInv`: an order is CANCELLED
exactly if an UPDATE was applied to it. `RequestInv`: what a request holds is the row of
its order as it was when read, so one that passed the check had read the order before
any UPDATE, and one that gives stock back has applied its own. `Accounts`, a part of
`RequestInv`: from the read of the items on, those still to do, dispatched, dropped and
cut off make up the order, hence `RestoreAccounted`. `Undisturbed` shows once that a
request's part survives whatever another request does.

`StorefrontProofs` proves `TypeOK`, `StaleOnlyInRace` and `UsesCounted` for any number of
requests and users and any limits. The strengthening adds `FillInv` (what a reader is
about to store differs from the row only if the row's writer has overtaken it),
`UserInv` (a request about the coupon has a user) and `UsesInv` (the recorded uses are
finite and counted). A step of one component leaves the other's part alone (`CatIdle`, `CoupIdle`).

`SalesProofs` proves `NoOversell`, `CartWellFormed` and `CartNeverInflates` on top of
`IndInv` of `CheckoutProofs`, for any width of Go's `int`. `SalesInv`
adds

* `CartInv`: every cart, and every document between its GET and its SET, is `Sound`,
  that is, has one line per product, of no more units than the user has asked for, and
  of at least one unless the sum may have wrapped. A document stays sound while the
  cart is edited, cleared or expires behind it, because what was asked for only grows;
* `HeldInv`: the lines of a checkout are sound, and it deducts for its lines only. With
  `TakesOnce` this makes each checkout deduct from a product at most once (`SingleInv`);
* `StockInv`: what a row has lost is the sum of what the checkouts took.

`NoOversell` follows line by line: by `OrderBacked` an order's line that was not
skipped was taken, so the units sold are at most the units taken. Sums are the
community modules' `SumFunction`. That its recursion has a solution, and that it is
monotone and changes by what one summand changes, is shown by minimal counterexamples
(`MinimalSubset`, from the well-foundedness of strict inclusion), as the library's
induction rules take an operator as a parameter.

`ServerProofs` proves `TypeOK`, `JobConserved`, `RetriesExact`, `StopDrains` and
`OnlyAbandonedPanic` for any number of requests, jobs and workers, any queue and any
number of attempts. `PlaceInv` says by quantifiers what `JobConserved` counts: an
accepted job is queued, held or finished, never two of these, and no position or worker
shares it; from it the cardinalities follow. `RunsInv` ties the runs of a job to the
attempt its worker is at, `FreshInv` keeps a handler from dispatching a job twice,
`CloseInv` says that the channel is closed only when the HTTP server is down and that a
worker leaves only an empty closed channel, and `ServeInv` that an unforced shutdown
closes it after every request is over.

`AccountsProofs` proves `TypeOK`, `OneAccountPerEmail`, `ClaimsHold`,
`PatchLostOnlyInRace`, `WindowBound` and `KeyExpires` for any finite set of requests,
any addresses, passwords, roles and clients, any limit and any faults. In the limiter, `CountInv`: a
counter is the number of requests counted in its window, and a request still outside is
in none. In the accounts, `InsertInv` and `UniqueInv` (the UNIQUE constraint refuses
what two lookups let pass), `ClaimInv` (no statement changes the address or role of a
row, so claims stay true), and `DraftInv`: the copy a pending update will write back
holds, in the fields it does not change, what the updates it has seen wrote, unless
those were raced for already (`Raced`). A write can therefore undo only an update it
has not seen.

`PipelineProofs` proves `TypeOK`, `AnswerIntact` and `StatusRecorded` for any statuses
handlers answer with. There is one invariant per branch of `Timeout`'s select, which
says how far the answer has got in the interceptors, on the wire and in the records:
`EnterInv`, `PreflightInv`, `SelectInv`, `DoneInv`, `PanicInv`, `CtxInv`. `BodyInv`
bounds the body by what each goroutine may still write (`Pending`), and `UseInv` ties a
late or concurrent use of the writer to an abandoned request, past its deadline or when
net/http completes the response for a client that has left.

The assumptions are those of the modules: typing of the constants; that `None` is none
of the values it stands beside; that requests (of the accounts) and checkouts are
finitely many; that the pool has a worker (`NewPool(5)`, `server/server.go:65`); and
that the quantities clients add are values of Go's `int`.

Only model-checked: liveness (`StopCompletes`, `JobFinishes`, `RequestServed`,
`PanicEnds`, `StaleEnds`), which is out of the prover's reach, and the refutations,
which are traces.

## 5. Not modelled, and the plan

Not modelled because it holds no state the program's behaviour depends on:
configuration, logging, metrics, tracing (which status they are given is in `Pipeline`),
health probes, the front end. Shipping and notification contain no code. Password
hashing and tokens are libraries'. Reviews are one upsert and one read, a single
statement each, with nothing to interleave. Route wiring, the connection pool and the
timeouts of `http.Server` itself are left out. Prices and totals are left out with the
discount: floating-point sums are out of TLC's reach. The body of the
restore job only logs, so a cancelled order's stock is not given back; the model
records that the job was accepted, which is all the code does.

Next:

1. State what `AtomicSale` and `AtomicCharge` imply on their own (a shelf and what is
   held of it add up, a key is charged once) and prove it there, so that the promise can
   be read without the code.
2. The limiter on a clock, where a burst around the end of a key's life shows, and the
   pooled buffers of several requests, some of them abandoned.
3. An abstract specification of the worker pool, a bag of accepted jobs each executed
   once, with `Server` shown to implement it as checkout and payment implement theirs.
