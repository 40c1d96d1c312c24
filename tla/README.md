# Formal models of the pizza marketplace

TLA+ models of the marketplace's services, checked with TLC on small instances
and proved with TLAPS for every value of the constants: every safety and action
property of the runs that pass is a theorem, liveness is model-checked.
`PROJECT.json` lists the runs, which lines of the source each definition
stands for, the hazards of the code and the properties aimed at them.

    tlc -workers 2 -config OrderPayment.cfg OrderPayment
    tlapm OrderPayment_proofs.tla

## 1. The system

Seven Go services and three stores each of their own: PostgreSQL per service,
Redis (identity-service), Elasticsearch (search-service). Services talk through
gRPC (order-service to payment-service only) and through RabbitMQ topic
exchanges; every event goes through the sender's transactional outbox.

| component | state it keeps | operations | talks to |
|---|---|---|---|
| Checkout, order-service API | `orders`, `order_items`, `carts` | `Checkout` | `CreatePayment` RPC; records `order.address_saved` |
| order lifecycle, order-service API | `orders` | `Cancel`, `MarkReady`, `Complete` | `GetPaymentStatus`, `CancelPayment` RPCs |
| payment event handlers, order-service worker | `orders`, `outbox_events` | `payment.succeeded`, `payment.failed` | record `order.confirmed` |
| payments, payment-service API | `payments` | `CreatePayment`, `CancelPayment`, `GetPaymentStatus` | Mollie's HTTP API |
| Mollie webhook, payment-service API | `payments`, `outbox_events` | `HandleMollieWebhook` | asks Mollie, records `payment.succeeded` / `payment.failed` |
| outbox relay, worker of five services | `outbox_events` | poll, claim, publish, book, shut down | RabbitMQ with publisher confirms |
| consumers, worker of five services | the queue, `x-retry-count` | dispatch, republish, dead-letter | the service's handlers |
| cart, order-service API | `carts`, `cart_items` | `AddItem`, `UpdateItemQuantity`, `RemoveItem` | the read model |
| read model, order-service worker | `restaurants`, `pizzas`, `pizza_prices`, `topping_prices`, `customers` | upserts guarded by `updated_at`, hard deletes | events of restaurant-, identity- and customer-service |
| circuit breaker, order-service API | three breakers | trip, half-open, close | wraps the RPC client |
| restaurant life, restaurant-service | `restaurants` (status, checklist) | profile updates, `Approve`, `Launch`, `restaurant.initiated` | events to order-, search-, notification-service |
| menu, restaurant-service | `pizzas`, `pizza_prices`, `topping_prices` | `CreatePizza`, `UpdatePizza`, `SetPizzaPrices`, `SetToppingPrices` | snapshot events with `updated_at` |
| payout, restaurant-service | `payout_details` | create, update, promote on approval | |
| registration, identity-service | `email_verifications`, `users`, Redis cooldown | `RequestEmailOTP`, `RegisterCustomer`, `RegisterOwner` | `user.registered`, `restaurant.initiated`, `email.verification_created` |
| sessions, identity-service | refresh tokens in Redis | `Login`, `RefreshToken`, `Logout` | |
| customers, customer-service | `customers`, `customer_addresses` | `UpdatePhone`, `SetDefault`, `Delete`, handlers of `user.registered` and `order.address_saved` | `customer.phone_updated` |
| search index, search-service | one Elasticsearch document per restaurant | snapshot, field update, pizza upsert and removal, topping prices | events of restaurant-service |
| notification-service | none | one mail handler per event | SMTP |

### What is hard in it

* **Whole-row saves.** Repositories update with gorm's `Save`: a handler loads a
  row, perhaps makes a network call, decides on its copy, and writes every
  column back. There are no version columns and no status in the `WHERE`
  clause, so two handlers of one row overwrite one another.
* **Calls in the middle.** Checkout calls payment-service after its transaction;
  Cancel asks payment-service before its save and voids after it; the webhook
  handler asks Mollie before its transaction. Each call may fail, time out or
  never be made because the process died.
* **At-least-once everywhere.** Mollie repeats a webhook until it gets a 200,
  outbox rows may be published more than once, consumers may see a message
  again, and a retried message goes behind younger ones.
* **Leases and overlapping batches** in the outbox relay.
* **Mirrors** (read model, search index) built from unordered events guarded by
  timestamps that are drawn before the row is locked and compared in milliseconds
  or microseconds, with deletes that leave no timestamp, and from data read before
  the transaction that announces it.

### What makes each part correct

* Orders and payments: nothing is prepared that is not paid; what is paid is
  taken up; one confirmation per order; payment-service never revises an
  outcome and never settles without recording the event.
* Outbox: at least once; nothing stranded; nothing settled is worked on again.
* Consumers: a message is handled or dead-lettered, never lost.
* Cart: one cart per customer, of one restaurant; what is bought is what leaves.
* Mirrors: once all events are handled the mirror shows what was announced last,
  but for causes the properties name.
* Restaurant: no approval without a complete checklist, no launch without
  approval, no step back, events only while active.
* Registration: one account per address, each with its events; a code counts once.
* Sessions: a token refreshed or revoked is worth nothing.
* Addresses: at most one default, and that of an existing address.

## 2. Modules

| module | what it is |
|---|---|
| `OrderDomain` | the Order aggregate: rows, transition guards, transitions, `Coherent` |
| `PaymentDomain` | payment status, Mollie's status and the mapping between them, outcome events |
| `PaymentOutcome` | abstract specification: a payment opens once, settles at most once, and is announced in that very step |
| `OrderPayment` | an order and its payment across order-service, payment-service and Mollie |
| `OrderPayment_proofs` | the inductive invariant, the safety theorems, the refinement |
| `Payment` | one subject's payment under repeated and overlapping CreatePayment calls, webhooks and CancelPayment |
| `Payment_proofs` | what holds whatever calls overlap, and what holds of calls one at a time |
| `Outbox` | the outbox relay with its claims, leases, errors, shutdown, crash and restart |
| `Outbox_proofs` | the inductive invariant and the safety theorems of the relay |
| `Delivery` | a service's queue and consumer: retries, acks, dead-letter queue |
| `Delivery_proofs` | of one queue: nothing is lost or given up early, repeats have reasons; of all of them (`EventFlow`): so have misses, dead letters and second mails |
| `Onboarding` | a restaurant's checklist, review, approval and launch under overlapping commands |
| `Onboarding_proofs` | what stale whole-row saves cannot break |
| `PizzaMirrors` | a pizza, its events, and its copies in the search index and in order-service's read model |
| `MCPizzaMirrors` | its model-checking module: the symmetry of requests and of sizes |
| `PizzaMirrors_proofs` | the copies of a pizza settle but for three causes; so do those of a restaurant's fields and prices (`StoreMirrors`) but for theirs |
| `Cart` | a customer's cart under overlapping additions, changes, removals and Checkouts |
| `Cart_proofs` | the cart's invariants for any number of requests |
| `Sessions` | refresh tokens: login, refresh in its three steps, logout, expiry |
| `Accounts` | from a mailed code to a user with its events; composes `Sessions` |
| `Customers` | one customer in customer-service and order-service: profile, phone, address book |
| `Customers_proofs` | what the two services agree on without asking one another; and of one account (`Accounts`, `Sessions`): its codes, registration and tokens |
| `StoreMirrors` | a restaurant's fields and topping prices and their copies in search- and order-service |
| `EventFlow` | all five outboxes, exchanges and workers together: who publishes, binds, handles and mails what |

A definition whose name ends in a slip (`CanMarkReady_unpaid`,
`Claims_pendingOnly`, ...) is what a plausible mistake would make of the
definition after it. No action uses it; with it in the place of the real one,
TLC finds the corresponding property violated (`mutants` in `PROJECT.json`),
which shows that the property looks at the code it is about.

How they compose: `OrderPayment` is order-service, payment-service and Mollie
around one order, with events delivered at least once; `Outbox` and `Delivery`
are the two ends of that delivery in detail, one table and one queue;
`EventFlow` joins the ends of all services, with the wiring between them;
`PizzaMirrors`, `StoreMirrors` and `Customers` are what readers make of events
that arrive late, repeatedly, in any order or (past the retry budget) never.

### OrderPayment

State, and what it stands for:

* `orders[o]`: the `orders` row: `status`, whether `payment_id` is set
  (`linked`), and which of the four timestamps are set (`stamps`). Items,
  prices and addresses decide nothing after Checkout's validation.
* `cart`: whether the customer's cart has a line. All checks of Checkout that
  can fail are one action, `CheckoutReject`.
* `payments[o]`: the row with subject `o`: status and whether the gateway's
  reference is attached. `paymentEvents[o]` is the set of outcome events
  recorded for it (a second row of the same event is not counted: delivery is
  at least once anyway); `acked[o]` those the consumer has acknowledged.
* `mollie[o]`, `hookDue[o]`: the payment at Mollie and whether Mollie still owes
  a webhook call (external).
* `checkout`, `rpc`: where Checkout and the CreatePayment it calls are.
  `reqPc`/`reqCopy`: API requests on the order with the row each one loaded.
  `hookPc`: webhook deliveries with GetStatus's answer. `consPc`/`consCopy`:
  the consumer's transaction with the row it read.
* `faults`: database errors, gateway errors, timeouts, crashes so far.

Each handler is cut exactly at its database and network calls; between two cuts
it is one action, which makes every change the code makes there.

* `CheckoutLoad`, `CheckoutReject`, `CheckoutCommit` (one transaction: order,
  cleared cart, perhaps `order.address_saved`), the RPC, `CheckoutSave` (the
  whole row *as built before the RPC*, with the payment id), `CheckoutReply`,
  `CheckoutFail`.
* `CreatePaymentRow`, `CallGateway`, `AttachGatewayReference`,
  `CreatePaymentFail`. order-service makes the call once per order and does not
  retry it, so `handleExisting` is not reached here.
* `CancelLoad`, `CancelCheck` (`GetPaymentStatus`, which blocks when succeeded),
  `CancelSave`, `CancelVoid`; `MarkReadyLoad/Save`; `CompleteLoad/Save`.
* `MollieSettles`: paying takes the checkout URL, expiring does not.
* `WebhookLoad` (anyone may post an id; an unknown or settled payment is
  answered 200), `WebhookStatus`, `WebhookCommit`, `WebhookFail`.
* `ConsumeSucceeded/ConfirmCommit`, `ConsumeFailed/CancelCommit`, `ConsumeFail`:
  a read and a commit of one read-committed transaction. Handlers of different
  orders touch no common row, so the one consumer is modelled per order.

Properties: `PreparedOnlyIfPaid`, `ConfirmedOnce`, `GatewayAgrees`
(invariants), `NeverReopened` (action property), `KeepsPaymentOutcome`
(refinement of `PaymentOutcome`), `PaidSettles` (liveness); `TypeOK`,
`LinkedIsPayable` and `RowCoherent` are proved only. What each says is in the
comment above it. Two accepted races show as well: a Cancel that asked before
the payment settled cancels a confirmed order, and a MarkReady that loaded the
order before a Complete takes it back from completed to ready.

### Payment

`OrderPayment` has the one CreatePayment call that order-service makes per
order, so one payment at Mollie. `Payment` is payment-service seen from its
RPC: a caller whose answer was lost may ask again, and may do so while its
first call still runs. State: `row`, the `payments` row of the subject with the
gateway id it refers to; `mollie`, one status per gateway payment made;
`payable`, the gateway payments whose checkout URL reached a caller; `calls`
and `hooks`, the calls and deliveries in progress with the row each loaded;
`void`, the gateway payment a CancelPayment is about to cancel.

`LookUp` takes the three branches of `Execute`/`handleExisting`; `InsertRow`
meets the unique index on the subject; `CallGateway` makes a new payment at
Mollie every time; `Attach` saves the whole loaded row; `Replay` returns the
URL of the referenced payment while it is open; `CallFail` and `WebhookFail` end
a call or a delivery at any point; `Attach` may also lose its answer.

With calls one at a time `PayableIsReferenced`, `KeepsPaymentOutcome` and
`PaidIsCredited` hold however many of them fail. With overlapping calls each
of them is false (the customer may hold a URL the row no longer refers to, and
a stale `Attach` may write a settled status back to pending). order-service
makes no such calls. What remains with overlaps is `EventsAreReal`, proved for
any calls.

### Outbox

* `table[r]`: the `outbox_events` row. `locked_until` only matters compared with
  the current time, so `lease` is none, live or expired; likewise `due` for
  `next_attempt_at`.
* `claims[b][r]`: what a batch in progress holds of a row: the attempt number it
  was handed and how far its goroutine got (queued behind the batch's
  semaphore, publishing, confirmed, error).
* `published`, `lingering`: rows the broker accepted; publishes that go on after
  their caller's context ended.
* `worker`: running, stopping (SIGTERM), down.

`FetchAndMarkProcessing` claims any non-empty set of claimable rows up to the
limit: `SKIP LOCKED` and the order of the query are abstracted to that choice.
`ReleaseUnprocessed` either releases a row or drops it (a goroutine that took
it but found the context ended returns without booking). Backoff lengths are
abstracted to "later".

A lease is not only lost by the dead, as the comment at
`order-service/internal/infrastructure/persistence/outbox.go:35` suggests: rows
are leased when fetched, publish only `Concurrency` at a time, and ticks do not
wait for earlier batches, so a row that still queues in a live batch may be
claimed and published by a second one. `ClaimsAreDistinct` and `SettledStays`
are about the two claims that result.

### Delivery

State: the broker's `queue` of copies (message and `x-retry-count`), the one
copy the consumer holds unacknowledged (prefetch 1) and how far it got with it
(`pc`), the messages in the dead-letter queue (`dead`), and counts of publishes,
successful and failed handlings.

`Deliver`, `DispatchOk`/`DispatchError` (the handler), `Republish` (a second copy
at the tail, its counter one higher), `RepublishError`, then `Ack`, `Reject`
(to the dead-letter queue) or `Requeue` (back to the head, counter unchanged).
`ConnectionLost` gives the unacknowledged copy back at any point, so also
between a republish and its ack. The sleep before a republish is left out: the
consumer is one goroutine and handles nothing meanwhile.

### Onboarding

State: `row`, the restaurant's status, its completed items (`done`) and which
details its columns hold (`columns`); `payout`, the payout details by status;
`announced`, the events in the outbox by name; `pc`, `cmd`, `res`, each request
with its command and the copy of the row it loaded.

`Load` is the read and the check a command makes on its copy (`Admits`);
`UpdateContact`, `UpdateAddress`, `UpdateDelivery`, `UpdateOpeningHours`,
`UpdateTags`, `CreatePayout`, `ApproveRestaurant` and `LaunchRestaurant` are the
transactions that save the whole copy back with their events; `UpdatePayout` is
one conditional UPDATE; `RestaurantInitiated` is the consumed event that creates
the row. `Fail` stands for the geocoder, a slug taken, too few pizzas and a failed
transaction.

Two overlapping commands can undo one another's item or status: a profile
update that loaded the row before an approval or a launch and saves it
afterwards takes the status back, which the documented workflow does not have,
and an item may be unticked for ever: when a save of an older copy follows
CreatePayout, the payout item is gone while the submission stays, CreatePayout
is refused from then on and UpdatePayout ticks nothing, so the restaurant cannot
leave draft (`docs/services/restaurant.md:56-58` has each item completed by its
command). The
invariants are what survives all the same: the row may step back, but only by
such a save (`OnlyLostUpdatesStepBack`), and never into a state whose checklist,
columns, payout or announcements are missing (`PastDraftIsComplete`,
`NoNilDereference`, `ApprovedIsPaid`, and by proof only `EveryStageAnnounced`);
payout details once active stay as they are (`ActivePayoutIsFinal`, proved).

### PizzaMirrors

The three services of one pizza. restaurant-service: `pizza` (status and
`updated_at`), `prices` (per size: no row, inactive, active), `active` (the
restaurant is launched), `now` (the clock), `requests` with what each read before
its transaction and wrote in it, `announced`, the last event recorded. `pending`:
the events a consumer still has to acknowledge; it takes any of them, and an event
it took may stay (a lost ack, a second publish), so delay, reordering and
repetition are all in that set. The copies: `index`, the restaurant's document
with this pizza; `row` and `priceRows`, the read model's tables. They share
nothing, so a behaviour follows one of them (`consumer`); the restaurant-service
part is the same in both, and the clock counts the units that consumer compares:
milliseconds in search-service (`UnixMilli`, strict `>`), microseconds in
order-service's tables.

A request is an `UpdatePizza`, a `SetPizzaPrices` or a `LaunchRestaurant`; any of
them overlap. `Load` reads the restaurant, `ReadPizza` the pizza, `ReadPrices` the
prices of a request that does not set them. Inside a `SetPizzaPrices`' transaction
`UpsertPrices`, `FindUnsold` and `DeactivateUnsold` are the two statements of
`ReplacePrices`, at read committed and with PostgreSQL's row locks (`Locks`).
`DrawStamp` is gorm's `Save` taking `updated_at` before its statement waits for
the row: the clock moves on or stands still, so requests may commit in another
order than they drew their stamps, and with the same stamp. The actions named
after the commands are the commits: the row is saved with the stamp, an update
announces the prices it read earlier, a price change what is stored after its
own, a launch everything as read. `SaveProfile` is a whole-row save of the
restaurant as it was before its launch, after which it can be launched again.

`SearchHandles` applies the guarded scripts (`UpsertSnapshot`, `UpsertPizza`,
`RemovePizza`); `OrderHandles` the guarded upserts and the guarded delete, which
takes the price rows along (foreign key with `ON DELETE CASCADE`);
`OrderHandlesPartly` is the same cut short by the database, since order-service
uses no transaction here.

A copy settles on the last announcement (`MirrorsSettle`) but for three causes,
which the history `astray` names. Without any one of them, for either consumer,
TLC finds the property violated:

* `stamps`: the last announcement's stamp is not later than one announced before
  it, because the request that drew first committed last or both drew in one
  millisecond (microsecond). The guards then keep the earlier request's pizza.
* `relaunch`: the restaurant was launched twice, by two overlapping launches (each
  checks only the copy it read) or after a stale profile save. The index takes the
  second document whole and forgets its pizzas' stamps; the read model keeps a
  pizza the second snapshot leaves out.
* `overtaken`: the removal last announced was taken while an event that restores
  the pizza was on its way. Nothing is left to compare that event with, and the
  pizza is back although `docs/services/search.md:287-294` promises that no older
  event clobbers newer data.

A price row is only written for the sizes a message lists: a size first priced
between the read and the save of an `UpdatePizza` is not in the event with the
newest stamp, and the read model keeps what an older event said of it, while the
index drops it. What is announced is what is stored if the command's copy was up
to date (`FreshSavesAreAnnounced`); a stale `UpdatePizza` announces prices that
were replaced, and an edit that read the restaurant before its launch announces
nothing, so the copies may settle on what the source no longer holds.

Abstracted: names, toppings and amounts (they travel with the status and the
prices); an event that runs out of retries is dead-lettered (`Delivery`) and here
stays pending; the restaurant's other pizzas, which make it ready for launch.

### Cart

One customer. State: `cart`, the row of `carts` (`NoCart` when there is none) with
the restaurant as its menu; `rows`, the `cart_items`; `orders`, what Checkouts made
of the customer's carts; `requests`, each request with what it found. A quantity
is the set of the requests that make it up (`adds`), so that a lost or doubled
addition shows; `owed` follows what the customer asked for and `slips` the two
ways an empty cart comes about.

Every request first finds the cart (`Begin`) and writes later, in a statement of
its own: `CreateCart` and `AddOrMergeItem` (the unique `customer_id` and the foreign
key refuse what came too late), `UpdateItemQuantity`, `RemoveAndCount` and
`RemoveCommit` (the transaction of `RemoveItem`, cut after its count),
`CheckoutCommit` (the order of the lines read, and `Clear`). A removal holds the
row it deletes until it commits (`Removing`), and whoever deletes the cart waits
for such rows, which the cascade would take (`Waits`); a removal and a Checkout
that wait for each other are a deadlock that PostgreSQL ends by failing one of
them, which is `Fail`. What a removal counts still has the rows that other open
removals delete.

So two removals of the last two lines leave an empty cart, and so does an
`AddItem` that fails after `Create`; either binds the customer to its restaurant
until something is added and removed again, although `docs/services/order.md:248`
makes a missing and an empty cart the same state (`EmptyCartHasReason` says that
there is no other way). An addition that commits between the count and the
deletion, or between Checkout's read and its `Clear`, is answered 201 and swept
away (`AcceptedStays` excludes exactly those). Two Checkouts that found the same
cart both order it (`BoughtIsGone` excludes any later one).

Left out: `GetCart`, which only reads; quantities over `SMALLINT`, a failed
statement like any other; why Checkout rejects (in `OrderPayment` as well).

### Accounts and Sessions

identity-service for one e-mail address. State: `rows`, its
`email_verifications` (no constraint keeps them single); `slot`, the rate
limiter's key in Redis; `requests` and `regs`, calls of `RequestEmailOTP` and of
the two registrations with the row each found; `user`, `mailed` (the code last
committed to the outbox) and `events`. A code is the request that drew it.

`Allow`, `FindRow` and `SaveCode` are the limiter, the read and the transaction
of a request; `Verify` compares, `IncrementAttempts` counts in the database,
`MarkUsed` saves *the whole row it read* as used; `CreateUser` is the
registration's own transaction, `RegistrationFails` all its ends, among them the
unique index on the address. `CodeExpires` and `CooldownEnds` are time passing.

The code mailed last works unless one of five things happened (`excuse`): it was
used, guessed at too often or expired, and, which nobody intends, a registration
with an older code wrote its own row over it, or two requests that overlapped
left two rows of which only the older is read. Each is reached by the run, and
`MailedCodeWorks` says that there is no sixth. A registration that fails after
`MarkUsed` has spent its code; user and events agree all the same
(`RegistrationIsWhole`).

`Sessions` follows the refresh tokens: `live` the keys in Redis, `session` the
login each token descends from, `calls` the refreshes in progress. A refresh is
`Find`, `RefreshSave`, and `RefreshAnswer` with the `Delete` whose error the code
ignores. `RotationHasReason` says that a session has a second token only during
a refresh or after one that overlapped another, was cut short or failed to
delete; `LoggedOutStaysOut` that a logout outside those cases ends a session for
good. `Accounts` takes the sessions' steps for an account that exists from the
start: registration and sessions share nothing but the user.

### Customers

One customer in two services. State: `profile` (customer-service) and `mirror`
(order-service), each a row and its phone; `book`, the addresses as absent,
plain or default; `handler`, `AddressSaved.Handle` between its read and its
write; `inflight` and `dead`, the events; `orders`.

`UpdatePhone`, `SetDefault` and `DeleteAddress` are the API; `Checkout` is what
order-service asks of the mirror before it announces an address; `StoreCustomer`,
`MirrorCustomer`, `MirrorPhone`, `SkipAddress`, `ReadBook`/`CreateAddress` are
the handlers. A message that was handled may stay (`Handled`); one that failed
is retried with a counter and finally dead (`Failed`).

The foreign key from an address to its customer is never violated by an event
that overtakes the registration (`AddressHasOwner`): only a delivery announces an
address, a delivery needs a mirrored phone, and that phone came from
customer-service's own row. The mirrored phone is guarded by nothing: it ends as
something else than the last one when that one's event came before the mirror's
row, an older one after it, or it is dead (`PhoneSettles`). A book without a
default had it deleted: nothing promotes another (`DefaultHasReason`).

### StoreMirrors

A restaurant's own fields and its topping prices. restaurant-service: `store` (the
last writer of the fields, and whether it is active), `price` (the last writer
of each topping's price), `clock`, `commands` with what each read. The copy of
one of the two services that keep one (`reader`): `replica`, with its stamps.

`LoadStore`, `ListPrices`, `TakeTime`, `SaveRow` are a launch or an update of the
fields; `LoadStore`, `TakeTime`, `WritePrices`, `CommitPrices` a
`SetToppingPrices`, which draws its time before it waits for rows and lists the
prices inside its transaction. The clock counts the units the reader compares
(milliseconds in the index's scripts, microseconds in order-service), and
`TakeTime` may find it where the last command left it. `IndexLaunched`,
`IndexUpdated`, `IndexPrices` are the guarded scripts of search-service,
`StoreEvent` the guarded statements of order-service, cut after any of them;
`Dies` is the retry budget.

A mirror settles on the last writer (`FieldsSettle`, `PricesSettle`) except for
causes that the histories name: a writer that had read the restaurant before its
launch announces nothing, and saves it unlaunched (`unannounced`); one whose time
is not later than that of a save before it, because it drew first and committed
last or because both drew in the same millisecond, is refused by the strict
guards (`stamps`); two `SetToppingPrices` of different toppings do not see one
another and the index takes the newer list whole (`overlap`); an event is dead
(`dead`); or the restaurant is launched a second time, which forgets how old the
index's prices are or, with the time of the first, is ignored (`relaunch`).

### EventFlow

All services' ends of the event flow. Per service, as its own code states them:
the events of its transactions (`IdentityTransactions` ...), the names its worker
binds and on which exchange (`OrderExchanges` ...), the handlers registered with
its dispatcher (`OrderHandlers` ...), and what notification-service mails, in
order (`Mails`). State: `row`, each event's outbox row and how far a relay is
with it; `bound`, the workers that have declared their queue; `queues`, copies
with their retry counter; `accepted`, `deadLetters`, `mails`; `mishaps`, the
failures so far.

A behaviour follows one transaction (`Commit`) through `Claims`, `Publishes`,
`Settles` (or `Stops`: a shutdown or a crash) and `Delivers` (`Accepts` or
`Rejects`), including `order.confirmed`, which order-service's handler commits in
turn. `Connects` may come at any time: messages are published without the
mandatory flag, so what is published before a worker first bound its queue is
confirmed and lost to it (`early`). One more exception is found:
`restaurant.initiated` is created and not upserted, so its second delivery is
dead-lettered although the restaurant is there (`DeadHasReason`).

Abstracted: the details of `Outbox` and `Delivery`; which mailbox an address
is; handlers are functions of the event, their effects being in the other
modules.

## 3. Runs

| run | instance | result |
|---|---|---|
| `order_payment` | 1 order, 2 API requests, 2 webhook deliveries, 1 fault | all properties hold; 265,010 states |
| `order_payment_link` | same | `PaymentIdUpdateKeepsStatus` violated |
| `payment` | 1 call at a time, 3 gateway payments, 2 webhook deliveries, 2 faults | all properties hold; 60,221 states |
| `outbox` | 2 rows, 2 batches of 2, concurrency 1, budget 2, 1 fault | all properties hold; 83,228 states |
| `delivery` | 2 messages, one poisonous, 2 publishes each, budget 3, 2 faults | all properties hold; 99,852 states |
| `onboarding` | 2 requests, 2 of the 4 details, 2 payouts | all properties hold; 346,453 states |
| `pizza_mirrors` | 3 requests, 2 sizes, either consumer; symmetric in both sets | all properties hold; 1,478,441 states |
| `cart` | 2 requests, menus of 2 and 1 lines, 5 ids | all properties hold; 812,214 states |
| `accounts` | 2 code requests, 2 registrations, 3 attempts; 2 refreshes, 4 tokens | all properties hold; 378,155 states |
| `customers` | 2 addresses, 2 orders, 2 phones, 1 retry | all properties hold; 593,925 states |
| `store_mirrors` | 3 commands, 2 toppings, either reader | all properties hold; 2,804,774 states |
| `event_flow` | 13 transactions, 5 workers, 2 attempts, 1 retry, 2 mishaps | all properties hold; 437,033 states |

The violation is a statement of the repository's documents that the code does
not keep; it is quoted in `findings`: `docs/services/order.md:281` has Checkout
end with an update of `payment_id` alone, the code saves the whole aggregate
built before the RPC and takes back a Cancel that committed meanwhile.

The type invariants (`TypeOK`, `AccountsTypeOK`, `StoreTypeOK`, `FlowTypeOK`) are
in no run's list: each is a theorem.

Why the bounds are enough. Orders share only the cart, and nothing after
`CheckoutLoad` depends on it, so one order shows every interleaving of its
handlers. A race of two requests is the smallest that can go wrong, and the
theorems cover any number. One fault suffices for each error path, and lies
below the consumer's retry budget of three, past which a message is
dead-lettered and `PaidSettles` would be false. In `payment` two faults leave two
payments behind at Mollie before a third is attached. In the outbox two batches on
one row give the overlap, two rows with concurrency 1 the queueing behind the
semaphore, a budget of 2 (the code's default is 3) one retry and one last claim.
In `delivery` the budget is the code's. In `onboarding` two overlapping requests are
the smallest lost update; a detail with a column somebody dereferences and one
that only Approve reads are enough of the four, and the theorems cover all.
In `pizza_mirrors` three requests are a launch and two saves, whose events are
enough for an older one to meet a newer one on either side of the snapshot, or
two launches and a save; all three causes occur for both consumers. Requests and
sizes are interchangeable (`Symmetry`): no definition tells one from another.
In `cart` five ids allow a cart, its lines, a second addition to one and the cart
that replaces it; two lines of one menu are what two removals and a merge need, the
second menu what a replaced cart of another restaurant needs.
In `accounts` two requests and two registrations are the smallest races on the
row, and every excuse occurs; three attempts are
the code's. In `customers` two phones overtake one another, two addresses are
what "the first one" needs, and one retry precedes a dead letter. In
`store_mirrors` three commands are a launch between two writers, or two launches
and a writer. The clocks of both need no bound: each request draws once. In `event_flow`
every transaction of the system is one of the initial choices; two mishaps are
what a dead letter needs at one retry (one for each try), or a
repeated publish and a lost acknowledgement.
Deadlock is not checked (`CHECK_DEADLOCK FALSE`): a settled order, a table of
settled rows and a used-up bound are ends the models may reach.

### Fairness

* `OrderPayment`: Mollie repeats a webhook while it owes one (its documented
  retries); a webhook handler that is under way ends; the worker takes a
  recorded event until it is acknowledged (at-least-once delivery, which
  `Outbox` examines) and ends its transaction. No fairness for customers,
  restaurant owners or faults. Weak fairness everywhere.
* `Payment`: Mollie repeats a webhook while it owes one, and a delivery that is
  under way ends; none for callers.
* `Delivery`: the consumer's loop goes on (weak fairness for its next step);
  reconnecting is part of losing a connection. None for publishers and faults.
* `EventFlow`: the relays' polling and the workers' loops go on (weak fairness
  each). None for committing, for a worker's first start, or for faults; a worker
  that never starts is why `early` is an exception of `CommittedArrives`.
* `Outbox`: time passes; goroutines end; a stopped process exits (StopTimeout)
  and is started again by Compose's restart policy. Strong fairness for a row
  being fetched: it may lose its claimable state and regain it, and the ordering
  of the query is taken to reach every row, which holds while the backlog stays
  below what the worker can fetch (see the hazard at `outbox.go:62`).

## 4. Proofs

All theorems hold for every set of orders, requests, deliveries, rows and
batches and every bound; the only assumptions are the named `ASSUME`s on the
numeric constants.

**`OrderPayment_proofs`.** None of the safety properties is inductive: the
handlers' local copies must be constrained as well as the tables. `IInv` adds to
`TypeOK`, for each order: what payment_db and Mollie hold at each point of
CreatePayment (`StartInv`); that a settled payment row, the events recorded for
it and every delivery's answer agree with Mollie's final status
(`GatewayInv`); that the row *and every copy of it a handler has* is coherent,
and, if it shows a prepared order, that the payment succeeded and was confirmed
once, with the transition guard each program counter implies (`CopyInv`); and
that after a confirmation the row is neither absent nor pending, so that
nobody can confirm again (`ConfirmInv`). `Inductive` proves `Spec => []IInv`, one
step per action. From it follow `TypeCorrect`, `Prepared_Paid`,
`Confirmed_Once`, `Gateway_Agrees`, `Linked_Payable`, `Row_Coherent`, the action
property `Never_Reopened`, and `Implements_Outcome`: every step of
`OrderPayment` is a step of `PaymentOutcome` or leaves its variables alone.

**`Payment_proofs`.** `AnyCallsInv` says that a delivery about to commit holds
the final status of the payment it asked about; it is inductive for any set of
calls and gives `TypeCorrect` and `Events_Real`. The other theorems have the
hypothesis `OneCall` (at most one call in progress, any number in succession):
`OneCallInv` adds that the row a call goes to the gateway with is still the
row, has no reference and so cannot be found by a delivery, and that a settled
row agrees with Mollie. From it `Payable_Referenced` and `Implements_Outcome`
follow.

**`Outbox_proofs`.** The key part of the invariant is that a live claim's
attempt number is at most the row's and differs from that of every other live
claim, and that a claim with a confirmed publish is of a published row; with it
`Processed_Published`, `Failed_Exhausted`, `Claims_Distinct`,
`Processing_Leased` and the action property `Settled_Stays` follow.

**`Delivery_proofs`.** The invariant relates retry counters to failures (a copy
whose counter is n stands for n failures of its message, one more while it is
about to be retried or rejected) and says where a message is when an ack is
under way: the copy in hand no longer counts, because it was handled or has a
successor in the queue. It gives `TypeCorrect`, `Nothing_Lost` and
`Dead_AfterBudget`. For `Repeats_HaveReasons` copies are counted: a message's
handled runs, its copies in the queue and the copy in hand (until it was handled
or has a successor) are together at most its publishes and the faults
(`CopiesInv`). Taking a copy from the head or putting one back shifts the
positions of the others, and a shift is an injection that keeps the number.

The second half is about `EventFlow`. `FlowInv` says that a queued copy has a
handler and a mishap for each of its tries, unless it is the restaurant's that
is there already (`TriesInv`); that a confirmed publish has reached every worker
that had a queue (`ReachInv`), which needs that bindings and handlers name the
same events (`BoundAsHandled`); that a recipient's mails, the queued copies that
could send one more and the publish still to come are at most one more than the
mishaps (`CountInv`); and that a mail list is sent from its head on, so the owner
has no mail its customer lacks (`MailInv`). From it follow `Flow_TypeCorrect`,
`Missed_HasReason`, `Dead_HasReason` and `Mails_HaveReasons`.

**`Onboarding_proofs`.** Every invariant is about the row, yet a stale copy may
become the row at any time, so the inductive invariant says of each copy what it
says of the row (`Sound`): its items have their columns, a copy past draft has
all items, an approved one active payout details, and each stage's events are in
the outbox. A copy stays sound because payout details and announcements are
never taken back (`CopyStaysSound`). From it follow `TypeCorrect`,
`PastDraft_Complete`, `NoNil_Dereference`, `Approved_Paid`,
`EveryStage_Announced` and the action properties `ActivePayout_Final` and
`OnlyLostUpdates_StepBack`.

**`PizzaMirrors_proofs`.** A stamp by itself says little, since it is drawn before
its row is locked and may be equal to another's. `latest`, the greatest stamp
announced, bounds everything that is pending or stored (`StampInv`). An
announcement above it clears `astray`; from then on, as long as nothing goes
astray, whatever else is pending is older (`LastInv`), and what a copy holds of
that stamp is what was announced (`IndexInv`, `ReadModelInv`). The index's
snapshots carry no stamps, but without a relaunch there is one and the document
came from it (`SnapshotInv`). Once the last announcement has been taken it cannot
be lost: either its stamp is stored, which refuses the rest, or it was a removal
that overtook nothing and no pending event would restore the pizza
(`IndexSettled`, `ReadModelSettled`). `Mirrors_Settle` is the case of an empty
`pending`; `FreshSaves_Announced` needs only the types. Neither uses the order in
which requests draw their stamps and commit, nor that stamps differ.

The second half is about `StoreMirrors`, where likewise a later save may have an
earlier time or the same. `StoreInv` says that no command has a time the clock has
not shown (`ClockInv`), that an event says what its writer committed
(`NewsInv`), that nothing is announced before a launch, of which there is one
unless the histories name a second (`OpenInv`), and, unless a cause is named,
that the last writer of the fields has a later time than all others and its event
is in flight or taken (`FieldsInv`). The prices are the same topping by topping
(`PricesInv`): the latest list shows each price as it is, and a copy holds of
each topping at most that list's time, and with that time its price. From it
follow `Store_TypeCorrect`, `Fields_Settle` and `Prices_Settle`.

**`Cart_proofs`.** What a request found must still be true of the cart it found
(`RequestShape`: ids are used once, and a line that was checked belongs to the cart
with that id); while somebody has decided on the cart, no row but the one being
removed and no token but those a Checkout read is owed (`DecidedIsNotOwed`); and
as long as no removals overlapped, a removal that counted another line leaves it
there (`CountIsRight`). From these follow `TypeCorrect`, `OneRestaurantAlways`,
`BoughtIsGoneAlways`, `AcceptedStaysAlways` and `EmptyCartAlwaysHasReason`.

**`Customers_proofs`.** `Owner` is the chain behind `Address_HasOwner`: a mirrored
phone, a phone's event and an address's event each imply that customer-service
has the row. `Phone` says that the last phone is in the mirror, in a message, or
that a named cause has occurred, from which `Phone_Settles` follows. `BookInv`
adds to `DefaultHasReason` that what `AddressSaved` read still holds when it
writes, since nobody else adds rows: an empty book is still empty, and one that
was not has a default or lost it to the customer.

The second half is about `Accounts` and its `Sessions`. Neither session property
is inductive: `OneRefresh` adds that a session with no slip is refreshed by one
call at a time, which holds every token of it that counts, and that an ended
session is refreshed by none, so that nobody can store another token for it. It
gives `Rotation_HasReason` and `LoggedOut_StaysOut`. On the side of the codes,
`RowsInv` says that a row somebody read is still there under its id, and
`CodeInv` that there is one row unless two requests split it, and that it takes
the code mailed last unless something spoilt it; `MailedCode_Works`,
`Registration_IsWhole`, the action property `Spent_StaysSpent` and
`Accounts_TypeCorrect` follow. That the oldest row exists (`First`) needs the
least element of a set of ids: `LeastNatural` takes it from the well-foundedness
of proper inclusion between finite sets of naturals, since the induction
theorems themselves cannot be instantiated here.

Each strengthened invariant was checked with TLC on its run's instance before it
was proved.

Only model-checked: the liveness properties `PaidSettles`, `PaidIsCredited`,
`RecordedSettles`, `PublishedSettles` and `CommittedArrives`, because fairness is
beyond the prover.

## 5. Plan

In this order; each module with its runs, then its proofs where marked (P).

1. `OrderPayment`, `PaymentOutcome` (P), done.
2. `Outbox` (P), done.
3. `Payment` (P): CreatePayment replayed and concurrent with webhooks
   (`handleExisting`, the unique index on the subject, stale attach), done.
4. `Delivery` (P): queue, prefetch 1, retry counter, republish to the tail, lost
   acks, dead-letter queue, done.
5. `PizzaMirrors` (P): one pizza and its two copies, done.
6. `Cart` (P): overlapping requests and Checkouts on one cart, done.
7. `Onboarding` (P): checklist, review, approval, launch, payout, lost updates, done.
8. `Accounts` and `Sessions` (P): codes, attempts, cooldown, events, refresh tokens, done.
9. `Customers` (P): phone, default address, the handlers and the API, done.
10. `StoreMirrors` (P): restaurant fields and topping prices, done.
11. `EventFlow` (P): the composition of outboxes, exchanges, workers and mails, done.

What would come next: abstract specifications of `Delivery` and `Outbox` (a
message is handled at least once or given up) with proofs that both implement
them, and a model of the search index's queries.

## 6. Not modelled

Formatting, parsing, geocoding, prices and totals, HTTP and gRPC plumbing,
JWTs and password hashes, logging and tracing, migrations and wiring. Payments
at Mollie beyond the five statuses (no refunds or chargebacks: the code has
none). The circuit breakers: counting and timers are inside the gobreaker
library, and to the callers an open breaker is one more failed call, which
`OrderPayment` has at every call. Search queries, which change no state. The
publisher's mutex and its reconnecting. `findings` and `hazards` name the lines
where what is left out matters.
