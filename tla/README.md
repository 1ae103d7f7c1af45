# Craavee: a verification of the ordering system

Craavee is a grocery delivery service for one or more small stores: a customer
and runner app, a store app, an administration console, and a Postgres
database (Supabase) whose stored functions hold all of the business logic. The
apps call Edge Functions; each Edge Function authenticates, validates its input
and calls one `process_*` (or `create_order_*`) function of the database; that
function is one transaction. Two things can go wrong here. Between two customers,
a packer, two runners, a support desk, the payment gateway and the clock, it goes
wrong between the transactions: the **order core** models those. Between one
person's screen and the database it goes wrong in what a screen remembers,
repeats and believes: the **app modules** model that, over an abstraction of the
orders that the core is proved to implement.

The modules are TLA+. They are checked with TLC on small instances and, where
that is possible, proved with TLAPS for any number of orders, products, runners,
dispatchers and calls. `PROJECT.json` maps every definition to the lines it
models. Paths below are relative to `src/`, and a migration of
`src/supabase/migrations/` is named by its number (0004 is
`0004_order_creation.sql`). Where a later migration replaces a function, the last
version is the one modelled: `process_refund` is that of 0011.

## 1. The system

### Components, their state and their operations

| Component | State | Operations | Model |
|---|---|---|---|
| Order tables and triggers (0001, 0002, 0004) | `orders`, `payments`, `order_items`, three rule tables | transition triggers, deferred pair trigger, CHECKs | `OrderRules`, `OrderTables` |
| Checkout (0004) | `orders`, `inventory.qty_reserved`, `profiles.wallet_balance`, `wallet_ledger`, `promos`, `promo_redemptions` | `create_order_phase_a` | `Checkout` |
| Payment intent (0004, `create_order/handler.ts`) | `payments.gateway_intent_requested_at`, `gateway_order_ref` | pre-check and resume, `claim_payment_intent`, the gateway call, `persist_gateway_ref` | `PaymentIntent` |
| Webhook (0005) | `webhook_events`, the order tables | `process_payment_webhook` | `Payments` |
| Expiry sweep (0004) | `orders.reservation_expires_at` | `expire_stale_reservations`, every minute | `Payments` |
| Fulfilment (0006) | `inventory`, `order_items.fulfilled_qty`, `orders.packed_at` | `process_mark_packed`, `process_stock_out` | `Packing` |
| Refunds (0005, 0011) | `refunds`, `payments.refunded_amount` | `process_refund`, `process_admin_cancel_order` | `Refunds` |
| Delivery (0007, 0008) | `orders.runner_id`, `order_delivery_codes`, `delivery_code_hash`, `runner_earnings`, the attempt log | `process_claim_job`, `_mark_picked_up`, `_release_job`, `_verify_delivery_code`, `_mark_delivery_failed`, `_admin_reassign` | `Delivery` |
| Store administration (0011, 0012) | `stores.is_open`, `stores.max_queue_depth`, `inventory.qty_on_hand`, `products.is_listed` | pause and queue limit, adjust, list | `StoreAdmin` |
| Staff roles, tokens, settlement (0002, 0011) | `staff_roles`, `runners`, `runner_earnings.settled_at`, the role claim in each token | the token hook, `process_assign_staff_role`, `process_settle_runner_earnings` | `StaffAccess` |
| Notifications (0010, 0013, `dispatch_notifications`) | `notification_outbox`, `push_tokens` | enqueue trigger, `register_push_token`, `claim_notification_batch`, the post to the provider, `mark_notification_sent` | `Notifications` |
| Session of the mobile app (`apps/customer-runner/lib/auth`) | the stored session, the role the app believes, the sign-in form | sign-in, claims reads, refresh, sign-out, relaunch | `AppSession` |
| Cart and checkout (`apps/customer-runner`) | cart, cached catalog, attempt key, form, requests under way | taps, choices, submit, every answer of `create_order` | `Cart`, `CustomerApp` |
| Order screen (`apps/customer-runner`) | query data and state, poll timer, payment sheet | poll, read, refetch, pay | `OrderScreen` |
| Edge Functions of staff and runners (`supabase/functions`) | none of their own | admit, call one rpc, map its error, answer | `EdgeFunctions` |
| Console, store app, runner's phone | rows read, dialogs, keys, disabled buttons, messages, the Realtime channel | read, hint, confirm, answer | `StaffScreens` |
| Scheduled operations (0013) | cron jobs | the schedules; `stale_runner_jobs` and health only read | the fairness of `OrderCore` and `Notifications` |
| Row level security (0002, 0003) | none | who may read what | the parts a model needs |
| Gateway adapters | none | signatures, normalised events | the meaning of an event |

`PROJECT.json` lists the same components with their source files, and says of
each that is modelled in part what is left out.

### How they interact

All communication between people is through the rows of the shared tables. The
outside world enters through calls (customers, packers, runners,
administrators), through the gateway's webhook, and through the scheduler.

* Checkout reserves stock, debits the wallet, redeems a promo and leaves an
  order `created` with a payment `pending`, or `confirmed`/`captured` at once
  when the wallet covers it.
* The webhook confirms or fails the order; the sweep fails it when its
  reservation has expired. Both give back the reservation and the debit. A
  capture that comes later still is credited to the wallet.
* Packing takes the goods off the shelf and off the reservation; a stock-out
  shrinks the order and pays the difference back.
* A refund pays a part of a capture back into the wallet; one that pays the
  rest cancels the order, and releases its reservation if it was `confirmed`.
* Delivery moves a packed order to a runner and to the door, or back.
* Each of these status changes leaves a row in the outbox, which a dispatcher
  sends to the devices its owner is registered on at that moment.
* A screen learns of a change from its poll, or from a Realtime hint that names
  a table and nothing else, and reads again. It acts by a call whose answer may
  be lost although the call has been served.
* Authority is `staff_roles`. It travels as a claim in a token that is older
  than the row it was copied from, so the functions that change roles or pay
  runners read the row again.

### What makes it hard

* **Interleaving.** Postgres runs these transactions at READ COMMITTED. A row
  that is locked (`FOR UPDATE`) is seen in its current state; anything read
  before or without a lock may be out of date when it is used. Checkout, the
  refund, the claim and the check of the actor each read something without a
  lock.
* **Delivery of calls.** The gateway redelivers, reorders and contradicts
  itself. Every client call may be repeated, and two copies may run at once; an
  answer may be lost, or arrive after the screen that asked has gone.
* **Partial failure.** A function may die anywhere before its COMMIT. The
  sweep is one transaction over many orders: one bad row rolls back all. A
  dispatcher may die between the provider's answer and its mark.
* **Deferred checks.** The (order, payment) pair is checked at COMMIT, after a
  function has decided that everything is in order.
* **Three descriptions of one sum of money.** `payments.amount` and
  `refunded_amount`, `orders.payable` and `wallet_applied`, `wallet_balance`
  and `wallet_ledger` are each written by most functions.
* **Leases and clocks.** Gateway calls and outbox rows are claimed for sixty
  seconds, and nothing stops whoever holds a claim for longer.
* **Two reads.** An order and its payment are read one after the other, while
  both move.

### What correct means

* Stock: what live orders hold is reserved (`ReservationCoversHeld`), what is
  reserved is held (`ReservationIsHeld`), the shelf is explained
  (`ShelfIsAccounted`).
* Money: every order's account balances (`MoneyBalances`), the status copied to
  the order is in step (`PaymentStatusCopyAgrees`), a key pays once
  (`EachKeyPaysOnce`), a cancelled order costs nothing
  (`CancelledOrdersCostNothing`, refuted).
* Promos and queue: limits hold or are overshot by a known amount, the queue's
  limit changing under live orders
  (`PromoLimitsHold`, `QueueOvershootBounded`).
* Statuses: the two move as one pair along a published machine
  (`FollowsTheStateMachine`, and `PairsRest`, which is proved only); no wait for a payment lasts for ever
  (`PaymentWaitEnds`).
* Payment: one gateway call at a time, and only through the reference on file
  (`OneCallAtATime`, `OfferedRefIsOnFile`); one settlement (`SettledOnce`), and
  one in the end (`CaptureIsAnswered`).
* Delivery: one live job for each runner, a usable code for every live job, none
  elsewhere, one earning for each delivery (`OneLiveJobEach`, `LiveJobsCanFinish`,
  `NoStrayAssignment`, `EarningsMatchDeliveries`, `OnlyAdminSwapsRunner`).
* Access: only administrators change roles and settle, one of them is left, and
  every runner can be given an order (`OnlyAdminsAct`, `SomebodyIsAdmin`,
  `RunnersAreAssignable`).
* Notifications: no repeat unless a claim was lost, to the clock or to another
  device's failure, no mark without a message, no mark taken back, no row forgotten
  (`AgainOnlyAfterALostClaim`, `SentMeansTaken`, `SentStays`, `EventIsSettled`).
* The customer's phone: one attempt, one order, and the one that was asked for
  (`OneOrderPerAttempt`, `OpensWhatWasAsked`); the screen pairs no new order with
  an old payment and shows the end (`PaymentShownIsNoOlder`, `EndIsShown`); the
  app comes back to the right area (`AreaFollowsSession`).
* Staff screens: one payment per dialog, no false report of success, own changes
  read again, no button lost, no page out of date for good (`PaysOncePerDialog`,
  `DoneIsDone`, `OwnCallsAreReread`, `ButtonsComeBack`, `ScreenCatchesUp`).

## 2. The modules

```
OrderRules            the three reference tables, as sets
  OrderTables         the shared tables, triggers and CHECKs
    Checkout  Payments  Packing  Refunds  StoreAdmin  Delivery
      OrderCore       all of them together; the properties
        MCOrderCore   values for TLC
        OrderCoreProofs     types, statuses, deliveries
          AccountsProofs    money, promos, the queue, stock
PaymentIntent         the reference an order is paid through
  IntentProofs

OrderStateMachine     what the rest may rely on of an order; OrderCore implements it
  (instantiated by OrderCore, CustomerApp, OrderScreen, EdgeFunctions, IntentProofs)

Cart                  the cart's operations
  CustomerApp         cart, checkout, order
    MCCustomerApp     symmetry for TLC
    CustomerAppProofs
OrderScreen           one order on the customer's screen
  OrderScreenProofs
EdgeFunctions         the functions the staff apps call
  StaffScreens        one page of the console, the store app or the phone
    MCStaffScreens    bounds per page
    StaffScreensProofs
StaffAccess           roles, tokens, settlement
  StaffAccessProofs
AppSession            who is signed in on a device
  Notifications       outbox, dispatchers, push tokens
    MCNotifications   devices for TLC
    NotificationsProofs
```

### The order core

**OrderTables** declares one variable per column that the logic reads or
writes, each as a function of the order, product or customer whose row it is.
`Commits(o)` is the conjunction of everything the database itself enforces when
a transaction that wrote order `o` ends: `enforce_order_transition` and the
payment transition trigger (rules in `OrderRules`), the deferred
`payment_order_consistency` trigger, and the CHECK constraints. A transaction
that breaks one is rolled back, so every modelled transaction has `Commits(o)`
as a conjunct. Whether a CHECK is ever reached is then a question one can ask
(see `ValidShortagesAreAccepted` below).

An element of `Order` is one idempotency key with the request sent under it.
The code hashes the request and refuses the same key with another one, so
customer, cart, wallet choice and promo are constants of the key: `Owner`,
`Cart`, `UsesWallet`, `PromoOf`. An order that does not exist is `"absent"`.

**One transaction, one action**, except where the code reads something without
a lock and acts on it after waiting for locks. Those calls have two actions, and
a record of the call between them:

| Call | Unlocked half | Locked half |
|---|---|---|
| `create_order_phase_a` | `BeginCheckout`: key free, store open, queue has room, products listed (0004:359-424) | `PlaceOrder`, or `LoseInsertRace` when another call took the key meanwhile, or `AbandonCheckout` |
| `process_refund`, `process_admin_cancel_order` | `BeginRefund`: the status the order is in (0011:107) | `RefundPart`, `RefundAndCancel` or `DropRefund` |
| `process_claim_job` | `BeginClaim`: the runner is online and has no live job (0007:193-215) | `FinishClaim` or `LoseClaim` |

`SetServicePause` may change `isOpen` and `queueLimit` between the two halves of a
checkout; `widest` is a history variable, the highest limit there has been.

All other functions lock the row they decide on before they read it, and a
single action is exact. The order in which rows are locked and the deadlocks
that follow from it are not modelled: a transaction the database aborts is one
that did not happen.

**OrderCore** composes the six components by interleaving, holds the
properties, and adds the fairness described below. **OrderStateMachine** is what
the rest of the system (apps, notifications, reports) may rely on of one order:
the pair `<<orders.status, payments.status>>` goes from absent to created or
confirmed, and from there along a small machine, one step at a time. `OrderCore`
implements it under the refinement `pair <- Pairs`.

**PaymentIntent** looks at one order through other eyes: the Edge Function
`create_order`, called again and again with one key, whose invocations overlap.
Each invocation is a small process, `at[r]`: it looks the key up, inserts
(Phase A), claims the right to call the gateway (Phase B), calls, and records the
reference (Phase C, three attempts, each of which may be committed although it
reports an error). No transaction spans two of these steps, so each is an
action, and `Dies` may end an invocation between any two. `claim` is the age of
the claim marker, `LeaseRunsOut` its sixty seconds. What comes back is the
gateway's: a customer who was sent checkout parameters (`offered`) pays or is
declined, and the webhook gets the events in any order. `Deliver` has the step
`Payments` leaves out, the look-up by reference: an event whose reference is not
on file is acknowledged, its id spent, and nothing else happens. So the module
is about whether the reference on file is always the one a customer pays
through. Of the rest of the order it keeps the status only.

Nothing in the code makes an invocation end before its claim runs out: the
gateway's headers have a timeout of 10 seconds, its body and the database calls
have none. The history variable `overran` records that it happened, and
`OneCallAtATime`, `OfferedRefIsOnFile` and `CaptureIsAnswered` are stated up to
that case. There a second invocation writes over the reference the first has
already handed out, and a payment through that one is lost to the system.

### The apps

These modules look at the orders from outside. An order is the pair of statuses
`OrderStateMachine` moves, and every step of it they take (`OrderMoves`,
`Commits`, `OthersMove`) is one of that machine's; since `OrderCore` implements
the machine, nothing is assumed of the orders that the core does not give. That
the apps' own steps are steps of the machine is proved for `CustomerApp`,
`StaffScreens` and, under a mapping, `PaymentIntent` (section 4).

**Cart** and **CustomerApp** are the phone of one customer from cart to order.
The cart is a function from products to quantities; each tap is an operator on
it. A visit of the checkout screen (`visit`) has a key, drawn when it mounts, and
the form's choices; `Submits` sends what form and cart hold at that moment under
the key. A request (`calls`) may be refused, served once, served after its
connection has broken (`live` is then `FALSE`), or answered when the customer is
elsewhere. `Creates` and `TakesUp` are `create_order` as its callers see it: the
same key with the same request takes the order up again, with another one it is a
conflict, after which the screen offers a new attempt. `Relaunches` keeps the
persisted cart and catalog and nothing else. `by` and `opened.asks` are history.

**OrderScreen** is the query behind the order page: `Polls`, `Refetches`,
`StartsFetch`, then `ReadsOrder` and `ReadsPayment` as two steps between which the
order moves, or a failure of either. A failed read of the payment is no error to
the code and shows as pending. The payment sheet (`OpensSheet`, `ClosesSheet`)
ends in one more read whatever its outcome.

**EdgeFunctions** has one action per function the staff apps call. Each begins
with `Admits` (a valid token with an admitted role), and then acts, replays,
refuses or fails; a failure may come after the commit. `calls` carries each
request with the reply it will have.

**StaffScreens** adds one page of one person, chosen at the start from
`Page`. Its rows (`seen`) are what the page's query gave at the last read of what
the row level policy lets the role see (`Readable`, `Listed`). `Offered` is which
buttons the page shows for a row; `OpensDialog`, `Confirms`, `Saves` and `Taps`
are the three ways of pressing one, with the idempotency key a dialog or a
stock-out line keeps; `Done`, `NotDone` and `Breaks` are the answers. `Joins`,
`Drops` and `HintArrives` are the Realtime channel: a hint is sent only while the
channel is up and only for a row the reader may still see.

**StaffAccess** has roles, tokens and the two functions that check the role
again in the database. That check takes no lock, so a call has two steps,
`ChecksActor` and then `AssignsStaffRole` or `SettlesEarnings`, with anything in
between.

**AppSession** is the mobile app's sign-in and `AuthProvider`: every report of
the auth library starts a read of the claims (`claims`), and the reads are
answered in any order, fail, or come after the session is gone. **Notifications**
extends it with push tokens (registered for whoever is signed in, deleted under
the policy's eyes), the outbox and its dispatchers. A dispatcher holds `batch`
before its one post to the provider and `tickets` after it, and `Crashes` empties
either; `Lapses` is the sixty seconds of a claim, which may pass while its holder
is still at work. A person may have several devices (0010:26). Each has a message
of its own and one claim covers them all, so the failed ticket of one gives the
claim back whatever the others' say: `givenBack` counts that for the others
(`GivesBack`), and `accepted` counts the messages the provider took.

## 3. The runs

Every run is exhaustive for its bounds. "States" is the number of distinct
states. Deadlock is checked: no run may stop, because somebody can always act.

| Run | What varies | States | What it shows |
|---|---|---|---|
| `checkout` | six keys, two calls, four units, two promos (a wallet credit for one use, a discount for one use each), a queue of two, an administrator pausing the store and setting the queue's limit to 1 or 3 (0 is refused); the reservations expire | 191,656 | stock is never promised twice; promo limits hold; the queue is longer than the highest limit so far by at most the calls under way |
| `fulfilment` | two paid orders over two products, one of them part wallet; seven gateway events (duplicate, mismatched, failed, late) against the sweep of any subset; three stock-outs, shelf counts 0, 2, 4, delisting, pause | 94,912 | no unit is promised twice, reservation and shelf are explained to the unit, money balances, the payment status copy is in step, and under fairness every wait ends |
| `delivery` | two packed orders, two runners, two claims in flight, two codes, an administrator | 57,145 | one live job each, a usable code for each, one earning for each delivery |
| `journey` | one order with everything: checkout, capture, sweep, stock-out, packing, delivery, reassignment, and two desks with two keys that refund or cancel | 244,632 | the invariants when all components act on one order, a key pays once, the state machine is followed, and the type invariant |
| `intent` | one key, two invocations at a time, two references, three attempts of Phase C, deaths, expiry, three kinds of event for each reference | 17,524 | one gateway call at a time, every reference handed out is on file, the order is settled once, and under fairness every capture is answered |
| `shop` | one product, two keys, two requests under way, any cache of the catalog, an address, a wallet; orders that confirm, fail, cancel or get packed meanwhile | 359,320 | one attempt makes one order, and what opens is what was asked for |
| `order_screen` | one order through its whole life, against polls, failed reads, the background and the payment sheet | 40,918 | the payment shown is no older than the status, and the end is shown in the end |
| `staff_screens` | one order on each of the eleven pages, with the dialogs, keys and requests of that page (`KeysDrawn`, `CallsAtOnce`), one move of another person, lost hints and answers | 482,494 | one payment per dialog, true reports, buttons that come back, pages that catch up |
| `access` | two people, three roles, two calls, one job | 2,061,265 | only administrators act, one is left, runners can be assigned |
| `notifications` | one event, two dispatchers, two attempts, one device that changes hands between two people, or two devices a customer signed out on and which stay registered | 187,058 | no repeat unless a claim was lost, marks that are true and stay, nothing forgotten; the app follows its session |

Two more runs each refute one statement of the repository about itself
(section 5).

**Why these bounds are enough to be interesting.** Every race in the core is
between at most two calls over at most two orders: the locks are row locks, and
a third party adds nothing that its absence hides. Six keys are needed in
`checkout` because the limits (queue 2, promo 1 and 2) must be reached from
below by calls that also race. Carts of two units, two products and a wallet
that covers a part make the clamps, the splits and the floors differ from their
naive versions; the faults show that each of them is reached. `MaxAttempts` of
the core is 1 where the code has 5: the limit is reached either way, and a lapse
makes room. `intent` needs two invocations for a duplicate and, since an
invocation that has replied may come back, any number of retries; two references
are what it takes to have one on file and another in a client's hands.

In `shop`, a second attempt is as good as any later one, and a cart of one item
is enough to be emptied, refilled and changed between two tries of one key.
In `access`, two people are what it takes to demote each other. In
`notifications`, the second attempt is the one that may repeat the first and the
last that may be made. One device is enough to change hands and two are what it
takes for a failure beside a success; `Start` has both, the two already left, as
two devices in two people's hands would multiply their sign-ins and add no
message. On the screens one order has every state a row
can have, and a second one would share nothing with it but the page.

**Bounds in the model.** Orders are placed once, gateway events are taken once
each, refund keys are used once, attempts are limited by the code itself. What
the code does not limit is limited by a named constant: `MaxCalls` requests under
way (`CustomerApp`, `StaffAccess`, and per page in `StaffScreens`), `MaxKeys`
dialogs and keys per page, `MaxMoves` moves of other people. The
sets in the `.cfg` files (orders, calls, events, shortages, counts, codes) are
the only other bounds.

**Symmetry** is used in `delivery`, over runners, claims in flight and codes, and
in `shop`, over keys; both scenarios give these no different roles and check
safety only.

**Some properties belong to some runs.** `ReservationCoversHeld` is false when
refunds meet packing or stock-outs (section 5), and `ReservationIsHeld` is false
when two calls share a key. Each is checked in the runs where the code keeps it;
both are stated once: the first in `checkout`, and in `fulfilment` with the sweep,
webhooks, packing and stock-outs but no cancellation. `QueueOvershootBounded` is
stated of the highest limit so far (`widest`), since a limit that is lowered leaves
the orders that are there; it counts the calls of `checkout` and is not a bound
where failed deliveries are assigned again. The theorems about
them have these conditions as hypotheses (section 4).

**Faults.** Operators marked *a fault* in a comment are not part of the behaviour:
they are plausible mistakes in the code, and exchanging one for the definition
that follows it must make TLC find the named property violated. They show that
the properties can fail.

### Fairness

`OrderCore!FairSpec` assumes that time passes (`ReservationTimesOut`) and that the
sweep comes (`Sweep(Stale)`). The sweep is scheduled every minute by pg_cron
(0004:795-806). It skips locked rows, so a sweep that finds some order locked
leaves it for the next one; no transaction holds a lock for ever, so again and
again one finds none locked, and weak fairness of the sweep over all stale orders
says no more than that. Nothing is assumed of customers, gateway, packers,
runners or administrators: any of them may stop at any point.

`PaymentIntent!FairSpec` assumes that an event the gateway has to report is
delivered in the end. The gateway repeats it until it gets a 2xx, and the handler
answers 500 to a database fault for that purpose
(`supabase/functions/payment_webhook/handler.ts`:109-120). Neither the
invocations nor the customer are assumed to go on.

`OrderScreen!FairSpec`: the poll timer of the query library runs while the screen
is in front (weak), and each of the two reads, tried again and again, works once
(strong). The customer may leave or switch away, and the property then asks for
nothing.

`StaffScreens!FairSpec`: a read that was asked for ends, well or badly; a
channel that was lost is joined again, as the Realtime client does by itself; a
hint on its way is passed on; a request is answered or breaks. All four are weak,
none is assumed to succeed, and nobody is assumed to press anything.

`Notifications!FairSpec`: the scheduler starts a dispatcher every minute (0013),
which claims when something is due; a dispatcher that has claimed finishes or
crashes, since a function's life is limited by its platform; a lease runs out. For
`AreaFollowsSession`: the auth library refreshes a session before it ends, and
the claims read this causes, though it may fail any number of times, succeeds once
when repeated for ever (strong).

## 4. What is proved

All proofs are checked by TLAPS with Z3, Zenon and LS4, from the named
assumptions on the constants (`RequestsAreWellFormed`, `SubtotalsAreNatural`,
`CheckoutAssumption`, `EventAssumption`, `ShortageAssumption`,
`RefundAssumption`, `AdminAssumption`, `DeliveryAssumption`,
`IntentAssumption`, `CartAssumption`, `CustomerAppAssumption`,
`StaffAccessAssumption`, `AppSessionAssumption`, `NotificationsAssumption`),
which TLC evaluates on every run that uses their module. They hold for any sets
of orders, products, customers, calls, events, desks, keys, runners, claims,
codes, people and dispatchers.

| Theorem | Module | Argument |
|---|---|---|
| `TypeCorrect`: `Spec => []TypeOK` | `OrderCoreProofs` | One lemma per component. The interesting part is that amounts stay natural numbers: that is what the CHECK constraints in `Commits` give, and `CheckoutAmounts` and `ShortageAmounts` show the arithmetic stays in the integers. |
| `PairsAlwaysRest`: `Spec => []PairsRest` | `OrderCoreProofs` | `PairInv` says which payment status goes with each order status, absent ones included. It is proved through the machine: every step of the core is a step of `OrderStateMachine` or leaves the pairs alone (`MachineStep`), and the machine keeps `PairInv` (`PairInvKept`). |
| `ImplementsStateMachine`: `Spec => Machine!Spec` | `OrderCoreProofs` | The same `MachineStep` is the step case of the refinement. It needs `PairInv`, since a step of the core looks at one of the two statuses and the machine at both. |
| `PaymentCopyIsTrue`: `Spec => []PaymentStatusCopyAgrees` | `OrderCoreProofs` | Inductive with `PairInv`: whoever writes `pay` writes the copy to the same value, but for the sweep, which leaves a failed payment; and a failed payment never becomes another. |
| `MoneyIsAccountedFor`: `Spec => []MoneyBalances` | `AccountsProofs` | `MoneyInv` strengthens it with what a capture and a late capture rely on: until then the payment's amount is the order's price and nothing was paid back; before the order is placed it has no ledger rows. `OneOrderMoves` reduces each transaction to the order it writes. |
| `RefundsPayOncePerKey`: `Spec => EachKeyPaysOnce` | `AccountsProofs` | Only `PayBack` changes what was repaid, and it takes a key that had no row. |
| `CancellationsReturnTheCapture`: `Spec => []CancelledCostsTheWalletShare` | `AccountsProofs` | What a cancelled order has cost is the wallet's share, to the paisa. `SharesInv`: from the capture on, what is payable and what was refunded add up to what was captured and what was repaid. A cancellation refunds the rest of the capture, and a stock-out never all of it (the deferred trigger). |
| `WithoutWalletsNothingIsLost`: `(\A o \in Order : ~UsesWallet[o]) => (Spec => []CancelledOrdersCostNothing)` | `AccountsProofs` | A consequence: the statement that `cancel_mixed` refutes is true of every order the wallet has no part in, so the divergence in section 5 is all there is to it. |
| `PromosStayWithinLimits`: `Spec => []PromoLimitsHold` | `AccountsProofs` | `PromoInv` adds that redemptions are finitely many and belong to placed orders, which stay placed (`PlacedStaysPlaced`, through the machine). So the order being placed is a new redemption, and counter and cardinality grow together, under the lock that the limits were read under (`RedeemKeeps`). |
| `QueueOvershoot`: `Spec /\ [][NoReturn]_vars => []QueueOvershootBounded`, for finitely many calls | `AccountsProofs` | `QueueInv`: orders in the queue plus calls that have looked at it exceed the highest limit so far by less than the number of calls. A call gives its place up when it inserts its order. Whatever an administrator enters, the limit in force is at most the highest one, which never comes down (`LimitsGrow`). |
| `ReservationsCover`: `Spec /\ [][CancelsCleanly]_vars => []ReservationCoversHeld` | `AccountsProofs` | One lemma per transaction says by how much `HeldOf(p)` and `reserved[p]` move. It needs that a shortage never exceeds the cart and only confirmed orders have one (`ShortagesFit`), that placed orders are finitely many (`PlacedFinite`), and `FullyRepaid`: a payment that reads `refunded` has nothing left, so `process_refund` never cancels an order a second time. |
| `ReservationsDoNotLeak`: `Spec /\ []DistinctKeys => []ReservationIsHeld` | `AccountsProofs` | `LeakInv`: the order of a call under way does not exist yet, so no call loses its INSERT; and a desk that saw a status after packing finds the order at least there, so it has nothing to release. No condition on cancellations is needed: releasing too much is no leak. |
| `ShelfIsExplained`: `Spec /\ [][CancelsCleanly]_vars => []ShelfIsAccounted` | `AccountsProofs` | `qty_reserved` covers what is held (`ReservationsCover`) and the shelf covers `qty_reserved` (`ShelfAlwaysCovers`), so a packer takes off what is there and the `greatest(..., 0)` of `mark_packed` cuts nothing. |
| `RunnersCarryOneOrder`, `LiveJobsKeepTheirCode`, `AssignmentsLeaveNothing`, `EveryDeliveryIsPaid`: `Spec =>` `[]OneLiveJobEach`, `[]LiveJobsCanFinish`, `[]NoStrayAssignment`, `[]EarningsMatchDeliveries` | `OrderCoreProofs` | `DeliveryInv` joins the four, and is inductive only so: a delivery pays the right runner because a live job has one, and an order assigned again starts without an earning. Uniqueness of the live job is stated without cardinality (`NoSecondJob`) and carried by the index check in `AssignTo`. All the other components enter through one lemma about the status changes they may make (`QuietStep`). |
| `ClaimsTakeNothing`: `Spec => OnlyAdminSwapsRunner` | `OrderCoreProofs` | The recheck under the row lock in `FinishClaim` finds the order packed, so no claim writes the runner of a live job. |
| `CallsAreAlone`, `OffersStand`: `[]OneCallAtATime`, `[]OfferedRefIsOnFile` of `PaymentIntent` | `IntentProofs` | `IntentInv`: whoever is under way is alone and its claim is fresh; nothing is on file while it calls the gateway, and in Phase C nothing but its own reference, which a failed attempt may have written. That is why its write replaces no other. |
| `OrdersSettleOnce`: `[]SettledOnce` of `PaymentIntent`; `IntentTypeCorrect` | `IntentProofs` | A credit needs a failed order, a confirmation a waiting one, and neither state is left again. |
| `IntentFollowsTheOrders`: `Spec => Orders!Spec` of `PaymentIntent` | `IntentProofs` | A refinement: `pair` is `order` with the payment status that the settling transactions write with it, and only Phase A, an event and the sweep move it, each along the machine. So the two models of an order, the core's and the payment intent's, are of one machine. |
| `AttemptsMakeOneOrder`, `OpensTheOrderAskedFor`: `[]OneOrderPerAttempt`, `[]OpensWhatWasAsked` of `CustomerApp` | `CustomerAppProofs` | An attempt is named by the key it was drawn with. `KeysAreKept`: every request and the mounted screen carry the key of their attempt, and an order's `by` is its own key, so two orders of one attempt are one. `AnswersAreKept`: an answer that would open an order is to the very request the order was created for, since another one under its key is a conflict. |
| `AppFollowsTheOrders`: `Spec => Orders!Spec` of `CustomerApp` | `CustomerAppProofs` | Every request carries a key of its own (`AppInv`); the server places an order under it or moves none. |
| `PaymentIsShownInTime`: `[]PaymentShownIsNoOlder` of `OrderScreen` | `OrderScreenProofs` | `PollInv` says what a payment can have become since the row was read (`Since`): an end is final and its payment settled, and a paid order's payment never fails. `MovesFollow` shows it of every move of the machine between the two reads. |
| `DoneHasHappened`: `[]DoneIsDone` of `StaffScreens` | `StaffScreensProofs` | `AnswersAreTrue`: an answer "ok" of the functions that end an order is given only to a call after which the order has ended, lost or live, and an end is left by nobody (`EndsAreFinal`). |
| `PaidBackOnce`: `[]PaysOncePerDialog` of `StaffScreens` | `StaffScreensProofs` | `PayInv`, per page: a refund's key is its dialog's, and a later dialog has a later one; a cancellation draws one per click, but the second finds the order cancelled; a line's stock-out the second time finds the line reconciled. |
| `OwnChangesAreRead`: `[]OwnCallsAreReread` of `StaffScreens` | `StaffScreensProofs` | `PhoneInv`: an unread change of one's own has its call still on the phone, which keeps a button busy, or a read asked for. |
| `StaffFollowsTheOrders`: `Spec => [][Orders!Next]_pair` of `StaffScreens` | `StaffScreensProofs` | Each handler that moves an order does so by one transition of the machine, for an order that exists (`ScreenTypes`). |
| `EveryRunnerIsAssignable`: `[]RunnersAreAssignable` of `StaffAccess` | `StaffAccessProofs` | Only the write that makes somebody a runner does so, and it adds the row; none is removed. |
| `OldTokensChangeNothing`: `OnlyAdminsAct` of `StaffAccess` | `StaffAccessProofs` | A call past its check has had an administrator as its sender (`SendersStayKnown`), and the history of that is never cleared. |
| `TheLastAdminStays`: `[]SomebodyIsAdmin` of `StaffAccess` | `StaffAccessProofs` | While nobody was demoted in the middle of a call, whoever has a checked call is still an administrator; the one who writes cannot have demoted themselves, so they are left. |
| `MarksAreTrue`, `MarksAreKept`: `[]SentMeansTaken`, `SentStays` of `Notifications` | `NotificationsProofs` | `SentInv`: a ticket that says "ok" is of a message the provider took, counts never fall, and no mark clears `sent`. |
| `OneMessagePerClaim`: `[]AgainOnlyAfterALostClaim` of `Notifications` | `NotificationsProofs` | For a finite set of dispatchers and any number of devices. `ClaimsAreCounted`, for each device: messages taken plus dispatchers at work on its message exceed the claims lost, by lapse or given back, by at most one, and by one only while the claim is held. The device's own failure needs a ticket, and a dispatcher has one ticket per message (`TicketsAreSingle`). |

**Hypotheses about the behaviour.** Four theorems hold of part of the behaviours,
because the code keeps the property only there. The part is named by a definition
in `AccountsProofs`, and each of these behaviours is one the runs contain:

* `NoReturn`: no failed delivery is assigned again. `admin_reassign` brings such
  an order back into the queue without looking at its length (0008), any number
  of times.
* `CancelsCleanly`: a step that cancels an order and releases units does so from
  `confirmed` and of an order without a shortage. The code takes the status from
  its unlocked first read and the quantities from the order (0011:182-190); both
  exceptions are in section 5, with the counterexamples TLC finds.
* `DistinctKeys`: no two calls of `create_order` under way carry one key. The
  other case is the run `duplicate_checkout`.

In each of them the hypothesis excludes the steps named and nothing else, and
without it TLC finds the property violated.

**Sums.** What all orders hold of a product is `TotalOf` the quantities: the number
of pairs of an order and one of its units (`Units`). TLAPS cannot do the induction
that a sum over a set needs, but it can count: `TotalMoves` says how the total
changes when one order's share does, from the cardinality of a disjoint union, and
the stock theorems rest on it. That the set of units is finite is itself an
invariant, as orders are placed one at a time (`PlacedFinite`); nothing is assumed
of the size of `Order`.

**Only model-checked.** Every safety and action property of the passing runs is
stated by a theorem. Left to TLC are `PaymentWaitEnds`, `CaptureIsAnswered`,
`EndIsShown`, `ScreenCatchesUp`, `ButtonsComeBack`, `EventIsSettled` and
`AreaFollowsSession`, which are liveness under fairness and beyond TLAPS here, as
is ENABLED, of which `ValidShortagesAreAccepted` (section 5) speaks.
`Subtotal` is a sum over products: that it is a natural number is the assumption
`SubtotalsAreNatural`. The inductive invariants of the proofs were themselves
checked by TLC on the runs' instances before they were proved.

## 5. Where code and text disagree

Two are runs that TLC ends with a counterexample; `PROJECT.json` quotes the
line each contradicts.

| Run | Statement | What happens |
|---|---|---|
| `duplicate_checkout` | no partial reservation is ever left behind (0004:477) | Two calls with one key both pass the unlocked look for it. The second waits for the inventory row, adds its units, fails its INSERT and returns the existing order. Its savepoint covers the INSERT alone, and the units stay reserved. |
| `cancel_mixed` | full refund of wallet and gateway portion (`docs/engineering/PHASE_1_1_CORRECTIONS.md`:446) | The gateway's share comes back, `wallet_applied` does not. That this share is all that is ever missing is `CancellationsReturnTheCapture` (section 4). |

Others have the same standing and no run of their own. The third column is what
to change in a `.cfg` to get the counterexample.

| Statement or expectation | What happens | How to see it |
|---|---|---|
| released only from `confirmed` (0011:182) | A cancellation reads `confirmed`, waits for the wallet and payment rows, and writes after the order was packed and assigned. It releases units that were already consumed, out of another order's reservation. | `cancel_mixed.cfg` with a runner, a claim and a code; invariant `ReservationCoversHeld` |
| a reconciled line was released at that time (0006:188) | A stock-out releases the missing units; a cancellation releases the ordered quantity, the missing units included. | `cancel_mixed.cfg` with `Shortage <- MilkMissed`; invariant `ReservationCoversHeld` |
| "belt-and-braces" (0006:205), said of the floor at zero in `mark_packed` | After such a cancellation `qty_reserved` is less than what another order holds, a shelf count down to it is accepted, and packing that order takes off more than is there. The floor swallows the difference, and with it the CHECK that would have reported it. | The same, with `Count = {0, 1, 2}` and `Correctable = {milk}`; invariant `ShelfIsAccounted` |
| the order continues toward packed (0006:271) | A stock-out worth all that the gateway still holds makes the payment `refunded` with a `confirmed` order. The deferred trigger has no such pair and the transaction fails at COMMIT. | `Shortage <- NoMilk`; invariant `ValidShortagesAreAccepted` |
| a cancelled order on screen shows that its money went back | A poll whose payment read failed shows a cancelled order with a pending payment, and being at an end it does not poll again. | `order_screen`, invariant `CancelledShowsItsRefund` |
| what a page offers can succeed on the row it shows | The order page offers to reassign a picked-up order (`apps/console/src/app/orders/[orderId]/OrderActions.tsx`:47-48); the function always refuses. | `staff_screens` with `Page = {"order"}`, invariant `OffersCanSucceed` |
| "Nothing was changed" (`apps/console/src/lib/admin/callFn.ts`:81-83, `apps/store/src/app/packing/[orderId]/PackingActions.tsx`:55) | Said of every error without a code of the server's own, lost answers to committed calls included. | `Page = {"refunds"}`, invariant `NothingWasChanged` |
| "Null when there is no authenticated session" (`apps/customer-runner/lib/auth/resolveRouteAccess.ts`:29) | Claims that arrive after the sign-out set the role again. | `notifications`, invariant `NoRoleWithoutSession` |
| logout drops this device's token (0010:53) | The delete is made without a session, and the policy finds no row it may delete. The device keeps receiving the last person's notifications until somebody signs in on it. | `notifications`, invariant `DroppedOnSignOut` |
| a claim keeps others away until its holder "is certainly gone" (0013:396) | With two devices, the failed ticket of one gives the claim back although the other was served, before a ticket has marked the row. `AgainOnlyAfterALostClaim` counts exactly these. | `notifications`, invariant `AgainOnlyAfterALapse` |

`duplicate_checkout` and the first two here have a consequence that is not
followed further: once `qty_reserved` is too low, the sweep, which subtracts
without a floor, breaks the CHECK on it and is rolled back whole, for every order
in it.

What else the modelling met, for whoever works on the apps. None is a property
here:

* The refunds page lists `captured` payments only, not partially refunded ones.
* On the packing page a network failure leaves the buttons disabled until a
  reload (`PackingActions.tsx`:28); `ButtonsComeBack` leaves that page out.
* A release of a job that is retried after a lost answer is refused as
  `FORBIDDEN`, as the runner no longer holds the order.
* Packers and runners get no hint when a row leaves their sight, since the hint
  is sent for rows they may read after the change; their other reads make up
  for it.
* An answer of `create_order` that comes late empties the cart of whatever was
  added since.
* A resume while another invocation holds the claim opens the order screen
  without payment parameters, hence without a payment button.
* A refund that follows an order's end is not shown: polling stops at terminal
  states (`useOrder.ts`:43).
* The query cache and the cart survive a sign-out (`useOrders.ts`:53).
* `runners.store_id` is not updated when a runner is granted the role for
  another store (0011:406-409).
* The inventory form writes an absolute count computed from the row the page
  has read (`InventoryBoard`), so two counts entered at once keep one.
* `LargeSecureStore` writes key and ciphertext one after the other; a crash in
  between signs the person out (`apps/customer-runner/lib/supabase.ts`:69-72).

## 6. What is not modelled, and why

* **Row locks and deadlocks.** Transactions take their rows in different orders,
  so two of them can wait on each other. The database ends such a wait by
  aborting one of them whole, which every model allows: it is a call that did not
  happen.
* **Prices that change during a checkout** (0004:471 and 586 read `sale_price`
  twice, without a lock). Prices are constants of the core, since every
  money property would have to name the moment each was read.
* **Several stores, zones and addresses.** In the core they only ever reject a
  call, and a rejected call is one that is never made. Likewise roles and store
  scope. Time is one bit per order, `overdue`, and the lapse of a delivery
  attempt. Audit rows are modelled only where a property needs them (`actor`,
  `corrected`).
* **Row level security**, except which orders a packer or runner is told of
  (`StaffScreens!Readable`) and who may delete a push token
  (`Notifications!MayDelete`): the policies authorise reads and have no state, and
  every write modelled here is made by the service role.
* **The currency of a payment event** (0005:150-157). A capture in another currency
  is refused as one of another amount is (`e.matches`); the code ignores a failure
  in another currency, too, where the model lets every failure of a waiting order
  act.
* **One branch of `process_refund`** (0011:211-215), for an order that is cancelled
  or failed already: such an order's payment is wholly refunded or failed
  (`PairInv`, `FullyRepaid`), and the call has been refused before.
* **Parsing, validation, error wording, redaction and reporting** in the Edge
  Functions; gateway configuration and signatures: pure functions around one
  call each.
* **Browsing, search and filters** of the customer app, the **overview and audit
  pages** of the console: reads that keep nothing and lead to no call.
* **Design tokens, UI components, generated types and request schemas**: no
  state.

What would come next: a composition of `StaffAccess` with `EdgeFunctions`, in
which the role in a request is that of an old token, and of `PaymentIntent` with
the webhook of `Payments`, so that the references of many orders share one table.

## 7. Running it

```
tlc -workers 2 -config checkout.cfg MCOrderCore     # fulfilment, delivery, journey,
                                                    # duplicate_checkout, cancel_mixed
tlc -workers 2 -config shop.cfg MCCustomerApp
tlc -workers 2 -config staff_screens.cfg MCStaffScreens
tlc -workers 2 -config intent.cfg PaymentIntent     # likewise order_screen with OrderScreen,
                                                    # access with StaffAccess
tlc -workers 2 -config notifications.cfg MCNotifications
tlapm AccountsProofs.tla                            # and the other *Proofs modules
```

`fulfilment`, `journey`, `staff_screens`, `access` and `notifications` take up to
three minutes, the others about one.
