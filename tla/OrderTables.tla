---------------------------- MODULE OrderTables ----------------------------
(***************************************************************************)
(* The tables the order transactions share, and the row-level rules every  *)
(* one of them is subject to.  A transaction of the database is one action *)
(* of a module that extends this one; it assigns the primed variables and  *)
(* ends with Commits(o), the triggers and CHECK constraints that would     *)
(* roll it back.  An order that has not been placed is "absent".           *)
(*                                                                         *)
(* One Order stands for one idempotency key and the request sent with it:  *)
(* customer, cart, wallet choice and promo code never change for a key     *)
(* (orders.idempotency_request_hash rejects the rest).  One store.         *)
(***************************************************************************)
EXTENDS OrderRules, Integers, FiniteSets, FiniteSetsExt

CONSTANTS
  Order,        \* idempotency keys, one order each
  Product,
  Customer,
  Runner,
  NoRunner,     \* orders.runner_id IS NULL
  Owner,        \* [Order -> Customer]
  Cart,         \* [Order -> [Product -> Nat]], quantities requested
  Price,        \* [Product -> Nat], order_items.unit_price
  Fee,          \* zones.delivery_fee
  Discount,     \* [Order -> Nat], what the order's promo takes off
  UsesWallet,   \* [Order -> BOOLEAN]
  MaxQueue,     \* stores.max_queue_depth at the start
  Stock,        \* [Product -> Nat], inventory.qty_on_hand at the start
  Balance       \* [Customer -> Nat], profiles.wallet_balance at the start

ASSUME RequestsAreWellFormed ==
  /\ Owner \in [Order -> Customer]
  /\ Cart \in [Order -> [Product -> Nat]]
  /\ Price \in [Product -> Nat]
  /\ Fee \in Nat
  /\ Discount \in [Order -> Nat]
  /\ UsesWallet \in [Order -> BOOLEAN]
  /\ MaxQueue \in Nat \ {0}
  /\ Stock \in [Product -> Nat]
  /\ Balance \in [Customer -> Nat]
  /\ NoRunner \notin Runner

Subtotal(o) == MapThenSumSet(LAMBDA p : Price[p] * Cart[o][p], Product)

ASSUME SubtotalsAreNatural == \A o \in Order : Subtotal(o) \in Nat

VARIABLES
  status,         \* orders.status, "absent" before the INSERT
  paymentStatus,  \* orders.payment_status, the denormalised copy
  payable,        \* orders.payable
  applied,        \* orders.wallet_applied
  packedAt,       \* orders.packed_at IS NOT NULL
  runner,         \* orders.runner_id
  pay,            \* payments.status
  amount,         \* payments.amount
  refunded,       \* payments.refunded_amount
  short,          \* order_items.qty - fulfilled_qty once stocked out, else 0
  onHand,         \* inventory.qty_on_hand
  reserved,       \* inventory.qty_reserved
  listed,         \* products.is_listed
  isOpen,         \* stores.is_open
  queueLimit,     \* stores.max_queue_depth
  widest,         \* history: the highest queueLimit so far
  wallet,         \* profiles.wallet_balance
  ledger          \* sum of the wallet_ledger rows of one order

orderVars   == <<status, paymentStatus, payable, applied, packedAt, runner>>
paymentVars == <<pay, amount, refunded>>
storeVars   == <<isOpen, queueLimit, widest>>
stockVars   == <<onHand, reserved, listed, storeVars>>
walletVars  == <<wallet, ledger>>
tableVars   == <<orderVars, paymentVars, short, stockVars, walletVars>>

TablesInit ==
  /\ status        = [o \in Order |-> "absent"]
  /\ paymentStatus = [o \in Order |-> "pending"]
  /\ payable       = [o \in Order |-> 0]
  /\ applied       = [o \in Order |-> 0]
  /\ packedAt      = [o \in Order |-> FALSE]
  /\ runner        = [o \in Order |-> NoRunner]
  /\ pay           = [o \in Order |-> "pending"]
  /\ amount        = [o \in Order |-> 0]
  /\ refunded      = [o \in Order |-> 0]
  /\ short         = [o \in Order |-> [p \in Product |-> 0]]
  /\ onHand        = Stock
  /\ reserved      = [p \in Product |-> 0]
  /\ listed        = [p \in Product |-> TRUE]
  /\ isOpen        = TRUE
  /\ queueLimit    = MaxQueue
  /\ widest        = MaxQueue
  /\ wallet        = Balance
  /\ ledger        = [o \in Order |-> 0]

MinOf(a, b) == IF a <= b THEN a ELSE b
MaxOf(a, b) == IF a >= b THEN a ELSE b

(***************************************************************************)
(* What a status stands for.                                               *)
(***************************************************************************)
LiveJob       == {"assigned", "picked_up"}
InQueue       == {"created", "confirmed", "packed", "assigned", "picked_up"}
HasCapture(s) == s \in {"captured", "partially_refunded", "refunded"}

(***************************************************************************)
(* The deferred constraint trigger and the BEFORE UPDATE triggers, on the  *)
(* order the transaction touched.                                          *)
(***************************************************************************)
TriggersAccept(o) ==
  /\ status[o] # "absent" => LegalOrderMove(status[o], status'[o])
  /\ status[o] # "absent" => LegalPaymentMove(pay[o], pay'[o])
  /\ <<status'[o], pay'[o]>> \in PaymentOrderConsistencyRules

(***************************************************************************)
(* CHECK constraints on integer columns.  subtotal = payable + applied -   *)
(* Fee + Discount[o] (payable_matches_math), so discount_not_above_        *)
(* subtotal is the last line; wallet_not_above_total is payable >= 0.      *)
(***************************************************************************)
RowChecksHold(o) ==
  /\ payable'[o] \in Nat /\ applied'[o] \in Nat
  /\ refunded'[o] \in Nat /\ refunded'[o] <= amount'[o]
  /\ payable'[o] + applied'[o] >= Fee

StockChecksHold ==
  \A p \in Product : reserved'[p] \in Nat /\ reserved'[p] <= onHand'[p]

WalletChecksHold == \A c \in Customer : wallet'[c] \in Nat

Commits(o) ==
  TriggersAccept(o) /\ RowChecksHold(o) /\ StockChecksHold /\ WalletChecksHold

(***************************************************************************)
(* One wallet movement: the balance and the ledger row that explains it.   *)
(***************************************************************************)
WalletMoves(o, delta) ==
  /\ wallet' = [wallet EXCEPT ![Owner[o]] = @ + delta]
  /\ ledger' = [ledger EXCEPT ![o] = @ + delta]

(***************************************************************************)
(* What an order still holds of the reservation, and what it took off the  *)
(* shelf.                                                                  *)
(***************************************************************************)
Fulfilled(o, p) == Cart[o][p] - short[o][p]
Holds(o, p)     == IF status[o] \in {"created", "confirmed"} THEN Fulfilled(o, p) ELSE 0
TookOff(o, p)   == IF packedAt[o] THEN Fulfilled(o, p) ELSE 0

(***************************************************************************)
(* A quantity summed over orders, counted unit by unit: q maps orders to   *)
(* naturals, and an order with quantity n contributes n units.             *)
(***************************************************************************)
Units(q)   == UNION {{o} \X (1..q[o]) : o \in DOMAIN q}
TotalOf(q) == Cardinality(Units(q))
=============================================================================
