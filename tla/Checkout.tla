------------------------------ MODULE Checkout ------------------------------
(***************************************************************************)
(* create_order, up to the end of Phase A.  A call reads without locks     *)
(* (the idempotency key, the store, the queue, the catalogue) and then,    *)
(* after waiting for the wallet, promo and inventory rows, checks and      *)
(* writes under those locks.  Other transactions may commit between the    *)
(* two halves, among them a second call with the same key.                 *)
(***************************************************************************)
EXTENDS OrderTables

CONSTANTS
  Call,         \* concurrent create_order invocations
  NoOrder,      \* the value of an idle call
  Promo, NoPromo,
  PromoOf,      \* [Order -> Promo \cup {NoPromo}]
  Credit,       \* [Promo -> Nat], what a wallet_credit promo pays, else 0
  MaxUses,      \* [Promo -> Nat], promos.max_uses
  PerUser       \* promos.per_user_limit

ASSUME CheckoutAssumption ==
  /\ NoOrder \notin Order
  /\ PerUser \in Nat
  /\ PromoOf \in [Order -> Promo \cup {NoPromo}] /\ NoPromo \notin Promo
  /\ Credit \in [Promo -> Nat] /\ MaxUses \in [Promo -> Nat]
  /\ \A o \in Order : PromoOf[o] = NoPromo => Discount[o] = 0
  /\ \A o \in Order : Discount[o] <= Subtotal(o)

VARIABLES
  call,         \* the order each create_order call is working on
  uses,         \* promos.uses_count
  redeemed      \* orders with a promo_redemptions row

checkoutVars == <<call, uses, redeemed>>

CheckoutInit ==
  /\ call = [c \in Call |-> NoOrder]
  /\ uses = [r \in Promo |-> 0]
  /\ redeemed = {}

QueueDepth == Cardinality({o \in Order : status[o] \in InQueue})

(***************************************************************************)
(* The unlocked half: the key is not taken, the store is open and below    *)
(* its queue limit, every product is listed.                               *)
(***************************************************************************)
QueueLooksNotOver == QueueDepth <= queueLimit  \* a fault: <= for <

QueueHasRoom == QueueDepth < queueLimit

BeginCheckout(c, o) ==
  /\ call[c] = NoOrder
  /\ status[o] = "absent"
  /\ isOpen /\ QueueHasRoom
  /\ \A p \in Product : Cart[o][p] > 0 => listed[p]
  /\ call' = [call EXCEPT ![c] = o]
  /\ UNCHANGED <<tableVars, uses, redeemed>>

(***************************************************************************)
(* The checks made under the wallet, promo and inventory locks.            *)
(***************************************************************************)
InStock(o) == \A p \in Product : onHand[p] - reserved[p] >= Cart[o][p]

RedeemedBy(r, c) == {o \in redeemed : PromoOf[o] = r /\ Owner[o] = c}

PromoUnderItsCap(o) ==  \* a fault: the per-user limit is not looked at
  PromoOf[o] # NoPromo => uses[PromoOf[o]] < MaxUses[PromoOf[o]]

PromoRedeemable(o) ==
  PromoOf[o] # NoPromo =>
    /\ uses[PromoOf[o]] < MaxUses[PromoOf[o]]
    /\ Cardinality(RedeemedBy(PromoOf[o], Owner[o])) < PerUser

LockedChecksPass(o) ==
  /\ InStock(o)
  /\ PromoRedeemable(o)
  /\ UsesWallet[o] => wallet[Owner[o]] > 0

ReserveOneEach(o) ==  \* a fault: one unit per line whatever its quantity
  reserved' = [p \in Product |-> reserved[p] + MinOf(Cart[o][p], 1)]

Reserve(o) == reserved' = [p \in Product |-> reserved[p] + Cart[o][p]]

Total(o)       == Subtotal(o) - Discount[o] + Fee
WalletDebit(o) == IF UsesWallet[o] THEN MinOf(wallet[Owner[o]], Total(o)) ELSE 0
PromoCredit(o) == IF PromoOf[o] = NoPromo THEN 0 ELSE Credit[PromoOf[o]]

Redeem(o) ==
  /\ uses' = [r \in Promo |-> IF r = PromoOf[o] THEN uses[r] + 1 ELSE uses[r]]
  /\ redeemed' = IF PromoOf[o] = NoPromo THEN redeemed ELSE redeemed \cup {o}

(***************************************************************************)
(* The INSERT wins: order, items, payment, wallet debit, redemption; an    *)
(* order the wallet covers is captured and confirmed at once.              *)
(***************************************************************************)
PlaceOrder(c) ==
  LET o       == call[c]
      due     == Total(o) - WalletDebit(o)
      covered == due = 0
  IN
  /\ o # NoOrder /\ status[o] = "absent" /\ LockedChecksPass(o)
  /\ Reserve(o)
  /\ status'        = [status EXCEPT ![o] = IF covered THEN "confirmed" ELSE "created"]
  /\ pay'           = [pay EXCEPT ![o] = IF covered THEN "captured" ELSE "pending"]
  /\ paymentStatus' = [paymentStatus EXCEPT ![o] = pay'[o]]
  /\ payable'       = [payable EXCEPT ![o] = due]
  /\ amount'        = [amount EXCEPT ![o] = due]
  /\ applied'       = [applied EXCEPT ![o] = WalletDebit(o)]
  /\ WalletMoves(o, PromoCredit(o) - WalletDebit(o))
  /\ Redeem(o)
  /\ call' = [call EXCEPT ![c] = NoOrder]
  /\ UNCHANGED <<packedAt, runner, refunded, short, onHand, listed, storeVars>>
  /\ Commits(o)

(***************************************************************************)
(* The INSERT loses: another call committed the same key after this one    *)
(* looked.  The unique_violation handler returns the existing order; its   *)
(* savepoint covers the INSERT alone, so what was reserved before it       *)
(* stays.                                                                  *)
(***************************************************************************)
LoseInsertRace(c) ==
  LET o == call[c] IN
  /\ o # NoOrder /\ status[o] # "absent" /\ LockedChecksPass(o)
  /\ Reserve(o)
  /\ call' = [call EXCEPT ![c] = NoOrder]
  /\ UNCHANGED <<orderVars, paymentVars, short, onHand, listed, storeVars, walletVars,
                 uses, redeemed>>

(***************************************************************************)
(* A check failed under the locks and the transaction rolled back, or the  *)
(* function died before the commit.                                        *)
(***************************************************************************)
AbandonCheckout(c) ==
  /\ call[c] # NoOrder
  /\ call' = [call EXCEPT ![c] = NoOrder]
  /\ UNCHANGED <<tableVars, uses, redeemed>>

CheckoutNext ==
  \E c \in Call :
    \/ \E o \in Order : BeginCheckout(c, o)
    \/ PlaceOrder(c)
    \/ LoseInsertRace(c)
    \/ AbandonCheckout(c)
=============================================================================
