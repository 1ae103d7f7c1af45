------------------------------ MODULE Payments ------------------------------
(***************************************************************************)
(* What ends the wait for a payment: the gateway's webhook, in any order   *)
(* and any number of times, and the sweep of expired reservations.         *)
(***************************************************************************)
EXTENDS OrderTables

CONSTANT
  Event    \* gateway events: [order, outcome, matches, id]

ASSUME EventAssumption ==
  \A e \in Event : /\ e.order \in Order
                   /\ e.outcome \in {"captured", "failed"}
                   /\ e.matches \in BOOLEAN  \* the amount is payments.amount

VARIABLES
  seen,    \* webhook_events, by (gateway, gateway_event_id)
  overdue  \* orders past reservation_expires_at

paymentsVars == <<seen, overdue>>

PaymentsInit == seen = {} /\ overdue = {}

(***************************************************************************)
(* Give back the order's reservation and its wallet debit.  The webhook    *)
(* clamps the reservation at zero, the sweep does not.                     *)
(***************************************************************************)
ReleaseNothing(o) == reserved' = reserved  \* a fault

ReleaseClamped(o) ==
  reserved' = [p \in Product |-> MaxOf(reserved[p] - Cart[o][p], 0)]

KeepsWallet(o) == 0  \* a fault: the wallet debit is not reversed

WalletReversal(o) == applied[o]

FailPayment(o) ==
  /\ status[o] = "created" /\ pay[o] = "pending"
  /\ ReleaseClamped(o)
  /\ WalletMoves(o, WalletReversal(o))
  /\ status'        = [status EXCEPT ![o] = "payment_failed"]
  /\ paymentStatus' = [paymentStatus EXCEPT ![o] = "failed"]
  /\ pay'           = [pay EXCEPT ![o] = "failed"]
  /\ UNCHANGED <<payable, applied, packedAt, runner, amount, refunded, short,
                 onHand, listed, storeVars>>

ConfirmWithoutCopy(o) ==  \* a fault: orders.payment_status is forgotten
  /\ status[o] = "created" /\ pay[o] = "pending"
  /\ status' = [status EXCEPT ![o] = "confirmed"]
  /\ pay'    = [pay EXCEPT ![o] = "captured"]
  /\ UNCHANGED <<paymentStatus, payable, applied, packedAt, runner, amount, refunded, short,
                 stockVars, walletVars>>

ConfirmPayment(o) ==
  /\ status[o] = "created" /\ pay[o] = "pending"
  /\ status'        = [status EXCEPT ![o] = "confirmed"]
  /\ paymentStatus' = [paymentStatus EXCEPT ![o] = "captured"]
  /\ pay'           = [pay EXCEPT ![o] = "captured"]
  /\ UNCHANGED <<payable, applied, packedAt, runner, amount, refunded, short,
                 stockVars, walletVars>>

(***************************************************************************)
(* A capture for an order that is already over: the amount is credited to  *)
(* the wallet once, payments.status stays "failed".                        *)
(***************************************************************************)
NotYetReconciled(o) == refunded[o] = 0

LateCapture(o) ==
  /\ status[o] \in {"payment_failed", "cancelled"}
  /\ pay[o] = "failed"
  /\ NotYetReconciled(o)

ReconcileLateCapture(o) ==
  /\ LateCapture(o)
  /\ refunded' = [refunded EXCEPT ![o] = @ + amount[o]]
  /\ WalletMoves(o, amount[o])
  /\ UNCHANGED <<orderVars, pay, amount, short, stockVars>>

(***************************************************************************)
(* process_payment_webhook for an event whose order reference is on file.  *)
(* A redelivered event changes nothing.                                    *)
(***************************************************************************)
Acts(e) ==
  /\ e.matches \/ e.outcome = "failed"
  /\ \/ status[e.order] = "created"
     \/ e.outcome = "captured" /\ LateCapture(e.order)

FirstDelivery(e) == e \notin seen

Webhook(e) ==
  /\ status[e.order] # "absent" /\ amount[e.order] > 0
  /\ FirstDelivery(e)
  /\ seen' = seen \cup {e}
  /\ UNCHANGED overdue
  /\ \/ Acts(e) /\ e.outcome = "failed" /\ FailPayment(e.order) /\ Commits(e.order)
     \/ Acts(e) /\ e.outcome = "captured" /\ ConfirmPayment(e.order) /\ Commits(e.order)
     \/ Acts(e) /\ e.outcome = "captured" /\ ReconcileLateCapture(e.order)
        /\ Commits(e.order)
     \/ ~Acts(e) /\ UNCHANGED tableVars

ReservationTimesOut(o) ==
  /\ status[o] = "created" /\ o \notin overdue
  /\ overdue' = overdue \cup {o}
  /\ UNCHANGED <<tableVars, seen>>

(***************************************************************************)
(* expire_stale_reservations: one transaction over the expired orders no   *)
(* other transaction holds (SKIP LOCKED); if one row breaks a constraint   *)
(* the whole sweep rolls back.  orders.payment_status is not written.      *)
(***************************************************************************)
StaleWithDebit == {o \in overdue : status[o] = "created" /\ applied[o] > 0}  \* a fault

Stale == {o \in overdue : status[o] = "created"}

SweepKeepsWallet(o) == 0  \* a fault: the wallet debit is not reversed

SweepReversal(o) == applied[o]

Sweep(S) ==
  /\ S # {}
  /\ S \subseteq Stale
  /\ reserved' = [p \in Product |-> reserved[p] - TotalOf([o \in S |-> Cart[o][p]])]
  /\ wallet' = [c \in Customer |->
                  wallet[c] + MapThenSumSet(SweepReversal, {o \in S : Owner[o] = c})]
  /\ ledger' = [o \in Order |-> ledger[o] + IF o \in S THEN SweepReversal(o) ELSE 0]
  /\ status' = [o \in Order |-> IF o \in S THEN "payment_failed" ELSE status[o]]
  /\ pay'    = [o \in Order |-> IF o \in S THEN "failed" ELSE pay[o]]
  /\ UNCHANGED <<paymentStatus, payable, applied, packedAt, runner, amount, refunded,
                 short, onHand, listed, storeVars, paymentsVars>>
  /\ \A o \in S : Commits(o)

PaymentsNext ==
  \/ \E e \in Event : Webhook(e)
  \/ \E o \in Order : ReservationTimesOut(o)
  \/ \E S \in SUBSET Order : Sweep(S)
=============================================================================
