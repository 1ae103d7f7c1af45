----------------------------- MODULE OrderCore -----------------------------
(***************************************************************************)
(* One store's orders from checkout to the door: every transaction that    *)
(* writes orders, payments, inventory, wallets or runner assignments,      *)
(* interleaved in any order the row locks allow.                           *)
(***************************************************************************)
EXTENDS Checkout, Payments, Packing, Refunds, StoreAdmin, Delivery

vars == <<tableVars, checkoutVars, paymentsVars, refundsVars, corrected, deliveryVars>>

Init ==
  /\ TablesInit
  /\ CheckoutInit
  /\ PaymentsInit
  /\ RefundsInit
  /\ StoreAdminInit
  /\ DeliveryInit

CheckoutStep   == CheckoutNext
                  /\ UNCHANGED <<paymentsVars, refundsVars, corrected, deliveryVars>>
PaymentsStep   == PaymentsNext
                  /\ UNCHANGED <<checkoutVars, refundsVars, corrected, deliveryVars>>
PackingStep    == PackingNext
                  /\ UNCHANGED <<checkoutVars, paymentsVars, refundsVars, corrected,
                                 deliveryVars>>
RefundsStep    == RefundsNext
                  /\ UNCHANGED <<checkoutVars, paymentsVars, corrected, deliveryVars>>
StoreAdminStep == StoreAdminNext
                  /\ UNCHANGED <<checkoutVars, paymentsVars, refundsVars, deliveryVars>>
DeliveryStep   == DeliveryNext
                  /\ UNCHANGED <<checkoutVars, paymentsVars, refundsVars, corrected>>

Next ==
  \/ CheckoutStep
  \/ PaymentsStep
  \/ PackingStep
  \/ RefundsStep
  \/ StoreAdminStep
  \/ DeliveryStep

Spec == Init /\ [][Next]_vars

(***************************************************************************)
(* Time passes, and the scheduler runs the sweep every minute; one that    *)
(* finds no order locked takes them all.  Nothing else is fair: a          *)
(* customer, a gateway, a packer or a runner may stop.                     *)
(***************************************************************************)
OtherPrivateVars == <<checkoutVars, refundsVars, corrected, deliveryVars>>

Fairness ==
  /\ \A o \in Order : WF_vars(ReservationTimesOut(o) /\ UNCHANGED OtherPrivateVars)
  /\ WF_vars(Sweep(Stale) /\ UNCHANGED OtherPrivateVars)

FairSpec == Spec /\ Fairness

-----------------------------------------------------------------------------
(***************************************************************************)
(* TYPES                                                                   *)
(***************************************************************************)
RefundCall == [key : RefundKey, order : Order, amount : Nat, saw : OrderStatus]

TablesTypeOK ==
  /\ status        \in [Order -> OrderStatus \cup {"absent"}]
  /\ paymentStatus \in [Order -> PaymentStatus]
  /\ payable       \in [Order -> Nat]
  /\ applied       \in [Order -> Nat]
  /\ packedAt      \in [Order -> BOOLEAN]
  /\ runner        \in [Order -> Runner \cup {NoRunner}]
  /\ pay           \in [Order -> PaymentStatus]
  /\ amount        \in [Order -> Nat]
  /\ refunded      \in [Order -> Nat]
  /\ short         \in [Order -> [Product -> Nat]]
  /\ onHand        \in [Product -> Nat]
  /\ reserved      \in [Product -> Nat]
  /\ listed        \in [Product -> BOOLEAN]
  /\ isOpen        \in BOOLEAN
  /\ queueLimit    \in Nat \ {0}
  /\ widest        \in Nat \ {0}
  /\ wallet        \in [Customer -> Nat]
  /\ ledger        \in [Order -> Int]

CallersTypeOK ==
  /\ call      \in [Call -> Order \cup {NoOrder}]
  /\ uses      \in [Promo -> Nat]
  /\ redeemed  \subseteq Order
  /\ seen      \subseteq Event
  /\ overdue   \subseteq Order
  /\ desk      \in [Desk -> RefundCall \cup {IdleDesk}]
  /\ usedKeys  \subseteq RefundKey
  /\ repaid    \in [Order -> Nat]
  /\ corrected \in [Product -> Int]

DeliveryTypeOK ==
  /\ online   \subseteq Runner
  /\ claim    \in [Claim -> (Runner \X Order) \cup {NoClaim}]
  /\ code     \in [Order -> Code \cup {NoCode}]
  /\ hash     \in [Order -> Code \cup {NoCode}]
  /\ attempts \in [Order -> 0..MaxAttempts]
  /\ earned   \in [Order -> Runner \cup {NoRunner}]
  /\ actor    \in [Order -> Runner \cup {NoRunner, Admin}]

\* Every variable stays in the domain of the column or call it stands for.
TypeOK == TablesTypeOK /\ CallersTypeOK /\ DeliveryTypeOK

-----------------------------------------------------------------------------
(***************************************************************************)
(* STOCK                                                                   *)
(***************************************************************************)
HeldOf(p) == TotalOf([o \in Order |-> Holds(o, p)])
TakenOf(p) == TotalOf([o \in Order |-> TookOff(o, p)])

(* No reservation is lost: inventory.qty_reserved covers what the waiting  *)
(* and confirmed orders still hold, so create_order never sells it again.  *)
ReservationCoversHeld == \A p \in Product : reserved[p] >= HeldOf(p)

(* No reservation leaks: whatever is reserved is held by some order, so a  *)
(* finished order leaves nothing unsellable behind.                        *)
ReservationIsHeld == \A p \in Product : reserved[p] <= HeldOf(p)

(* The shelf is explained: qty_on_hand is the opening stock plus the       *)
(* audited corrections minus what mark_packed took for packed orders; the  *)
(* greatest(..., 0) of mark_packed never swallows a unit.                  *)
ShelfIsAccounted ==
  \A p \in Product : onHand[p] = Stock[p] + corrected[p] - TakenOf(p)

-----------------------------------------------------------------------------
(***************************************************************************)
(* MONEY                                                                   *)
(***************************************************************************)
GatewayTook(o) ==
  IF HasCapture(pay[o]) \/ (pay[o] = "failed" /\ refunded[o] > 0) THEN amount[o] ELSE 0

\* What the order has cost its customer so far, the promo's credit aside.
Outlay(o) == GatewayTook(o) + PromoCredit(o) - ledger[o]

(* Every rupee of one order is somewhere: while the payment is awaited the *)
(* customer is out exactly what the wallet gave; once it failed, nothing   *)
(* (a late capture included); afterwards the price of what will be or was  *)
(* delivered, less what support paid back.                                 *)
MoneyBalances ==
  \A o \in Order : status[o] # "absent" =>
    Outlay(o) = CASE pay[o] = "pending" -> applied[o]
                  [] pay[o] = "failed"  -> 0
                  [] OTHER              -> payable[o] + applied[o] - repaid[o]

(* However many calls arrive with one refund key, it pays once: money is   *)
(* repaid only together with a key that had no refunds row.                *)
EachKeyPaysOnce ==
  [][\A o \in Order : repaid'[o] # repaid[o] =>
       \E k \in RefundKey : k \notin usedKeys /\ usedKeys' = usedKeys \cup {k}]_vars

(* A cancellation returns everything the order cost: once cancelled the    *)
(* customer is out nothing, the wallet's share of the price included.      *)
CancelledOrdersCostNothing ==
  \A o \in Order : status[o] = "cancelled" => Outlay(o) = 0

(* orders.payment_status, the copy the console reads, agrees with payments *)
(* from checkout on, unless the payment failed (the sweep leaves the copy  *)
(* at "pending").                                                          *)
PaymentStatusCopyAgrees ==
  \A o \in Order : status[o] # "absent" /\ pay[o] # "failed" => paymentStatus[o] = pay[o]

-----------------------------------------------------------------------------
(***************************************************************************)
(* PROMOS AND THE QUEUE                                                    *)
(***************************************************************************)
(* promos.uses_count counts the redemptions, and neither it nor any        *)
(* customer's share of it passes its limit, whichever calls race.          *)
PromoLimitsHold ==
  \A r \in Promo :
    /\ uses[r] = Cardinality({o \in redeemed : PromoOf[o] = r})
    /\ uses[r] <= MaxUses[r]
    /\ \A c \in Customer : Cardinality(RedeemedBy(r, c)) <= PerUser

(* The queue limit is read without a lock, so it can be overshot, but only *)
(* by the calls that were under way together, over the highest limit an    *)
(* administrator has set so far: a limit that is lowered sends no order    *)
(* away (runs without a failed delivery coming back into the queue).       *)
QueueOvershootBounded == QueueDepth <= widest - 1 + Cardinality(Call)

-----------------------------------------------------------------------------
(***************************************************************************)
(* ORDER AND PAYMENT TOGETHER                                              *)
(***************************************************************************)
(* The (order, payment) pairs an order can rest in, narrower than the      *)
(* deferred trigger allows: money is captured exactly while the order is   *)
(* alive, and a dead order's money has failed or is wholly returned.       *)
RestingPair ==
  { <<"created", "pending">>, <<"payment_failed", "failed">>, <<"cancelled", "refunded">> }
  \cup {"confirmed", "packed", "assigned", "picked_up", "delivered", "delivery_failed"}
       \X {"captured", "partially_refunded"}

PairsRest == \A o \in Order : status[o] # "absent" => <<status[o], pay[o]>> \in RestingPair

\* The two statuses seen as one pair follow the published state machine.
Pairs   == [o \in Order |-> <<status[o], pay[o]>>]
Machine == INSTANCE OrderStateMachine WITH pair <- Pairs
FollowsTheStateMachine == Machine!Spec

(* A reservation is not held for ever: every order that waits for its      *)
(* payment is confirmed or given up.                                       *)
PaymentWaitEnds ==
  \A o \in Order : status[o] = "created" ~> status[o] # "created"

-----------------------------------------------------------------------------
(***************************************************************************)
(* DELIVERY                                                                *)
(***************************************************************************)
(* A runner has one live job at a time, however claims and reassignments   *)
(* race with each other.                                                   *)
OneLiveJobEach == \A r \in Runner : Cardinality(LiveJobsOf(r)) <= 1

(* Whoever carries an order can finish it: an assigned or picked-up order  *)
(* has a runner, and the code its customer reads is the one a guess is     *)
(* compared with.                                                          *)
LiveJobsCanFinish ==
  \A o \in Order : status[o] \in LiveJob =>
    runner[o] \in Runner /\ code[o] \in Code /\ code[o] = hash[o]

(* An order back on the shelf or never picked belongs to nobody and has no *)
(* code; after a failure or a delivery the customer is shown none.         *)
NoStrayAssignment ==
  \A o \in Order :
    /\ status[o] \in {"absent", "created", "confirmed", "packed"} =>
         runner[o] = NoRunner /\ hash[o] = NoCode
    /\ status[o] \notin LiveJob \cup {"cancelled"} => code[o] = NoCode

(* The runner who held the order when it was delivered is paid for it, and *)
(* no one is paid for an order that was not delivered.                     *)
EarningsMatchDeliveries ==
  \A o \in Order : earned[o] = IF status[o] = "delivered" THEN runner[o] ELSE NoRunner

(* Only an administrator takes a live job from its runner for another; a   *)
(* claim that was checked while the order was still free does not.         *)
OnlyAdminSwapsRunner ==
  [][\A o \in Order :
       status[o] \in LiveJob /\ runner'[o] \notin {runner[o], NoRunner} =>
         actor'[o] = Admin]_vars

-----------------------------------------------------------------------------
(* A stock-out the function finds valid goes through, and the order goes   *)
(* on to be packed with what is left.                                      *)
ValidShortagesAreAccepted == \A s \in Shortage : ShortageIsValid(s) => ENABLED StockOut(s)
=============================================================================
