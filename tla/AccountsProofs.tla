---------------------------- MODULE AccountsProofs ----------------------------
(***************************************************************************)
(* The accounts the transactions keep with each other: the money of an     *)
(* order, the promos, the places in the queue, and the stock.              *)
(***************************************************************************)
EXTENDS OrderCoreProofs

-----------------------------------------------------------------------------
(***************************************************************************)
(* MONEY.  Where the money of one order is.  MoneyBalances is not          *)
(* inductive: that a capture takes exactly the price needs payments.amount *)
(* to equal orders.payable until then, that nothing was paid back before,  *)
(* and that an order has no ledger rows before it is placed.               *)
(***************************************************************************)
MoneyOfOrder(o) ==
  /\ status[o] = "absent" => ledger[o] = 0
  /\ pay[o] = "pending" => refunded[o] = 0 /\ repaid[o] = 0
  /\ pay[o] = "pending" /\ status[o] # "absent" => amount[o] = payable[o]
  /\ status[o] # "absent" =>
       Outlay(o) = CASE pay[o] = "pending" -> applied[o]
                     [] pay[o] = "failed"  -> 0
                     [] OTHER              -> payable[o] + applied[o] - repaid[o]

MoneyInv == \A o \in Order : MoneyOfOrder(o)

MoneyStandsStill(x) ==
  /\ pay'[x] = pay[x] /\ amount'[x] = amount[x] /\ refunded'[x] = refunded[x]
  /\ payable'[x] = payable[x] /\ applied'[x] = applied[x]
  /\ ledger'[x] = ledger[x] /\ repaid'[x] = repaid[x]

-----------------------------------------------------------------------------
\* The columns of one order as numbers, for the arithmetic below.
LEMMA MoneyColumns ==
  ASSUME TypeOK, NEW o \in Order
  PROVE  /\ payable[o] \in Nat /\ applied[o] \in Nat /\ amount[o] \in Nat
         /\ refunded[o] \in Nat /\ repaid[o] \in Nat /\ ledger[o] \in Int
         /\ PromoCredit(o) \in Nat
         /\ pay[o] \in PaymentStatus
BY CheckoutAmounts DEF TypeOK, TablesTypeOK, CallersTypeOK

\* An order whose money stands still and that is not placed keeps its account.
LEMMA MoneyStays ==
  ASSUME NEW x \in Order, MoneyOfOrder(x), MoneyStandsStill(x),
         status'[x] = "absent" <=> status[x] = "absent"
  PROVE  MoneyOfOrder(x)'
BY DEF MoneyOfOrder, MoneyStandsStill, Outlay, GatewayTook, HasCapture

\* A transaction that writes one order answers for that order only.
LEMMA OneOrderMoves ==
  ASSUME MoneyInv, NEW o \in Order, MoneyOfOrder(o)',
         \A x \in Order \ {o} : MoneyStandsStill(x) /\ status'[x] = status[x]
  PROVE  MoneyInv'
BY MoneyStays DEF MoneyInv

\* A transaction that writes no money column keeps every account, so long as
\* it places no order.
LEMMA NoMoneyMoves ==
  ASSUME MoneyInv, UNCHANGED <<pay, amount, refunded, payable, applied, ledger, repaid>>,
         \A x \in Order : status'[x] = "absent" <=> status[x] = "absent"
  PROVE  MoneyInv'
<1>1. \A x \in Order : MoneyStandsStill(x)
  BY DEF MoneyStandsStill
<1> QED  BY <1>1, MoneyStays DEF MoneyInv

-----------------------------------------------------------------------------
(***************************************************************************)
(* The steps of each component.                                            *)
(***************************************************************************)
\* create_order debits the wallet for what the gateway is not asked.
LEMMA CheckoutMoney ==
  ASSUME TypeOK, PairInv, MoneyInv, CheckoutStep
  PROVE  MoneyInv'
<1>1. TypeOK /\ TablesTypeOK /\ CallersTypeOK /\ UNCHANGED repaid
  BY DEF TypeOK, CheckoutStep, refundsVars
<1>2. PICK c \in Call : \/ \E o \in Order : BeginCheckout(c, o)
                        \/ PlaceOrder(c)
                        \/ LoseInsertRace(c)
                        \/ AbandonCheckout(c)
  BY DEF CheckoutStep, CheckoutNext
<1>3. CASE PlaceOrder(c)
  <2>1. PICK o \in Order : call[c] = o /\ status[o] = "absent"
    BY <1>1, <1>3 DEF PlaceOrder, CallersTypeOK
  <2>2. PICK due, debit : due = Total(o) - WalletDebit(o) /\ debit = WalletDebit(o)
    OBVIOUS
  <2>3. due \in Int /\ debit \in Int /\ PromoCredit(o) \in Int
    BY <1>1, <2>1, <2>2, CheckoutAmounts
  <2>4. pay[o] = "pending" /\ ledger[o] = 0 /\ refunded[o] = 0 /\ repaid[o] = 0
    BY <2>1 DEF PairInv, MoneyInv, MoneyOfOrder
  <2>5. /\ status' = [status EXCEPT ![o] = IF due = 0 THEN "confirmed" ELSE "created"]
        /\ pay' = [pay EXCEPT ![o] = IF due = 0 THEN "captured" ELSE "pending"]
        /\ payable' = [payable EXCEPT ![o] = due]
        /\ amount' = [amount EXCEPT ![o] = due]
        /\ applied' = [applied EXCEPT ![o] = debit]
        /\ ledger' = [ledger EXCEPT ![o] = @ + (PromoCredit(o) - debit)]
        /\ UNCHANGED refunded
    BY <1>3, <2>1, <2>2 DEF PlaceOrder, WalletMoves
  <2>6. \A x \in Order \ {o} : MoneyStandsStill(x) /\ status'[x] = status[x]
    BY <1>1, <2>1, <2>5 DEF MoneyStandsStill, TablesTypeOK
  <2>7. /\ status'[o] # "absent"
        /\ pay'[o] = IF due = 0 THEN "captured" ELSE "pending"
        /\ payable'[o] = due /\ amount'[o] = due /\ applied'[o] = debit
        /\ refunded'[o] = 0 /\ repaid'[o] = 0
    BY <1>1, <2>1, <2>4, <2>5 DEF TablesTypeOK
  <2>8. ledger'[o] = PromoCredit(o) - debit
    BY <1>1, <2>1, <2>3, <2>4, <2>5 DEF TablesTypeOK
  <2>9. MoneyOfOrder(o)'
    BY <2>3, <2>7, <2>8 DEF MoneyOfOrder, Outlay, GatewayTook, HasCapture
  <2> QED  BY <2>1, <2>6, <2>9, OneOrderMoves
<1>4. CASE \/ \E o \in Order : BeginCheckout(c, o)
           \/ LoseInsertRace(c)
           \/ AbandonCheckout(c)
  BY <1>1, <1>4, NoMoneyMoves
  DEF BeginCheckout, LoseInsertRace, AbandonCheckout, tableVars, orderVars, paymentVars,
      walletVars
<1> QED  BY <1>2, <1>3, <1>4

\* A webhook or the sweep gives the wallet back what checkout took from it,
\* and a capture that comes after them goes to the wallet, once.
LEMMA PaymentsMoney ==
  ASSUME TypeOK, PairInv, MoneyInv, PaymentsStep
  PROVE  MoneyInv'
<1>1. TypeOK /\ TablesTypeOK /\ UNCHANGED repaid
  BY DEF TypeOK, PaymentsStep, refundsVars
<1>2. ASSUME NEW e \in Event, Webhook(e) PROVE MoneyInv'
  <2>1. PICK o \in Order : o = e.order
    BY EventAssumption
  <2>2. status[o] # "absent" /\ amount[o] > 0
    BY <1>2, <2>1 DEF Webhook
  <2>3. MoneyOfOrder(o)
    BY <2>1 DEF MoneyInv
  <2>4. /\ payable[o] \in Nat /\ applied[o] \in Nat /\ amount[o] \in Nat
        /\ refunded[o] \in Nat /\ repaid[o] \in Nat /\ ledger[o] \in Int
        /\ PromoCredit(o) \in Nat
    BY <2>1, MoneyColumns
  <2>5. CASE FailPayment(o)
    <3>1. /\ status' = [status EXCEPT ![o] = "payment_failed"]
          /\ pay' = [pay EXCEPT ![o] = "failed"]
          /\ ledger' = [ledger EXCEPT ![o] = @ + applied[o]]
          /\ UNCHANGED <<payable, applied, amount, refunded>>
          /\ pay[o] = "pending"
      BY <2>5 DEF FailPayment, WalletMoves, WalletReversal
    <3>2. \A x \in Order \ {o} : MoneyStandsStill(x) /\ status'[x] = status[x]
      BY <1>1, <2>1, <3>1 DEF MoneyStandsStill, TablesTypeOK
    <3>3. /\ status'[o] = "payment_failed" /\ pay'[o] = "failed"
          /\ ledger'[o] = ledger[o] + applied[o]
      BY <1>1, <2>1, <3>1 DEF TablesTypeOK
    <3>4. refunded'[o] = 0 /\ PromoCredit(o) - ledger[o] = applied[o]
      BY <2>2, <2>3, <2>4, <3>1 DEF MoneyOfOrder, Outlay, GatewayTook, HasCapture
    <3>5. Outlay(o)' = 0
      BY <2>4, <3>3, <3>4 DEF Outlay, GatewayTook, HasCapture
    <3>6. MoneyOfOrder(o)'
      BY <3>3, <3>5 DEF MoneyOfOrder
    <3> QED  BY <2>1, <3>2, <3>6, OneOrderMoves
  <2>6. CASE ConfirmPayment(o)
    <3>1. /\ status' = [status EXCEPT ![o] = "confirmed"]
          /\ pay' = [pay EXCEPT ![o] = "captured"]
          /\ UNCHANGED <<payable, applied, amount, refunded, ledger>>
          /\ pay[o] = "pending"
      BY <2>6 DEF ConfirmPayment, walletVars
    <3>2. \A x \in Order \ {o} : MoneyStandsStill(x) /\ status'[x] = status[x]
      BY <1>1, <2>1, <3>1 DEF MoneyStandsStill, TablesTypeOK
    <3>3. status'[o] = "confirmed" /\ pay'[o] = "captured"
      BY <1>1, <2>1, <3>1 DEF TablesTypeOK
    <3>4. MoneyOfOrder(o)'
      BY <1>1, <2>2, <2>3, <2>4, <3>1, <3>3 DEF MoneyOfOrder, Outlay, GatewayTook, HasCapture
    <3> QED  BY <2>1, <3>2, <3>4, OneOrderMoves
  <2>7. CASE ReconcileLateCapture(o)
    <3>1. /\ refunded' = [refunded EXCEPT ![o] = @ + amount[o]]
          /\ ledger' = [ledger EXCEPT ![o] = @ + amount[o]]
          /\ UNCHANGED <<status, pay, payable, applied, amount>>
          /\ pay[o] = "failed" /\ refunded[o] = 0
      BY <2>7 DEF ReconcileLateCapture, LateCapture, NotYetReconciled, WalletMoves, orderVars
    <3>2. \A x \in Order \ {o} : MoneyStandsStill(x) /\ status'[x] = status[x]
      BY <1>1, <2>1, <3>1 DEF MoneyStandsStill, TablesTypeOK
    <3>3. refunded'[o] = amount[o] /\ ledger'[o] = ledger[o] + amount[o]
      BY <1>1, <2>1, <2>4, <3>1 DEF TablesTypeOK
    <3>4. PromoCredit(o) - ledger[o] = 0
      BY <2>2, <2>3, <2>4, <3>1 DEF MoneyOfOrder, Outlay, GatewayTook, HasCapture
    <3>5. Outlay(o)' = 0
      BY <2>2, <2>4, <3>1, <3>3, <3>4 DEF Outlay, GatewayTook, HasCapture
    <3>6. MoneyOfOrder(o)'
      BY <2>2, <3>1, <3>5 DEF MoneyOfOrder
    <3> QED  BY <2>1, <3>2, <3>6, OneOrderMoves
  <2>8. CASE UNCHANGED tableVars
    BY <1>1, <2>8, NoMoneyMoves DEF tableVars, orderVars, paymentVars, walletVars
  <2> QED  BY <1>2, <2>1, <2>5, <2>6, <2>7, <2>8 DEF Webhook
<1>3. ASSUME NEW o \in Order, ReservationTimesOut(o) PROVE MoneyInv'
  BY <1>1, <1>3, NoMoneyMoves
  DEF ReservationTimesOut, tableVars, orderVars, paymentVars, walletVars
<1>4. ASSUME NEW S \in SUBSET Order, Sweep(S) PROVE MoneyInv'
  <2> SUFFICES ASSUME NEW x \in Order PROVE MoneyOfOrder(x)'
    BY DEF MoneyInv
  <2>1. MoneyOfOrder(x)
    BY DEF MoneyInv
  <2>2. UNCHANGED <<payable, applied, amount, refunded>>
    BY <1>4 DEF Sweep
  <2>3. CASE x \notin S
    <3>1. status'[x] = status[x] /\ pay'[x] = pay[x]
      BY <1>4, <2>3 DEF Sweep
    <3>2. ledger'[x] = ledger[x]
      BY <1>1, <1>4, <2>3 DEF Sweep, TablesTypeOK
    <3> QED  BY <1>1, <2>1, <2>2, <3>1, <3>2, MoneyStays DEF MoneyStandsStill
  <2>4. CASE x \in S
    <3>1. status[x] = "created" /\ pay[x] = "pending"
      BY <1>4, <2>4 DEF Sweep, Stale, PairInv
    <3>2. status'[x] = "payment_failed" /\ pay'[x] = "failed"
      BY <1>4, <2>4 DEF Sweep
    <3>3. ledger'[x] = ledger[x] + applied[x]
      BY <1>4, <2>4 DEF Sweep, SweepReversal
    <3>4. applied[x] \in Nat /\ ledger[x] \in Int /\ PromoCredit(x) \in Nat
      BY MoneyColumns
    <3> QED
      BY <2>1, <2>2, <3>1, <3>2, <3>3, <3>4 DEF MoneyOfOrder, Outlay, GatewayTook, HasCapture
  <2> QED  BY <2>3, <2>4
<1> QED  BY <1>2, <1>3, <1>4 DEF PaymentsStep, PaymentsNext

\* A stock-out lowers the price by what it gives back.
LEMMA PackingMoney ==
  ASSUME TypeOK, PairInv, MoneyInv, PackingStep
  PROVE  MoneyInv'
<1>1. TypeOK /\ TablesTypeOK /\ UNCHANGED repaid
  BY DEF TypeOK, PackingStep, refundsVars
<1>2. ASSUME NEW o \in Order, MarkPacked(o) PROVE MoneyInv'
  BY <1>1, <1>2, NoMoneyMoves DEF MarkPacked, TablesTypeOK, paymentVars, walletVars
<1>3. ASSUME NEW s \in Shortage, StockOut(s) PROVE MoneyInv'
  <2>1. PICK o \in Order : o = s.order
    BY ShortageAssumption
  <2>2. PICK value, cut, m : /\ value = MissingValue(s) /\ cut = PayableCut(s)
                            /\ m = AfterShortage(s)
    OBVIOUS
  <2>3. value \in Int /\ cut \in Int
    BY <1>1, <2>2, ShortageAmounts
  <2>4. /\ pay' = [pay EXCEPT ![o] = m]
        /\ ledger' = [ledger EXCEPT ![o] = @ + value]
        /\ payable' = [payable EXCEPT ![o] = @ - cut]
        /\ applied' = [applied EXCEPT ![o] = @ - (value - cut)]
        /\ \A x \in Order \ {o} : refunded'[x] = refunded[x]
        /\ UNCHANGED <<status, amount>>
        /\ status[o] = "confirmed"
    BY <1>1, <1>3, <2>1, <2>2
    DEF StockOut, ShortageIsValid, WalletMoves, TablesTypeOK
  <2>5. pay[o] \in Machine!Paid
    BY <2>4 DEF PairInv, Alive
  <2>6. m \in {"captured", "partially_refunded", "refunded"}
    BY <2>1, <2>2, <2>5 DEF AfterShortage, Machine!Paid
  <2>7. \A x \in Order \ {o} : MoneyStandsStill(x) /\ status'[x] = status[x]
    BY <1>1, <2>1, <2>4 DEF MoneyStandsStill, TablesTypeOK
  <2>8. /\ status'[o] = "confirmed" /\ pay'[o] = m
        /\ ledger'[o] = ledger[o] + value
        /\ payable'[o] = payable[o] - cut
        /\ applied'[o] = applied[o] - (value - cut)
        /\ amount'[o] = amount[o] /\ repaid'[o] = repaid[o]
    BY <1>1, <2>1, <2>4 DEF TablesTypeOK
  <2>9. /\ payable[o] \in Nat /\ applied[o] \in Nat /\ amount[o] \in Nat
        /\ repaid[o] \in Nat /\ ledger[o] \in Int /\ PromoCredit(o) \in Nat
    BY <2>1, MoneyColumns
  <2>10. amount[o] + PromoCredit(o) - ledger[o] = payable[o] + applied[o] - repaid[o]
    BY <2>4, <2>5 DEF MoneyInv, MoneyOfOrder, Outlay, GatewayTook, HasCapture, Machine!Paid
  <2>11. Outlay(o)' = payable'[o] + applied'[o] - repaid'[o]
    <3>1. GatewayTook(o)' = amount[o]
      BY <2>6, <2>8 DEF GatewayTook, HasCapture
    <3>2. Outlay(o)' = amount[o] + PromoCredit(o) - (ledger[o] + value)
      BY <2>8, <3>1 DEF Outlay
    <3>3. payable'[o] + applied'[o] = payable[o] + applied[o] - value
      BY <2>3, <2>8, <2>9
    <3> QED  BY <2>3, <2>8, <2>9, <2>10, <3>2, <3>3
  <2>12. MoneyOfOrder(o)'
    BY <2>6, <2>8, <2>11 DEF MoneyOfOrder
  <2> QED  BY <2>1, <2>7, <2>12, OneOrderMoves
<1> QED  BY <1>2, <1>3 DEF PackingStep, PackingNext

\* What a refund pays back is what the account shows as paid back.
LEMMA PayBackMoney ==
  ASSUME TypeOK, PairInv, MoneyInv, NEW d \in Desk, PayBack(d), Commits(desk[d].order),
         UNCHANGED <<payable, applied, amount>>,
         \/ UNCHANGED status
         \/ status' = [status EXCEPT ![desk[d].order] = "cancelled"]
  PROVE  MoneyInv'
<1>1. TablesTypeOK /\ CallersTypeOK
  BY DEF TypeOK
<1>2. PICK o \in Order : o = desk[d].order
  BY <1>1, PayBackTypes
<1>3. PICK asked : asked = Asked(desk[d])
  OBVIOUS
<1>4. PICK m \in {"refunded", "partially_refunded"} : m = PaidBackAs(desk[d])
  BY DEF PaidBackAs
<1>5. /\ pay' = [pay EXCEPT ![o] = m]
      /\ refunded' = [refunded EXCEPT ![o] = @ + asked]
      /\ ledger' = [ledger EXCEPT ![o] = @ + asked]
      /\ repaid' = [repaid EXCEPT ![o] = @ + asked]
      /\ HasCapture(pay[o])
  BY <1>2, <1>3, <1>4 DEF PayBack, WalletMoves, RefundIsDue
<1>6. asked \in Int
  <2>1. desk[d] \in RefundCall
    BY <1>1 DEF PayBack, RefundIsDue, CallersTypeOK
  <2> QED  BY <1>1, <1>2, <1>3, <2>1 DEF Asked, Remaining, RefundCall, TablesTypeOK
<1>7. status[o] # "absent"
  BY <1>5 DEF PairInv, HasCapture
<1>8. \A x \in Order \ {o} : MoneyStandsStill(x) /\ status'[x] = status[x]
  BY <1>1, <1>2, <1>5 DEF MoneyStandsStill, TablesTypeOK, CallersTypeOK
<1>9. /\ status'[o] # "absent" /\ pay'[o] = m
      /\ ledger'[o] = ledger[o] + asked /\ repaid'[o] = repaid[o] + asked
  BY <1>1, <1>2, <1>5, <1>7 DEF TablesTypeOK, CallersTypeOK
<1>10. /\ payable[o] \in Nat /\ applied[o] \in Nat /\ amount[o] \in Nat
       /\ repaid[o] \in Nat /\ ledger[o] \in Int /\ PromoCredit(o) \in Nat
  BY MoneyColumns
<1>11. amount[o] + PromoCredit(o) - ledger[o] = payable[o] + applied[o] - repaid[o]
  BY <1>5, <1>7 DEF MoneyInv, MoneyOfOrder, Outlay, GatewayTook, HasCapture
<1>12. Outlay(o)' = payable'[o] + applied'[o] - repaid'[o]
  BY <1>6, <1>9, <1>10, <1>11 DEF Outlay, GatewayTook, HasCapture
<1>13. MoneyOfOrder(o)'
  BY <1>9, <1>12 DEF MoneyOfOrder
<1> QED  BY <1>8, <1>13, OneOrderMoves

\* Refunds and cancellations.
LEMMA RefundsMoney ==
  ASSUME TypeOK, PairInv, MoneyInv, RefundsStep
  PROVE  MoneyInv'
<1>1. ASSUME NEW d \in Desk, RefundPart(d) PROVE MoneyInv'
  BY <1>1, PayBackMoney DEF RefundPart
<1>2. ASSUME NEW d \in Desk, RefundAndCancel(d) PROVE MoneyInv'
  BY <1>2, PayBackMoney DEF RefundAndCancel
<1>3. ASSUME UNCHANGED <<tableVars, repaid>> PROVE MoneyInv'
  BY <1>3, NoMoneyMoves DEF tableVars, orderVars, paymentVars, walletVars
<1>4. ASSUME NEW d \in Desk,
             \/ DropRefund(d)
             \/ \E k \in RefundKey, o \in Order, a \in PartialAmount \cup {Whole},
                   cancel \in BOOLEAN : BeginRefund(d, k, o, a, cancel)
      PROVE  MoneyInv'
  BY <1>3, <1>4 DEF DropRefund, BeginRefund
<1> QED  BY <1>1, <1>2, <1>4 DEF RefundsStep, RefundsNext

\* An administrator's changes to the store cost no customer anything.
LEMMA StoreAdminMoney ==
  ASSUME TypeOK, MoneyInv, StoreAdminStep
  PROVE  MoneyInv'
BY NoMoneyMoves
DEF StoreAdminStep, StoreAdminNext, SetServicePause, AdjustInventory, SetListed, orderVars,
    paymentVars, walletVars, refundsVars

\* Nor does a delivery; a runner's earnings are not the customer's money.
LEMMA DeliveryMoney ==
  ASSUME TypeOK, MoneyInv, DeliveryStep
  PROVE  MoneyInv'
BY DeliveryMoves, NoMoneyMoves DEF DeliveryStep, refundsVars, unmoved, paymentVars, walletVars

-----------------------------------------------------------------------------
\* The accounts are inductive with the types and the pairs.
LEMMA AccountsCorrect == Spec => []MoneyInv
<1>1. Init => MoneyInv
  BY DEF Init, TablesInit, RefundsInit, MoneyInv, MoneyOfOrder
<1>2. TypeOK /\ PairInv /\ MoneyInv /\ [Next]_vars => MoneyInv'
  <2> SUFFICES ASSUME TypeOK, PairInv, MoneyInv, [Next]_vars PROVE MoneyInv'
    OBVIOUS
  <2>1. CASE UNCHANGED vars
    BY <2>1, NoMoneyMoves
    DEF vars, tableVars, orderVars, paymentVars, walletVars, refundsVars
  <2> QED
    BY <2>1, CheckoutMoney, PaymentsMoney, PackingMoney, RefundsMoney, StoreAdminMoney,
       DeliveryMoney DEF Next
<1> QED  BY <1>1, <1>2, PairsCorrect, PTL DEF Spec

(* For every order at every moment: what it has cost its customer is what  *)
(* its price, its payment and its refunds say, in whatever order the       *)
(* webhook, the sweep, the packer and the desk got to it.                  *)
THEOREM MoneyIsAccountedFor == Spec => []MoneyBalances
<1>1. MoneyInv => MoneyBalances
  BY DEF MoneyInv, MoneyOfOrder, MoneyBalances
<1> QED  BY <1>1, AccountsCorrect, PTL

(* Two operators, a double click or a retry: a refund key pays once.  Only *)
(* PayBack repays, and it takes a key that had no refunds row.             *)
THEOREM RefundsPayOncePerKey == Spec => EachKeyPaysOnce
<1> DEFINE Once == \A o \in Order : repaid'[o] # repaid[o] =>
                     \E k \in RefundKey : k \notin usedKeys /\ usedKeys' = usedKeys \cup {k}
<1>1. ASSUME TypeOK, [Next]_vars PROVE Once \/ UNCHANGED vars
  <2>1. ASSUME NEW d \in Desk, PayBack(d) PROVE Once
    <3>1. desk[d] \in RefundCall
      BY <1>1, <2>1 DEF PayBack, RefundIsDue, TypeOK, CallersTypeOK
    <3>2. /\ desk[d].key \in RefundKey /\ desk[d].key \notin usedKeys
          /\ usedKeys' = usedKeys \cup {desk[d].key}
      BY <2>1, <3>1 DEF PayBack, RefundIsDue, KeyIsFree, RefundCall
    <3> QED  BY <3>2
  <2>2. ASSUME UNCHANGED repaid PROVE Once
    BY <2>2
  <2>3. CASE RefundsStep
    BY <2>1, <2>2, <2>3
    DEF RefundsStep, RefundsNext, RefundPart, RefundAndCancel, BeginRefund, DropRefund
  <2>4. CASE CheckoutStep \/ PaymentsStep \/ PackingStep \/ StoreAdminStep \/ DeliveryStep
    BY <2>2, <2>4
    DEF CheckoutStep, PaymentsStep, PackingStep, StoreAdminStep, DeliveryStep, refundsVars
  <2> QED  BY <1>1, <2>3, <2>4 DEF Next
<1>2. TypeOK /\ [Next]_vars => [Once]_vars
  BY <1>1
<1> QED  BY <1>2, TypeCorrect, PTL DEF Spec, EachKeyPaysOnce

-----------------------------------------------------------------------------
(***************************************************************************)
(* Promos.  Whoever redeems holds the promo's row, so the counter and the  *)
(* redemptions move together, one at a time.                               *)
(***************************************************************************)
\* An order that has been placed stays in the table.
LEMMA PlacedStaysPlaced ==
  ASSUME TypeOK, PairInv, [Next]_vars, NEW o \in Order, status[o] # "absent"
  PROVE  status'[o] # "absent"
BY StatusPaths DEF Path

PromoInv ==
  /\ IsFiniteSet(redeemed)
  /\ \A o \in redeemed : status[o] # "absent"
  /\ PromoLimitsHold

\* The redemption of one order, with the promo's row locked.
LEMMA RedeemKeeps ==
  ASSUME TypeOK, PromoInv, NEW o \in Order, o \notin redeemed, PromoRedeemable(o), Redeem(o)
  PROVE  IsFiniteSet(redeemed') /\ PromoLimitsHold'
<1> DEFINE Of(r) == {x \in redeemed : PromoOf[x] = r}
           By(r, c) == {x \in redeemed : PromoOf[x] = r /\ Owner[x] = c}
<1>1. /\ redeemed' = IF PromoOf[o] = NoPromo THEN redeemed ELSE redeemed \cup {o}
      /\ uses' = [r \in Promo |-> IF r = PromoOf[o] THEN uses[r] + 1 ELSE uses[r]]
      /\ \A r \in Promo : uses[r] \in Nat /\ r # NoPromo
  BY CheckoutAssumption DEF Redeem, TypeOK, CallersTypeOK
<1>2. \A r, c : /\ IsFiniteSet(Of(r)) /\ IsFiniteSet(By(r, c))
               /\ o \notin Of(r) /\ o \notin By(r, c)
  BY FS_Subset DEF PromoInv
<1>3. ASSUME NEW S, IsFiniteSet(S)
      PROVE  /\ IsFiniteSet(S \cup {o}) /\ Cardinality(S) \in Nat
             /\ o \notin S => Cardinality(S \cup {o}) = Cardinality(S) + 1
  BY <1>3, FS_AddElement, FS_CardinalityType
<1>4. IsFiniteSet(redeemed')
  BY <1>1, <1>3 DEF PromoInv
<1> SUFFICES ASSUME NEW r \in Promo
             PROVE  /\ uses'[r] = Cardinality({x \in redeemed' : PromoOf[x] = r})
                    /\ uses'[r] <= MaxUses[r]
                    /\ \A c \in Customer :
                         Cardinality({x \in redeemed' : PromoOf[x] = r /\ Owner[x] = c}) <= PerUser
  BY <1>4 DEF PromoLimitsHold, RedeemedBy
<1>5. /\ uses[r] = Cardinality(Of(r)) /\ uses[r] <= MaxUses[r]
      /\ \A c \in Customer : Cardinality(By(r, c)) <= PerUser
  BY DEF PromoInv, PromoLimitsHold, RedeemedBy
<1>6. CASE PromoOf[o] = r
  <2>1. /\ {x \in redeemed' : PromoOf[x] = r} = Of(r) \cup {o}
        /\ \A c : {x \in redeemed' : PromoOf[x] = r /\ Owner[x] = c}
                 = IF Owner[o] = c THEN By(r, c) \cup {o} ELSE By(r, c)
    BY <1>1, <1>6
  <2>2. uses[r] < MaxUses[r] /\ Cardinality(By(r, Owner[o])) < PerUser
    BY <1>1, <1>6 DEF PromoRedeemable, RedeemedBy
  <2>3. MaxUses[r] \in Nat /\ PerUser \in Nat /\ Owner[o] \in Customer
    BY CheckoutAssumption, RequestsAreWellFormed
  <2>4. uses'[r] = uses[r] + 1
    BY <1>1, <1>6
  <2> HIDE DEF Of, By
  <2>5. Cardinality(Of(r) \cup {o}) = Cardinality(Of(r)) + 1
    BY <1>2, <1>3
  <2>6. /\ Cardinality(By(r, Owner[o]) \cup {o}) = Cardinality(By(r, Owner[o])) + 1
        /\ Cardinality(By(r, Owner[o])) \in Nat
    BY <1>2, <1>3
  <2>7. uses'[r] = Cardinality(Of(r) \cup {o}) /\ uses'[r] <= MaxUses[r]
    BY <1>1, <1>5, <2>2, <2>3, <2>5, <2>4
  <2>8. Cardinality(By(r, Owner[o]) \cup {o}) <= PerUser
    BY <2>2, <2>3, <2>6
  <2> QED  BY <1>5, <2>1, <2>7, <2>8
<1>7. CASE PromoOf[o] # r
  <2>1. /\ {x \in redeemed' : PromoOf[x] = r} = Of(r)
        /\ \A c : {x \in redeemed' : PromoOf[x] = r /\ Owner[x] = c} = By(r, c)
        /\ uses'[r] = uses[r]
    BY <1>1, <1>7
  <2> HIDE DEF Of, By
  <2> QED  BY <1>5, <2>1
<1> QED  BY <1>6, <1>7

(* No promo is redeemed more often than its limits say, in all or by one   *)
(* customer, and its counter counts the redemptions, however many          *)
(* checkouts race for it: both are read under the lock of its row.         *)
THEOREM PromosStayWithinLimits == Spec => []PromoLimitsHold
<1>1. Init => PromoInv
  <2> SUFFICES ASSUME Init PROVE PromoInv
    OBVIOUS
  <2>1. redeemed = {} /\ uses = [r \in Promo |-> 0]
    BY DEF Init, CheckoutInit
  <2>2. \A r, c : {o \in redeemed : PromoOf[o] = r} = {} /\ RedeemedBy(r, c) = {}
    BY <2>1 DEF RedeemedBy
  <2> QED
    BY <2>1, <2>2, FS_EmptySet, CheckoutAssumption DEF PromoInv, PromoLimitsHold
<1>2. TypeOK /\ PairInv /\ PromoInv /\ [Next]_vars => PromoInv'
  <2> SUFFICES ASSUME TypeOK, PairInv, PromoInv, [Next]_vars PROVE PromoInv'
    OBVIOUS
  <2>1. redeemed \subseteq Order
    BY DEF TypeOK, CallersTypeOK
  <2>2. \A o \in redeemed : status'[o] # "absent"
    BY <2>1, PlacedStaysPlaced DEF PromoInv
  <2>3. CASE UNCHANGED <<uses, redeemed>>
    BY <2>2, <2>3 DEF PromoInv, PromoLimitsHold, RedeemedBy
  <2>4. ASSUME NEW c \in Call, PlaceOrder(c) PROVE PromoInv'
    <3>1. PICK o \in Order : call[c] = o /\ status[o] = "absent"
      BY <2>4 DEF PlaceOrder, TypeOK, CallersTypeOK
    <3>2. Redeem(o) /\ PromoRedeemable(o) /\ o \notin redeemed
      BY <2>4, <3>1 DEF PlaceOrder, LockedChecksPass, PromoInv
    <3>3. status'[o] # "absent"
      BY <2>4, <3>1 DEF PlaceOrder, TypeOK, TablesTypeOK
    <3>4. \A x \in redeemed' : status'[x] # "absent"
      BY <2>2, <3>2, <3>3 DEF Redeem
    <3> QED  BY <3>2, <3>4, RedeemKeeps DEF PromoInv
  <2>5. CASE CheckoutStep
    BY <2>3, <2>4, <2>5
    DEF CheckoutStep, CheckoutNext, BeginCheckout, LoseInsertRace, AbandonCheckout
  <2>6. CASE PaymentsStep \/ PackingStep \/ RefundsStep \/ StoreAdminStep \/ DeliveryStep \/ UNCHANGED vars
    BY <2>3, <2>6
    DEF PaymentsStep, PackingStep, RefundsStep, StoreAdminStep, DeliveryStep, vars, checkoutVars
  <2> QED  BY <2>5, <2>6 DEF Next
<1>3. PromoInv => PromoLimitsHold
  BY DEF PromoInv
<1> QED  BY <1>1, <1>2, <1>3, PairsCorrect, PTL DEF Spec

-----------------------------------------------------------------------------
(***************************************************************************)
(* THE QUEUE.  Every call under way may still place an order, so the depth *)
(* and the calls under way are bounded together.                           *)
(***************************************************************************)
Placed  == {o \in Order : status[o] # "absent"}
Waiting == {o \in Order : status[o] \in InQueue}
Busy    == {c \in Call : call[c] # NoOrder}

\* A step places no order, or the one a call was working on.
LEMMA OneIsPlaced ==
  ASSUME TypeOK, PairInv, [Next]_vars
  PROVE  \/ Placed' = Placed
         \/ \E c \in Call : /\ PlaceOrder(c)
                            /\ call[c] \in Order \ Placed
                            /\ Placed' = Placed \cup {call[c]}
<1>1. TablesTypeOK /\ CallersTypeOK
  BY DEF TypeOK
<1>2. ASSUME UNCHANGED status PROVE Placed' = Placed
  BY <1>2 DEF Placed
<1>3. ASSUME NEW c \in Call, PlaceOrder(c)
      PROVE  call[c] \in Order \ Placed /\ Placed' = Placed \cup {call[c]}
  <2>1. /\ call[c] \in Order /\ status[call[c]] = "absent"
        /\ status'[call[c]] # "absent"
        /\ \A x \in Order \ {call[c]} : status'[x] = status[x]
    BY <1>1, <1>3 DEF PlaceOrder, CallersTypeOK, TablesTypeOK
  <2> QED  BY <2>1 DEF Placed
<1>4. CASE CheckoutStep
  BY <1>2, <1>3, <1>4
  DEF CheckoutStep, CheckoutNext, BeginCheckout, LoseInsertRace, AbandonCheckout, tableVars,
      orderVars
<1>5. CASE PaymentsStep \/ PackingStep \/ RefundsStep \/ StoreAdminStep \/ DeliveryStep
  BY <1>5, OnlyCheckoutPlaces, PlacedStaysPlaced DEF Placed
<1>6. CASE UNCHANGED vars
  BY <1>2, <1>6 DEF vars, tableVars, orderVars
<1> QED  BY <1>4, <1>5, <1>6 DEF Next

\* At any moment finitely many orders have been placed.
LEMMA PlacedFinite == Spec => []IsFiniteSet(Placed)
<1>1. Init => IsFiniteSet(Placed)
  <2>1. Init => Placed = {}
    BY DEF Init, TablesInit, Placed
  <2> QED  BY <2>1, FS_EmptySet
<1>2. TypeOK /\ PairInv /\ IsFiniteSet(Placed) /\ [Next]_vars => IsFiniteSet(Placed)'
  BY OneIsPlaced, FS_AddElement
<1> QED  BY <1>1, <1>2, PairsCorrect, PTL DEF Spec

\* No failed delivery is sent out again.
NoReturn == \A o \in Order : status[o] = "delivery_failed" => status'[o] # "assigned"

QueueInv ==
  /\ queueLimit <= widest
  /\ QueueDepth + Cardinality(Busy) <= widest - 1 + Cardinality(Call)

\* The highest limit so far is at least the one in force, and never comes down.
LEMMA LimitsGrow ==
  ASSUME TypeOK, queueLimit <= widest, [Next]_vars
  PROVE  /\ widest \in Nat /\ widest' \in Nat /\ queueLimit \in Nat
         /\ queueLimit' <= widest' /\ widest <= widest'
<1>1. widest \in Nat /\ queueLimit \in Nat
  BY DEF TypeOK, TablesTypeOK
<1> DEFINE Grow == queueLimit' <= widest' /\ widest <= widest' /\ widest' \in Nat
<1> SUFFICES Grow
  BY <1>1
<1>2. ASSUME queueLimit' = queueLimit, widest' = widest PROVE Grow
  BY <1>1, <1>2
<1>3. ASSUME UNCHANGED tableVars PROVE Grow
  BY <1>2, <1>3 DEF tableVars, stockVars, storeVars
<1>4. ASSUME UNCHANGED stockVars PROVE Grow
  BY <1>2, <1>4 DEF stockVars, storeVars
<1>5. ASSUME UNCHANGED storeVars PROVE Grow
  BY <1>2, <1>5 DEF storeVars
<1> HIDE DEF Grow
<1>6. CASE CheckoutStep
  <2>1. ASSUME NEW c \in Call, NEW o \in Order, BeginCheckout(c, o) PROVE Grow
    BY <1>3, <2>1 DEF BeginCheckout
  <2>2. ASSUME NEW c \in Call, PlaceOrder(c) PROVE Grow
    BY <1>5, <2>2 DEF PlaceOrder
  <2>3. ASSUME NEW c \in Call, LoseInsertRace(c) PROVE Grow
    BY <1>5, <2>3 DEF LoseInsertRace
  <2>4. ASSUME NEW c \in Call, AbandonCheckout(c) PROVE Grow
    BY <1>3, <2>4 DEF AbandonCheckout
  <2> QED  BY <1>6, <2>1, <2>2, <2>3, <2>4 DEF CheckoutStep, CheckoutNext
<1>7. CASE PaymentsStep
  <2>1. ASSUME NEW e \in Event, Webhook(e) PROVE Grow
    <3>1. ASSUME FailPayment(e.order) PROVE Grow
      BY <1>5, <3>1 DEF FailPayment
    <3>2. ASSUME ConfirmPayment(e.order) PROVE Grow
      BY <1>4, <3>2 DEF ConfirmPayment
    <3>3. ASSUME ReconcileLateCapture(e.order) PROVE Grow
      BY <1>4, <3>3 DEF ReconcileLateCapture
    <3> QED  BY <1>3, <2>1, <3>1, <3>2, <3>3 DEF Webhook
  <2>2. ASSUME NEW o \in Order, ReservationTimesOut(o) PROVE Grow
    BY <1>3, <2>2 DEF ReservationTimesOut
  <2>3. ASSUME NEW S \in SUBSET Order, Sweep(S) PROVE Grow
    BY <1>5, <2>3 DEF Sweep
  <2> QED  BY <1>7, <2>1, <2>2, <2>3 DEF PaymentsStep, PaymentsNext
<1>8. CASE PackingStep
  <2>1. ASSUME NEW o \in Order, MarkPacked(o) PROVE Grow
    BY <1>5, <2>1 DEF MarkPacked
  <2>2. ASSUME NEW s \in Shortage, StockOut(s) PROVE Grow
    BY <1>5, <2>2 DEF StockOut
  <2> QED  BY <1>8, <2>1, <2>2 DEF PackingStep, PackingNext
<1>9. CASE RefundsStep
  <2>1. ASSUME NEW d \in Desk, NEW k \in RefundKey, NEW o \in Order,
               NEW a \in PartialAmount \cup {Whole}, NEW cancel \in BOOLEAN,
               BeginRefund(d, k, o, a, cancel)
        PROVE  Grow
    BY <1>3, <2>1 DEF BeginRefund
  <2>2. ASSUME NEW d \in Desk, RefundPart(d) PROVE Grow
    BY <1>4, <2>2 DEF RefundPart
  <2>3. ASSUME NEW d \in Desk, RefundAndCancel(d) PROVE Grow
    BY <1>5, <2>3 DEF RefundAndCancel
  <2>4. ASSUME NEW d \in Desk, DropRefund(d) PROVE Grow
    BY <1>3, <2>4 DEF DropRefund
  <2> QED  BY <1>9, <2>1, <2>2, <2>3, <2>4 DEF RefundsStep, RefundsNext
<1>10. CASE StoreAdminStep
  <2>1. ASSUME NEW open \in OpenFlag, NEW limit \in QueueLimit \cup {queueLimit},
               SetServicePause(open, limit)
        PROVE  Grow
    <3>1. limit \in Nat
      BY <1>1, AdminAssumption
    <3>2. queueLimit' = limit /\ widest' = IF widest >= limit THEN widest ELSE limit
      BY <2>1 DEF SetServicePause, MaxOf
    <3> QED  BY <1>1, <3>1, <3>2 DEF Grow
  <2>2. ASSUME NEW p \in Correctable, NEW n \in Count, AdjustInventory(p, n) PROVE Grow
    BY <1>5, <2>2 DEF AdjustInventory
  <2>3. ASSUME NEW p \in Correctable, NEW l \in BOOLEAN, SetListed(p, l) PROVE Grow
    BY <1>5, <2>3 DEF SetListed
  <2> QED  BY <1>10, <2>1, <2>2, <2>3 DEF StoreAdminStep, StoreAdminNext
<1>11. CASE DeliveryStep
  BY <1>4, <1>11, DeliveryMoves DEF unmoved
<1>12. CASE UNCHANGED vars
  BY <1>3, <1>12 DEF vars
<1> QED  BY <1>6, <1>7, <1>8, <1>9, <1>10, <1>11, <1>12 DEF Next

\* The two sets are finite, and so are their sizes.
LEMMA QueueSizes ==
  ASSUME IsFiniteSet(Call), IsFiniteSet(Placed)
  PROVE  /\ IsFiniteSet(Waiting) /\ IsFiniteSet(Busy)
         /\ QueueDepth = Cardinality(Waiting)
         /\ QueueDepth \in Nat /\ Cardinality(Busy) \in Nat /\ Cardinality(Call) \in Nat
         /\ Cardinality(Busy) <= Cardinality(Call)
<1>1. Waiting \in SUBSET Placed /\ Busy \in SUBSET Call
  BY DEF Waiting, Placed, Busy, InQueue
<1>2. IsFiniteSet(Waiting)
  BY <1>1, FS_Subset
<1>3. IsFiniteSet(Busy) /\ Cardinality(Busy) <= Cardinality(Call)
  BY <1>1, FS_Subset
<1> QED  BY <1>2, <1>3, FS_CardinalityType DEF QueueDepth, Waiting

\* A step that lets nobody into the queue and starts no call.
LEMMA QueueShrinks ==
  ASSUME IsFiniteSet(Call), IsFiniteSet(Placed), IsFiniteSet(Placed'), QueueInv,
         Waiting' \subseteq Waiting, Busy' \subseteq Busy,
         widest \in Nat, widest' \in Nat, queueLimit' <= widest', widest <= widest'
  PROVE  QueueInv'
<1>1. Cardinality(Waiting') <= Cardinality(Waiting) /\ Cardinality(Busy') <= Cardinality(Busy)
  BY QueueSizes, FS_Subset
<1>2. /\ QueueDepth = Cardinality(Waiting) /\ QueueDepth' = Cardinality(Waiting')
      /\ Cardinality(Waiting') \in Nat /\ Cardinality(Busy') \in Nat
  <2>1. IsFiniteSet(Waiting') /\ IsFiniteSet(Busy')
    BY QueueSizes, FS_Subset
  <2> QED  BY <2>1, FS_CardinalityType DEF QueueDepth, Waiting
<1> QED  BY <1>1, <1>2, QueueSizes DEF QueueInv

(* The queue limit is read without a lock and may be changed under the     *)
(* orders, and still the queue is longer than the highest limit so far     *)
(* only by calls that had read it together: one less than there are        *)
(* callers.  So long as no failed delivery comes back into the queue,      *)
(* which nothing limits, and however many orders have been placed.         *)
THEOREM QueueOvershoot ==
  IsFiniteSet(Call) => (Spec /\ [][NoReturn]_vars => []QueueOvershootBounded)
<1> SUFFICES ASSUME IsFiniteSet(Call)
             PROVE  Spec /\ [][NoReturn]_vars => []QueueOvershootBounded
  OBVIOUS
<1>1. Init => QueueInv
  <2> SUFFICES ASSUME Init PROVE QueueInv
    OBVIOUS
  <2>1. Waiting = {} /\ Busy = {}
    BY DEF Init, TablesInit, CheckoutInit, Waiting, Busy, InQueue
  <2>2. QueueDepth = 0 /\ Cardinality(Busy) = 0 /\ Cardinality(Call) \in Nat
    BY <2>1, FS_EmptySet, FS_CardinalityType DEF QueueDepth, Waiting
  <2>3. queueLimit = MaxQueue /\ widest = MaxQueue /\ MaxQueue \in Nat \ {0}
    BY RequestsAreWellFormed DEF Init, TablesInit
  <2> QED  BY <2>2, <2>3 DEF QueueInv
<1>2. ASSUME TypeOK, PairInv, IsFiniteSet(Placed), IsFiniteSet(Placed)', QueueInv, [Next]_vars,
             NoReturn \/ UNCHANGED vars
      PROVE  QueueInv'
  <2>0. /\ queueLimit <= widest
        /\ QueueDepth + Cardinality(Busy) <= widest - 1 + Cardinality(Call)
    BY <1>2 DEF QueueInv
  <2>4. /\ widest \in Nat /\ widest' \in Nat /\ queueLimit \in Nat
        /\ queueLimit' <= widest' /\ widest <= widest'
    BY <1>2, <2>0, LimitsGrow
  <2>1. CASE UNCHANGED vars
    <3>1. Waiting' = Waiting /\ Busy' = Busy
      BY <2>1 DEF vars, tableVars, orderVars, checkoutVars, Waiting, Busy
    <3> QED  BY <1>2, <2>4, <3>1, QueueShrinks
  <2>2. CASE NoReturn /\ (PaymentsStep \/ PackingStep \/ RefundsStep \/ StoreAdminStep \/ DeliveryStep)
    <3>1. Busy' = Busy
      BY <2>2
      DEF PaymentsStep, PackingStep, RefundsStep, StoreAdminStep, DeliveryStep, checkoutVars, Busy
    <3>2. Waiting' \subseteq Waiting
      <4> SUFFICES ASSUME NEW o \in Order, status'[o] \in InQueue PROVE status[o] \in InQueue
        BY DEF Waiting
      <4>1. status'[o] = status[o] \/ <<status[o], status'[o]>> \in Path
        BY <1>2, <2>2, StatusPaths DEF Next
      <4>2. status[o] # "absent"
        BY <1>2, <2>2, OnlyCheckoutPlaces DEF InQueue
      <4> QED  BY <2>2, <4>1, <4>2 DEF Path, NoReturn, InQueue
    <3> QED  BY <1>2, <2>4, <3>1, <3>2, QueueShrinks
  <2>3. CASE CheckoutStep
    <3>1. PICK c \in Call : \/ \E o \in Order : BeginCheckout(c, o)
                            \/ PlaceOrder(c)
                            \/ LoseInsertRace(c)
                            \/ AbandonCheckout(c)
      BY <2>3 DEF CheckoutStep, CheckoutNext
    <3>2. CASE \E o \in Order : BeginCheckout(c, o)
      <4>1. UNCHANGED status /\ QueueDepth < queueLimit
        BY <3>2 DEF BeginCheckout, QueueHasRoom, tableVars, orderVars
      <4>2. QueueDepth' = QueueDepth
        BY <4>1 DEF QueueDepth
      <4>3. /\ QueueDepth \in Nat /\ Cardinality(Call) \in Nat
            /\ Cardinality(Busy') \in Nat /\ Cardinality(Busy') <= Cardinality(Call)
        <5>1. Busy' \in SUBSET Call
          BY DEF Busy
        <5>2. IsFiniteSet(Busy') /\ Cardinality(Busy') <= Cardinality(Call)
          BY <5>1, FS_Subset
        <5> QED  BY <1>2, <5>2, QueueSizes, FS_CardinalityType
      <4> QED  BY <2>0, <2>4, <4>1, <4>2, <4>3 DEF QueueInv
    <3>3. CASE PlaceOrder(c)
      <4>1. c \in Busy /\ Busy' = Busy \ {c}
        BY <1>2, <3>3 DEF PlaceOrder, TypeOK, CallersTypeOK, Busy
      <4>2. PICK o \in Order : \A x \in Order \ {o} : status'[x] = status[x]
        BY <1>2, <3>3 DEF PlaceOrder, TypeOK, CallersTypeOK, TablesTypeOK
      <4>3. Waiting' \in SUBSET (Waiting \cup {o})
        BY <4>2 DEF Waiting
      <4>4. /\ IsFiniteSet(Waiting) /\ IsFiniteSet(Busy) /\ QueueDepth = Cardinality(Waiting)
            /\ QueueDepth \in Nat /\ Cardinality(Busy) \in Nat /\ Cardinality(Call) \in Nat
        BY <1>2, QueueSizes
      <4>5. Cardinality(Busy') = Cardinality(Busy) - 1
        BY <4>1, <4>4, FS_RemoveElement
      <4>6. /\ IsFiniteSet(Waiting \cup {o})
            /\ Cardinality(Waiting \cup {o}) <= Cardinality(Waiting) + 1
        <5>1. /\ IsFiniteSet(Waiting \cup {o})
              /\ \/ Cardinality(Waiting \cup {o}) = Cardinality(Waiting)
                 \/ Cardinality(Waiting \cup {o}) = Cardinality(Waiting) + 1
          BY <4>4, FS_AddElement
        <5> QED  BY <4>4, <5>1
      <4>7. IsFiniteSet(Waiting') /\ Cardinality(Waiting') <= Cardinality(Waiting \cup {o})
        BY <4>3, <4>6, FS_Subset
      <4>8. QueueDepth' = Cardinality(Waiting') /\ Cardinality(Waiting') \in Nat
            /\ Cardinality(Waiting \cup {o}) \in Nat
        BY <4>6, <4>7, FS_CardinalityType DEF QueueDepth, Waiting
      <4> QED  BY <2>0, <2>4, <4>4, <4>5, <4>6, <4>7, <4>8 DEF QueueInv
    <3>4. CASE LoseInsertRace(c) \/ AbandonCheckout(c)
      <4>1. Waiting' = Waiting
        BY <3>4 DEF LoseInsertRace, AbandonCheckout, tableVars, orderVars, Waiting
      <4>2. Busy' \subseteq Busy
        BY <1>2, <3>4 DEF LoseInsertRace, AbandonCheckout, Busy, TypeOK, CallersTypeOK
      <4> QED  BY <1>2, <2>4, <4>1, <4>2, QueueShrinks
    <3> QED  BY <3>1, <3>2, <3>3, <3>4
  <2> QED  BY <1>2, <2>1, <2>2, <2>3 DEF Next
<1>3. TypeOK /\ PairInv /\ IsFiniteSet(Placed) /\ IsFiniteSet(Placed)' /\ QueueInv /\ [Next]_vars
        /\ [NoReturn]_vars => QueueInv'
  BY <1>2
<1>4. TypeOK /\ IsFiniteSet(Placed) /\ QueueInv => QueueOvershootBounded
  BY QueueSizes DEF TypeOK, TablesTypeOK, QueueInv, QueueOvershootBounded
<1> QED  BY <1>1, <1>3, <1>4, PairsCorrect, PlacedFinite, PTL DEF Spec

-----------------------------------------------------------------------------
(***************************************************************************)
(* TOTALS.  A quantity summed over orders is a count of units, so the      *)
(* theorems on finite sets say how it moves when one order's share does.   *)
(***************************************************************************)
\* A quantity that only finitely many orders have adds up to a natural.
LEMMA TotalType ==
  ASSUME NEW S, NEW q \in [S -> Nat], NEW T, IsFiniteSet(T), \A x \in S \ T : q[x] = 0
  PROVE  IsFiniteSet(Units(q)) /\ TotalOf(q) \in Nat
<1> DEFINE U(x) == {x} \X (1..q[x])
           A    == S \cap T
           Rows == {U(x) : x \in A}
           f    == [x \in A |-> U(x)]
<1>1. ASSUME NEW x \in S PROVE IsFiniteSet(U(x))
  <2>1. q[x] \in Nat /\ IsFiniteSet({x})
    BY FS_Singleton
  <2>2. IsFiniteSet({x}) /\ IsFiniteSet(1..q[x])
    BY <2>1, FS_Interval
  <2>3. ASSUME NEW X, NEW Y, IsFiniteSet(X), IsFiniteSet(Y) PROVE IsFiniteSet(X \X Y)
    BY <2>3, FS_Product
  <2> QED  BY <2>2, <2>3
<1>2. IsFiniteSet(A)
  BY FS_Intersection
<1>3. IsFiniteSet(Rows)
  <2>1. f \in Surjection(A, Rows)
    BY DEF Surjection
  <2> QED  BY <1>2, <2>1, FS_Surjection
<1>4. \A R \in Rows : IsFiniteSet(R)
  BY <1>1
<1>5. Units(q) = UNION Rows
  <2>1. \A x \in S \ T : U(x) = {}
    OBVIOUS
  <2>2. Units(q) = UNION {U(x) : x \in S}
    BY DEF Units
  <2> QED  BY <2>1, <2>2
<1>6. IsFiniteSet(Units(q))
  BY <1>3, <1>4, <1>5, FS_UNION
<1> QED  BY <1>6, FS_CardinalityType DEF TotalOf

\* The total over some of the orders and over the rest of them.
LEMMA TotalSplits ==
  ASSUME NEW S, NEW q \in [S -> Nat], IsFiniteSet(Units(q)),
         NEW A, NEW B, S = A \cup B, A \cap B = {},
         NEW qa \in [A -> Nat], \A x \in A : qa[x] = q[x],
         NEW qb \in [B -> Nat], \A x \in B : qb[x] = q[x]
  PROVE  /\ IsFiniteSet(Units(qa)) /\ IsFiniteSet(Units(qb))
         /\ TotalOf(qa) \in Nat /\ TotalOf(qb) \in Nat
         /\ TotalOf(q) = TotalOf(qa) + TotalOf(qb)
<1>1. Units(q) = Units(qa) \cup Units(qb)
  BY DEF Units
<1>2. Units(qa) \cap Units(qb) = {}
  BY DEF Units
<1>3. IsFiniteSet(Units(qa)) /\ IsFiniteSet(Units(qb))
  BY <1>1, FS_Subset
<1>4. Cardinality(Units(qa)) \in Nat /\ Cardinality(Units(qb)) \in Nat
  BY <1>3, FS_CardinalityType
<1>5. ASSUME NEW X, NEW Y, IsFiniteSet(X), IsFiniteSet(Y), X \cap Y = {}
      PROVE  Cardinality(X \cup Y) = Cardinality(X) + Cardinality(Y)
  <2>1. Cardinality(X \cap Y) = 0
    BY <1>5, FS_EmptySet
  <2>2. Cardinality(X) \in Nat /\ Cardinality(Y) \in Nat
    BY <1>5, FS_CardinalityType
  <2>3. Cardinality(X \cup Y) = Cardinality(X) + Cardinality(Y) - Cardinality(X \cap Y)
    BY <1>5, FS_Union
  <2> QED  BY <2>1, <2>2, <2>3
<1> QED  BY <1>1, <1>2, <1>3, <1>4, <1>5 DEF TotalOf

\* The total over one order.
LEMMA TotalOfOne ==
  ASSUME NEW x, NEW q \in [{x} -> Nat]
  PROVE  TotalOf(q) = q[x]
<1>1. Units(q) = {x} \X (1..q[x])
  BY DEF Units
<1>2. IsFiniteSet({x}) /\ Cardinality({x}) = 1
  BY FS_Singleton
<1>3. q[x] \in Nat /\ IsFiniteSet(1..q[x]) /\ Cardinality(1..q[x]) = q[x]
  BY FS_Interval
<1>4. ASSUME NEW X, NEW Y, IsFiniteSet(X), IsFiniteSet(Y)
      PROVE  Cardinality(X \X Y) = Cardinality(X) * Cardinality(Y)
  BY <1>4, FS_Product
<1>5. Cardinality({x} \X (1..q[x])) = 1 * q[x]
  BY <1>2, <1>3, <1>4
<1> QED  BY <1>1, <1>3, <1>5 DEF TotalOf

\* The total of a quantity that no order has.
LEMMA TotalOfNone ==
  ASSUME NEW S, NEW q \in [S -> Nat], \A x \in S : q[x] = 0
  PROVE  TotalOf(q) = 0
<1>1. Units(q) = {}
  BY DEF Units
<1> QED  BY <1>1, FS_EmptySet DEF TotalOf

\* One order's share moves, and the total with it.
LEMMA TotalMoves ==
  ASSUME NEW S, NEW q \in [S -> Nat], NEW r \in [S -> Nat], IsFiniteSet(Units(q)),
         NEW x \in S, \A y \in S \ {x} : r[y] = q[y]
  PROVE  /\ TotalOf(q) \in Nat /\ q[x] <= TotalOf(q)
         /\ TotalOf(r) = TotalOf(q) + r[x] - q[x]
<1>0. PICK A, B : A = {x} /\ B = S \ {x}
  OBVIOUS
<1>1. PICK qa \in [A -> Nat], qb \in [B -> Nat], ra \in [A -> Nat] :
        /\ \A y \in A : qa[y] = q[y] /\ ra[y] = r[y]
        /\ \A y \in B : qb[y] = q[y] /\ qb[y] = r[y]
  <2> DEFINE fa == [y \in A |-> q[y]]
             fb == [y \in B |-> q[y]]
             ga == [y \in A |-> r[y]]
  <2>1. fa \in [A -> Nat] /\ fb \in [B -> Nat] /\ ga \in [A -> Nat]
    BY <1>0
  <2>2. /\ \A y \in A : fa[y] = q[y] /\ ga[y] = r[y]
        /\ \A y \in B : fb[y] = q[y] /\ fb[y] = r[y]
    BY <1>0
  <2> HIDE DEF fa, fb, ga
  <2> QED  BY <2>1, <2>2
<1>2. S = A \cup B /\ A \cap B = {}
  BY <1>0
<1>3. /\ TotalOf(qa) \in Nat /\ TotalOf(qb) \in Nat /\ IsFiniteSet(Units(qb))
      /\ TotalOf(q) = TotalOf(qa) + TotalOf(qb)
  BY <1>1, <1>2, TotalSplits
<1>5. TotalOf(qa) = q[x] /\ TotalOf(ra) = r[x] /\ q[x] \in Nat /\ r[x] \in Nat
  BY <1>0, <1>1, TotalOfOne
<1>6. IsFiniteSet(Units(r))
  <2>1. Units(r) = Units(ra) \cup Units(qb)
    BY <1>1, <1>2 DEF Units
  <2>2. IsFiniteSet(Units(ra))
    <3>1. IsFiniteSet(A)
      BY <1>0, FS_Singleton
    <3> QED  BY <3>1, TotalType
  <2>3. IsFiniteSet(Units(ra) \cup Units(qb))
    BY <1>3, <2>2, FS_Union
  <2> QED  BY <2>1, <2>3
<1>7. TotalOf(r) = TotalOf(ra) + TotalOf(qb)
  BY <1>1, <1>2, <1>6, TotalSplits
<1> QED  BY <1>3, <1>5, <1>7

-----------------------------------------------------------------------------
(***************************************************************************)
(* STOCK.  What is reserved and what the waiting orders hold move by the   *)
(* same amount in every transaction but two: a call that loses the INSERT  *)
(* and a cancellation, whose status may be out of date.                    *)
(***************************************************************************)
\* A shortage is part of a confirmed cart, and a packed order is past both.
ShortagesFit ==
  \A o \in Order :
    /\ \A p \in Product : short[o][p] <= Cart[o][p]
    /\ status[o] \in {"absent", "created"} => \A p \in Product : short[o][p] = 0
    /\ packedAt[o] => status[o] \notin {"absent", "created", "confirmed"}

StockReady == TypeOK /\ PairInv /\ ShortagesFit /\ IsFiniteSet(Placed)

\* The steps that write what the shelf accounts are made of.
LEMMA ShelfColumns ==
  ASSUME TypeOK, [Next]_vars
  PROVE  \/ UNCHANGED <<short, packedAt>>
         \/ \E o \in Order : MarkPacked(o)
         \/ \E s \in Shortage : StockOut(s)
<1>1. CASE CheckoutStep
  BY <1>1
  DEF CheckoutStep, CheckoutNext, BeginCheckout, PlaceOrder, LoseInsertRace, AbandonCheckout,
      tableVars, orderVars
<1>2. CASE PaymentsStep
  BY <1>2
  DEF PaymentsStep, PaymentsNext, Webhook, FailPayment, ConfirmPayment, ReconcileLateCapture,
      ReservationTimesOut, Sweep, tableVars, orderVars
<1>3. CASE RefundsStep
  BY <1>3
  DEF RefundsStep, RefundsNext, BeginRefund, RefundPart, RefundAndCancel, DropRefund, tableVars,
      orderVars
<1>4. CASE StoreAdminStep
  BY <1>4
  DEF StoreAdminStep, StoreAdminNext, SetServicePause, AdjustInventory, SetListed, orderVars
<1>5. CASE DeliveryStep
  BY <1>5, DeliveryMoves DEF unmoved
<1>6. CASE PackingStep
  BY <1>6 DEF PackingStep, PackingNext
<1>7. CASE UNCHANGED vars
  BY <1>7 DEF vars, tableVars, orderVars
<1> QED  BY <1>1, <1>2, <1>3, <1>4, <1>5, <1>6, <1>7 DEF Next

\* A shortage is reported once, of units the order has, while it is confirmed.
LEMMA ShortagesAlwaysFit == Spec => []ShortagesFit
<1>1. Init => ShortagesFit
  BY RequestsAreWellFormed DEF Init, TablesInit, ShortagesFit
<1>2. ASSUME TypeOK, TypeOK', PairInv, ShortagesFit, [Next]_vars PROVE ShortagesFit'
  <2>1. TablesTypeOK /\ TablesTypeOK'
    BY <1>2 DEF TypeOK
  <2>2. ASSUME NEW o \in Order
        PROVE  /\ status'[o] \in {"absent", "created"} => status[o] \in {"absent", "created"}
               /\ status[o] \notin {"absent", "created", "confirmed"} =>
                    status'[o] \notin {"absent", "created", "confirmed"}
    BY <1>2, StatusPaths DEF Path
  <2>3. CASE UNCHANGED <<short, packedAt>>
    BY <1>2, <2>2, <2>3 DEF ShortagesFit
  <2>4. ASSUME NEW o \in Order, MarkPacked(o) PROVE ShortagesFit'
    <3>1. /\ UNCHANGED short
          /\ status'[o] = "packed"
          /\ \A x \in Order \ {o} : packedAt'[x] = packedAt[x]
      BY <2>1, <2>4 DEF MarkPacked, TablesTypeOK
    <3> QED  BY <1>2, <2>2, <3>1 DEF ShortagesFit
  <2>5. ASSUME NEW s \in Shortage, StockOut(s) PROVE ShortagesFit'
    <3>1. /\ s.order \in Order /\ s.product \in Product /\ s.available \in Nat
          /\ Missing(s) \in Int
      BY <2>1, ShortageAssumption, ShortageAmounts
    <3>2. /\ short' = [short EXCEPT ![s.order][s.product] = Missing(s)]
          /\ status[s.order] = "confirmed" /\ UNCHANGED <<status, packedAt>>
      BY <2>5 DEF StockOut, ShortageIsValid
    <3>3. Missing(s) <= Cart[s.order][s.product]
      BY <3>1, RequestsAreWellFormed DEF Missing
    <3>4. \A x \in Order, p \in Product :
            short'[x][p] = IF x = s.order /\ p = s.product THEN Missing(s) ELSE short[x][p]
      BY <2>1, <3>1, <3>2 DEF TablesTypeOK
    <3> QED  BY <1>2, <3>2, <3>3, <3>4 DEF ShortagesFit
  <2> QED  BY <1>2, <2>3, <2>4, <2>5, ShelfColumns
<1>3. TypeOK /\ TypeOK' /\ PairInv /\ ShortagesFit /\ [Next]_vars => ShortagesFit'
  BY <1>2
<1> QED  BY <1>1, <1>3, PairsCorrect, TypeCorrect, PTL DEF Spec

\* The facts every step below starts from hold at any moment.
LEMMA AlwaysStockReady == Spec => []StockReady
BY PairsCorrect, ShortagesAlwaysFit, PlacedFinite, PTL DEF StockReady

-----------------------------------------------------------------------------
(***************************************************************************)
(* How what the orders hold of one product moves with one order.           *)
(***************************************************************************)
\* What an order holds or took is a number of units of its cart.
LEMMA HoldsType ==
  ASSUME StockReady, NEW o \in Order, NEW p \in Product
  PROVE  /\ Cart[o][p] \in Nat /\ Fulfilled(o, p) \in Nat /\ Fulfilled(o, p) <= Cart[o][p]
         /\ Holds(o, p) \in Nat /\ TookOff(o, p) \in Nat
         /\ status[o] = "created" => Holds(o, p) = Cart[o][p]
         /\ o \notin Placed => Holds(o, p) = 0 /\ TookOff(o, p) = 0
<1>1. Cart[o][p] \in Nat /\ short[o][p] \in Nat /\ short[o][p] <= Cart[o][p]
  BY RequestsAreWellFormed DEF StockReady, TypeOK, TablesTypeOK, ShortagesFit
<1>2. /\ status[o] = "created" => short[o][p] = 0
      /\ o \notin Placed => status[o] = "absent" /\ ~packedAt[o]
  BY DEF StockReady, ShortagesFit, Placed
<1> QED  BY <1>1, <1>2 DEF Holds, TookOff, Fulfilled

\* What all orders hold, and what all took, are numbers of units.
LEMMA HeldType ==
  ASSUME StockReady, NEW p \in Product
  PROVE  /\ IsFiniteSet(Units([o \in Order |-> Holds(o, p)])) /\ HeldOf(p) \in Nat
         /\ IsFiniteSet(Units([o \in Order |-> TookOff(o, p)])) /\ TakenOf(p) \in Nat
<1> DEFINE q == [o \in Order |-> Holds(o, p)]
           t == [o \in Order |-> TookOff(o, p)]
<1>1. /\ q \in [Order -> Nat] /\ \A o \in Order \ Placed : q[o] = 0
      /\ t \in [Order -> Nat] /\ \A o \in Order \ Placed : t[o] = 0
      /\ IsFiniteSet(Placed)
  BY HoldsType DEF StockReady
<1> HIDE DEF q, t
<1>2. IsFiniteSet(Units(q)) /\ TotalOf(q) \in Nat
  BY <1>1, TotalType
<1>3. IsFiniteSet(Units(t)) /\ TotalOf(t) \in Nat
  BY <1>1, TotalType
<1> QED  BY <1>2, <1>3 DEF q, t, HeldOf, TakenOf

\* The same after the step.
LEMMA HoldsTypeNext ==
  ASSUME StockReady', NEW o \in Order, NEW p \in Product
  PROVE  Holds(o, p)' \in Nat /\ TookOff(o, p)' \in Nat
<1>1. Cart[o][p] \in Nat /\ short'[o][p] \in Nat /\ short'[o][p] <= Cart[o][p]
  BY RequestsAreWellFormed DEF StockReady, TypeOK, TablesTypeOK, ShortagesFit
<1> QED  BY <1>1 DEF Holds, TookOff, Fulfilled

\* One order's hold moves, and the sum with it.
LEMMA HeldMoves ==
  ASSUME StockReady, StockReady', NEW p \in Product, NEW o \in Order,
         \A x \in Order \ {o} : Holds(x, p)' = Holds(x, p)
  PROVE  HeldOf(p)' = HeldOf(p) + Holds(o, p)' - Holds(o, p)
<1> DEFINE q == [x \in Order |-> Holds(x, p)]
           r == [x \in Order |-> Holds(x, p)']
<1>1. /\ q \in [Order -> Nat] /\ r \in [Order -> Nat] /\ IsFiniteSet(Units(q))
      /\ q[o] = Holds(o, p) /\ r[o] = Holds(o, p)'
      /\ \A x \in Order \ {o} : r[x] = q[x]
  BY HoldsType, HoldsTypeNext, HeldType
<1>2. HeldOf(p) = TotalOf(q) /\ HeldOf(p)' = TotalOf(r)
  BY DEF HeldOf
<1> HIDE DEF q, r
<1>3. TotalOf(r) = TotalOf(q) + r[o] - q[o]
  BY <1>1, TotalMoves
<1> QED  BY <1>1, <1>2, <1>3

-----------------------------------------------------------------------------
(***************************************************************************)
(* Each component's steps, seen in the two accounts of one product.        *)
(***************************************************************************)
\* Both move by the same amount; greatest(..., 0) swallows nothing held.
MovesTogether(p, g) ==
  /\ HeldOf(p)' = HeldOf(p) + g
  /\ reserved'[p] = MaxOf(reserved[p] + g, 0)

\* A transaction that writes the status or the shortages of one order.
LEMMA OneOrderHolds ==
  ASSUME StockReady, StockReady', NEW p \in Product, NEW o \in Order, NEW g \in Int,
         \A x \in Order \ {o} : status'[x] = status[x] /\ short'[x] = short[x],
         Holds(o, p)' = Holds(o, p) + g,
         reserved'[p] = MaxOf(reserved[p] + g, 0)
  PROVE  MovesTogether(p, g)
<1>1. \A x \in Order \ {o} : Holds(x, p)' = Holds(x, p)
  BY DEF Holds, Fulfilled
<1>2. HeldOf(p)' = HeldOf(p) + Holds(o, p)' - Holds(o, p)
  BY <1>1, HeldMoves
<1>3. HeldOf(p) \in Nat /\ Holds(o, p) \in Nat
  BY HoldsType, HeldType
<1> QED  BY <1>2, <1>3 DEF MovesTogether

\* A transaction after which every order holds what it held.
LEMMA HoldsStand ==
  ASSUME StockReady, NEW p \in Product, UNCHANGED short,
         \A x \in Order : status'[x] \in {"created", "confirmed"} <=>
                          status[x] \in {"created", "confirmed"}
  PROVE  /\ HeldOf(p)' = HeldOf(p)
         /\ reserved'[p] = reserved[p] => MovesTogether(p, 0)
<1> DEFINE q == [x \in Order |-> Holds(x, p)]
           r == [x \in Order |-> Holds(x, p)']
<1>1. q = r
  BY DEF Holds, Fulfilled
<1>2. HeldOf(p) = TotalOf(q) /\ HeldOf(p)' = TotalOf(r)
  BY DEF HeldOf
<1>3. HeldOf(p)' = HeldOf(p)
  BY <1>1, <1>2
<1>4. HeldOf(p) \in Nat /\ reserved[p] \in Nat
  BY HeldType DEF StockReady, TypeOK, TablesTypeOK
<1> QED  BY <1>3, <1>4 DEF MovesTogether, MaxOf

\* An order is placed with what it reserves; a call that loses the INSERT has
\* reserved for an order that is already there.
LEMMA CheckoutStock ==
  ASSUME StockReady, StockReady', CheckoutStep, NEW p \in Product
  PROVE  \/ \E g \in Int : MovesTogether(p, g)
         \/ \E c \in Call : /\ LoseInsertRace(c)
                            /\ HeldOf(p)' = HeldOf(p) /\ reserved'[p] >= reserved[p]
<1>1. TablesTypeOK /\ CallersTypeOK
  BY DEF StockReady, TypeOK
<1>2. PICK c \in Call : \/ \E o \in Order : BeginCheckout(c, o)
                        \/ PlaceOrder(c)
                        \/ LoseInsertRace(c)
                        \/ AbandonCheckout(c)
  BY DEF CheckoutStep, CheckoutNext
<1>3. CASE PlaceOrder(c)
  <2>1. PICK o \in Order : o = call[c] /\ status[o] = "absent"
    BY <1>1, <1>3 DEF PlaceOrder, CallersTypeOK
  <2>2. /\ status'[o] \in {"created", "confirmed"} /\ UNCHANGED short
        /\ \A x \in Order \ {o} : status'[x] = status[x]
        /\ reserved'[p] = reserved[p] + Cart[o][p]
    BY <1>1, <1>3, <2>1 DEF PlaceOrder, Reserve, TablesTypeOK
  <2>3. short[o][p] = 0 /\ Cart[o][p] \in Nat /\ reserved[p] \in Nat
    BY <1>1, <2>1, RequestsAreWellFormed DEF StockReady, ShortagesFit, TablesTypeOK
  <2>4. Holds(o, p) = 0 /\ Holds(o, p)' = Cart[o][p]
    BY <2>1, <2>2, <2>3 DEF Holds, Fulfilled
  <2>5. /\ Holds(o, p)' = Holds(o, p) + Cart[o][p]
        /\ reserved'[p] = MaxOf(reserved[p] + Cart[o][p], 0)
    BY <2>2, <2>3, <2>4 DEF MaxOf
  <2>6. MovesTogether(p, Cart[o][p])
    BY <2>2, <2>3, <2>5, OneOrderHolds
  <2> QED  BY <2>3, <2>6
<1>4. CASE LoseInsertRace(c)
  <2>1. UNCHANGED <<status, short>> /\ reserved'[p] = reserved[p] + Cart[call[c]][p]
    BY <1>4 DEF LoseInsertRace, Reserve, orderVars
  <2>2. Cart[call[c]][p] \in Nat /\ reserved[p] \in Nat
    BY <1>1, <1>4, RequestsAreWellFormed DEF LoseInsertRace, CallersTypeOK, TablesTypeOK
  <2> QED  BY <1>4, <2>1, <2>2, HoldsStand
<1>5. CASE \/ \E o \in Order : BeginCheckout(c, o)
           \/ AbandonCheckout(c)
  BY <1>5, HoldsStand DEF BeginCheckout, AbandonCheckout, tableVars, orderVars, stockVars
<1> QED  BY <1>2, <1>3, <1>4, <1>5

\* A payment that fails or is given up frees the whole cart of an order that
\* still held it, one order or several in one sweep.
LEMMA SweepStock ==
  ASSUME StockReady, StockReady', NEW S \in SUBSET Order, Sweep(S), NEW p \in Product
  PROVE  \E g \in Int : MovesTogether(p, g)
<1> DEFINE q == [x \in Order |-> Holds(x, p)]
           r == [x \in Order |-> Holds(x, p)']
           cart == [x \in S |-> Cart[x][p]]
           gone == [x \in S |-> 0]
           rest == [x \in Order \ S |-> Holds(x, p)]
<1>1. /\ S \subseteq Stale
      /\ reserved' = [y \in Product |-> reserved[y] - TotalOf([x \in S |-> Cart[x][y]])]
      /\ status' = [x \in Order |-> IF x \in S THEN "payment_failed" ELSE status[x]]
      /\ UNCHANGED short
  BY DEF Sweep
<1>2. \A x \in S : x \in Order /\ Holds(x, p) = Cart[x][p] /\ Holds(x, p)' = 0
  BY <1>1, HoldsType DEF Stale, Holds
<1>3. \A x \in Order \ S : Holds(x, p)' = Holds(x, p)
  BY <1>1 DEF Holds, Fulfilled
<1>4. /\ q \in [Order -> Nat] /\ r \in [Order -> Nat]
      /\ cart \in [S -> Nat] /\ gone \in [S -> Nat] /\ rest \in [Order \ S -> Nat]
      /\ \A x \in S : cart[x] = q[x] /\ gone[x] = r[x] /\ gone[x] = 0
      /\ \A x \in Order \ S : rest[x] = q[x] /\ rest[x] = r[x]
  BY <1>2, <1>3, HoldsType, HoldsTypeNext
<1>5. HeldOf(p) = TotalOf(q) /\ HeldOf(p)' = TotalOf(r) /\ IsFiniteSet(Units(q))
  BY HeldType DEF HeldOf
<1>6. reserved'[p] = reserved[p] - TotalOf(cart)
  BY <1>1
<1>7. IsFiniteSet(Units(r))
  <2>1. IsFiniteSet(Placed) /\ \A x \in Order \ Placed : q[x] = 0
    BY HoldsType DEF StockReady
  <2>2. \A x \in Order \ Placed : r[x] = 0
    BY <1>4, <2>1
  <2> HIDE DEF r
  <2> QED  BY <1>4, <2>1, <2>2, TotalType
<1>8. Order = S \cup (Order \ S) /\ S \cap (Order \ S) = {}
  OBVIOUS
<1> HIDE DEF q, r, cart, gone, rest
<1>9. /\ TotalOf(cart) \in Nat /\ TotalOf(rest) \in Nat
      /\ TotalOf(q) = TotalOf(cart) + TotalOf(rest)
  <2>1. /\ q \in [Order -> Nat] /\ IsFiniteSet(Units(q))
        /\ cart \in [S -> Nat] /\ \A x \in S : cart[x] = q[x]
        /\ rest \in [Order \ S -> Nat] /\ \A x \in Order \ S : rest[x] = q[x]
    BY <1>4, <1>5
  <2> QED  BY <2>1, <1>8, TotalSplits
<1>10. TotalOf(r) = TotalOf(gone) + TotalOf(rest)
  BY <1>4, <1>7, <1>8, TotalSplits
<1>11. TotalOf(gone) = 0
  BY <1>4, TotalOfNone
<1>12. reserved[p] \in Nat /\ reserved'[p] \in Nat
  BY DEF StockReady, TypeOK, TablesTypeOK
<1>13. MovesTogether(p, -TotalOf(cart))
  BY <1>5, <1>6, <1>9, <1>10, <1>11, <1>12 DEF MovesTogether, MaxOf
<1> QED  BY <1>9, <1>13

\* A payment's end moves both by the whole cart of the orders it ends, or not
\* at all.
LEMMA PaymentsStock ==
  ASSUME StockReady, StockReady', PaymentsStep, NEW p \in Product
  PROVE  \E g \in Int : MovesTogether(p, g)
<1>1. TablesTypeOK
  BY DEF StockReady, TypeOK
<1>2. ASSUME UNCHANGED tableVars PROVE MovesTogether(p, 0)
  BY <1>2, HoldsStand DEF tableVars, orderVars, stockVars
<1>3. ASSUME NEW o \in Order, FailPayment(o) PROVE \E g \in Int : MovesTogether(p, g)
  <2>1. /\ status[o] = "created" /\ status'[o] = "payment_failed" /\ UNCHANGED short
        /\ \A x \in Order \ {o} : status'[x] = status[x]
        /\ reserved'[p] = MaxOf(reserved[p] - Cart[o][p], 0)
    BY <1>1, <1>3 DEF FailPayment, ReleaseClamped, TablesTypeOK
  <2>2. Holds(o, p) = Cart[o][p] /\ Cart[o][p] \in Nat /\ Holds(o, p)' = 0
    BY <2>1, HoldsType DEF Holds
  <2>3. /\ -Cart[o][p] \in Int /\ Holds(o, p)' = Holds(o, p) + (-Cart[o][p])
        /\ reserved'[p] = MaxOf(reserved[p] + (-Cart[o][p]), 0)
    BY <1>1, <2>1, <2>2 DEF MaxOf, TablesTypeOK
  <2>4. MovesTogether(p, -Cart[o][p])
    BY <2>1, <2>3, OneOrderHolds
  <2> QED  BY <2>3, <2>4
<1>4. ASSUME NEW o \in Order, ConfirmPayment(o) PROVE MovesTogether(p, 0)
  <2>1. \A x \in Order : status'[x] \in {"created", "confirmed"} <=>
                         status[x] \in {"created", "confirmed"}
    BY <1>1, <1>4 DEF ConfirmPayment, TablesTypeOK
  <2> QED  BY <1>4, <2>1, HoldsStand DEF ConfirmPayment, stockVars
<1>5. ASSUME NEW o \in Order, ReconcileLateCapture(o) PROVE MovesTogether(p, 0)
  BY <1>5, HoldsStand DEF ReconcileLateCapture, orderVars, stockVars
<1>6. ASSUME NEW e \in Event, Webhook(e) PROVE \E g \in Int : MovesTogether(p, g)
  <2>1. e.order \in Order
    BY EventAssumption
  <2> QED  BY <1>2, <1>3, <1>4, <1>5, <1>6, <2>1 DEF Webhook
<1> QED  BY <1>2, <1>6, SweepStock DEF PaymentsStep, PaymentsNext, ReservationTimesOut

\* What is packed or missing is no longer held, nor reserved.
LEMMA PackingStock ==
  ASSUME StockReady, StockReady', PackingStep, NEW p \in Product
  PROVE  \E g \in Int : MovesTogether(p, g)
<1>1. TablesTypeOK
  BY DEF StockReady, TypeOK
<1>2. ASSUME NEW o \in Order, MarkPacked(o) PROVE \E g \in Int : MovesTogether(p, g)
  <2>1. /\ status[o] = "confirmed" /\ status'[o] = "packed" /\ UNCHANGED short
        /\ \A x \in Order \ {o} : status'[x] = status[x]
        /\ reserved'[p] = MaxOf(reserved[p] - Fulfilled(o, p), 0)
    BY <1>1, <1>2 DEF MarkPacked, Consumed, TablesTypeOK
  <2>2. Holds(o, p) = Fulfilled(o, p) /\ Fulfilled(o, p) \in Nat /\ Holds(o, p)' = 0
    BY <2>1, HoldsType DEF Holds
  <2>3. /\ -Fulfilled(o, p) \in Int /\ Holds(o, p)' = Holds(o, p) + (-Fulfilled(o, p))
        /\ reserved'[p] = MaxOf(reserved[p] + (-Fulfilled(o, p)), 0)
    BY <1>1, <2>1, <2>2 DEF MaxOf, TablesTypeOK
  <2>4. MovesTogether(p, -Fulfilled(o, p))
    BY <2>1, <2>3, OneOrderHolds
  <2> QED  BY <2>3, <2>4
<1>3. ASSUME NEW s \in Shortage, StockOut(s) PROVE \E g \in Int : MovesTogether(p, g)
  <2>1. PICK o \in Order : o = s.order
    BY ShortageAssumption
  <2>2. PICK m : m = Missing(s)
    OBVIOUS
  <2>3. s.product \in Product /\ m \in Int
    BY <1>1, <2>2, ShortageAmounts
  <2>4. /\ status[o] = "confirmed" /\ UNCHANGED status
        /\ short[o][s.product] = 0
        /\ short' = [short EXCEPT ![o][s.product] = m]
        /\ reserved' = [reserved EXCEPT ![s.product] = MaxOf(@ - m, 0)]
    BY <1>3, <2>1, <2>2 DEF StockOut, ShortageIsValid, FirstShortage, Frees
  <2>5. \A x \in Order \ {o} : short'[x] = short[x]
    BY <1>1, <2>4 DEF TablesTypeOK
  <2>6. CASE p = s.product
    <3>1. short[o][p] = 0 /\ short'[o][p] = m /\ reserved'[p] = MaxOf(reserved[p] - m, 0)
      BY <1>1, <2>3, <2>4, <2>6 DEF TablesTypeOK
    <3>2. PICK n \in Nat : n = Cart[o][p]
      BY RequestsAreWellFormed
    <3>3. Holds(o, p) = n - 0 /\ Holds(o, p)' = n - m
      BY <2>4, <3>1, <3>2 DEF Holds, Fulfilled
    <3>4. reserved[p] \in Nat
      BY <1>1 DEF TablesTypeOK
    <3>5. /\ -m \in Int /\ Holds(o, p)' = Holds(o, p) + (-m)
          /\ reserved'[p] = MaxOf(reserved[p] + (-m), 0)
      BY <2>3, <3>1, <3>3, <3>4 DEF MaxOf
    <3>6. MovesTogether(p, -m)
      BY <2>4, <2>5, <3>5, OneOrderHolds
    <3> QED  BY <3>5, <3>6
  <2>7. CASE p # s.product
    <3>1. short'[o][p] = short[o][p] /\ reserved'[p] = reserved[p] /\ reserved[p] \in Nat
      BY <1>1, <2>3, <2>4, <2>7 DEF TablesTypeOK
    <3>2. /\ Holds(o, p)' = Holds(o, p) + 0
          /\ reserved'[p] = MaxOf(reserved[p] + 0, 0)
      <4>1. Holds(o, p)' = Holds(o, p) /\ Holds(o, p) \in Nat
        BY <2>4, <3>1, HoldsType DEF Holds, Fulfilled
      <4> QED  BY <3>1, <4>1 DEF MaxOf
    <3>3. MovesTogether(p, 0)
      BY <2>4, <2>5, <3>2, OneOrderHolds
    <3> QED  BY <3>3
  <2> QED  BY <2>6, <2>7
<1> QED  BY <1>2, <1>3 DEF PackingStep, PackingNext

\* A cancelled order stops holding what it held; the reservation falls by the
\* whole cart, or not at all, as the status the call had seen says.
CancelMoves(d, p) ==
  /\ HeldOf(p)' = HeldOf(p) - Holds(desk[d].order, p)
  /\ reserved'[p] = IF desk[d].saw = "confirmed"
                    THEN MaxOf(reserved[p] - Cart[desk[d].order][p], 0)
                    ELSE reserved[p]

LEMMA RefundsStock ==
  ASSUME StockReady, StockReady', RefundsStep, NEW p \in Product
  PROVE  \/ \E g \in Int : MovesTogether(p, g)
         \/ \E d \in Desk : /\ RefundAndCancel(d) /\ desk[d].order \in Order
                            /\ status'[desk[d].order] = "cancelled"
                            /\ CancelMoves(d, p)
<1>1. TablesTypeOK /\ CallersTypeOK
  BY DEF StockReady, TypeOK
<1>2. ASSUME NEW d \in Desk, RefundAndCancel(d)
      PROVE  /\ desk[d].order \in Order /\ status'[desk[d].order] = "cancelled"
             /\ CancelMoves(d, p)
  <2>1. PayBack(d) /\ Commits(desk[d].order)
    BY <1>2 DEF RefundAndCancel
  <2>2. PICK o \in Order : o = desk[d].order
    BY <1>1, <2>1, PayBackTypes
  <2>3. /\ status'[o] = "cancelled" /\ UNCHANGED short
        /\ \A x \in Order \ {o} : status'[x] = status[x]
        /\ reserved'[p] = IF desk[d].saw = "confirmed"
                          THEN MaxOf(reserved[p] - Cart[o][p], 0) ELSE reserved[p]
    BY <1>1, <1>2, <2>2 DEF RefundAndCancel, ReleasesFrom, TablesTypeOK
  <2>4. \A x \in Order \ {o} : Holds(x, p)' = Holds(x, p)
    BY <2>3 DEF Holds, Fulfilled
  <2>5. HeldOf(p)' = HeldOf(p) + Holds(o, p)' - Holds(o, p) /\ Holds(o, p)' = 0
    BY <2>3, <2>4, HeldMoves DEF Holds
  <2>6. HeldOf(p) \in Nat /\ Holds(o, p) \in Nat
    BY HoldsType, HeldType
  <2> QED  BY <2>2, <2>3, <2>5, <2>6 DEF CancelMoves
<1>3. ASSUME UNCHANGED <<status, short, stockVars>> PROVE MovesTogether(p, 0)
  BY <1>3, HoldsStand DEF stockVars
<1>4. ASSUME NEW d \in Desk,
             \/ RefundPart(d)
             \/ DropRefund(d)
             \/ \E k \in RefundKey, o \in Order, a \in PartialAmount \cup {Whole},
                   cancel \in BOOLEAN : BeginRefund(d, k, o, a, cancel)
      PROVE  MovesTogether(p, 0)
  BY <1>3, <1>4 DEF RefundPart, DropRefund, BeginRefund, tableVars, orderVars
<1>5. PICK d \in Desk :
        \/ \E k \in RefundKey, o \in Order, a \in PartialAmount \cup {Whole},
              cancel \in BOOLEAN : BeginRefund(d, k, o, a, cancel)
        \/ RefundPart(d)
        \/ RefundAndCancel(d)
        \/ DropRefund(d)
  BY DEF RefundsStep, RefundsNext
<1>6. CASE RefundAndCancel(d)
  BY <1>2, <1>6
<1>7. CASE ~RefundAndCancel(d)
  BY <1>4, <1>5, <1>7
<1> QED  BY <1>6, <1>7

\* Every step of the core, in the two accounts of one product.
LEMMA StockStep ==
  ASSUME StockReady, StockReady', [Next]_vars, NEW p \in Product
  PROVE  \/ \E g \in Int : MovesTogether(p, g)
         \/ \E c \in Call : /\ LoseInsertRace(c)
                            /\ HeldOf(p)' = HeldOf(p) /\ reserved'[p] >= reserved[p]
         \/ \E d \in Desk : /\ RefundAndCancel(d) /\ desk[d].order \in Order
                            /\ status'[desk[d].order] = "cancelled"
                            /\ CancelMoves(d, p)
<1>1. CASE StoreAdminStep
  <2>1. UNCHANGED <<status, short, reserved>>
    BY <1>1
    DEF StoreAdminStep, StoreAdminNext, SetServicePause, AdjustInventory, SetListed, orderVars
  <2> QED  BY <2>1, HoldsStand
<1>2. CASE DeliveryStep
  <2>1. UNCHANGED <<short, reserved>>
        /\ \A x \in Order : status'[x] \in {"created", "confirmed"} <=>
                            status[x] \in {"created", "confirmed"}
    BY <1>2, DeliveryMoves DEF StockReady, unmoved, stockVars
  <2> QED  BY <2>1, HoldsStand
<1>3. CASE UNCHANGED vars
  BY <1>3, HoldsStand DEF vars, tableVars, orderVars, stockVars
<1> QED
  BY <1>1, <1>2, <1>3, CheckoutStock, PaymentsStock, PackingStock, RefundsStock DEF Next

-----------------------------------------------------------------------------
(***************************************************************************)
(* NO RESERVATION IS LOST.  A cancellation releases the whole cart by the  *)
(* status it had seen, so it may release what the order no longer holds:   *)
(* for an order packed since, or with a shortage, the units go twice.      *)
(* CancelsCleanly excludes exactly these.                                  *)
(***************************************************************************)
CancelsCleanly ==
  \A o \in Order :
    status[o] # "cancelled" /\ status'[o] = "cancelled" /\ reserved' # reserved =>
      status[o] = "confirmed" /\ \A p \in Product : short[o][p] = 0

\* A payment that reads "refunded" has nothing left to pay back.
FullyRepaid == \A o \in Order : pay[o] = "refunded" => refunded[o] = amount[o]

\* Whatever a step pays back, it says so.
LEMMA RepaidInFull == Spec => []FullyRepaid
<1>1. Init => FullyRepaid
  BY DEF Init, TablesInit, FullyRepaid
<1>2. ASSUME TypeOK, FullyRepaid, [Next]_vars PROVE FullyRepaid'
  <2>1. TablesTypeOK /\ CallersTypeOK
    BY <1>2 DEF TypeOK
  <2>2. ASSUME UNCHANGED paymentVars PROVE FullyRepaid'
    BY <1>2, <2>2 DEF FullyRepaid, paymentVars
  <2>3. ASSUME NEW o \in Order, NEW m,
               pay' = [pay EXCEPT ![o] = m], m = "refunded" => refunded'[o] = amount'[o],
               \A x \in Order \ {o} : refunded'[x] = refunded[x] /\ amount'[x] = amount[x]
        PROVE  FullyRepaid'
    BY <1>2, <2>1, <2>3 DEF FullyRepaid, TablesTypeOK
  <2>4. ASSUME NEW c \in Call, PlaceOrder(c) PROVE FullyRepaid'
    <3>1. PICK o \in Order : o = call[c]
      BY <2>1, <2>4 DEF PlaceOrder, CallersTypeOK
    <3>2. PICK m \in {"captured", "pending"} : pay' = [pay EXCEPT ![o] = m]
      BY <2>4, <3>1 DEF PlaceOrder
    <3>3. \A x \in Order \ {o} : refunded'[x] = refunded[x] /\ amount'[x] = amount[x]
      BY <2>1, <2>4, <3>1 DEF PlaceOrder, TablesTypeOK
    <3> QED  BY <2>3, <3>2, <3>3
  <2>5. ASSUME NEW e \in Event, Webhook(e) PROVE FullyRepaid'
    <3>1. PICK o \in Order : o = e.order
      BY EventAssumption
    <3>2. CASE FailPayment(o)
      BY <2>3, <3>2 DEF FailPayment
    <3>3. CASE ConfirmPayment(o)
      BY <2>3, <3>3 DEF ConfirmPayment
    <3>4. CASE ReconcileLateCapture(o)
      <4>1. /\ pay[o] = "failed" /\ UNCHANGED <<pay, amount>>
            /\ \A x \in Order \ {o} : refunded'[x] = refunded[x]
        BY <2>1, <3>4 DEF ReconcileLateCapture, LateCapture, TablesTypeOK
      <4> QED  BY <1>2, <4>1 DEF FullyRepaid
    <3>5. CASE UNCHANGED tableVars
      BY <2>2, <3>5 DEF tableVars
    <3> QED  BY <2>5, <3>1, <3>2, <3>3, <3>4, <3>5 DEF Webhook
  <2>6. ASSUME NEW S \in SUBSET Order, Sweep(S) PROVE FullyRepaid'
    <3>1. /\ pay' = [o \in Order |-> IF o \in S THEN "failed" ELSE pay[o]]
          /\ UNCHANGED <<amount, refunded>>
      BY <2>6 DEF Sweep
    <3> QED  BY <1>2, <3>1 DEF FullyRepaid
  <2>7. ASSUME NEW s \in Shortage, StockOut(s) PROVE FullyRepaid'
    <3>1. PICK o \in Order : o = s.order
      BY ShortageAssumption
    <3>2. PICK share : share = GatewayShare(s)
      OBVIOUS
    <3>3. PICK m : m = AfterShortage(s)
      OBVIOUS
    <3>4. /\ pay' = [pay EXCEPT ![o] = m]
          /\ refunded' = [refunded EXCEPT ![o] = @ + share] /\ UNCHANGED amount
      BY <2>7, <3>1, <3>2, <3>3 DEF StockOut
    <3>5. m = IF share = 0 THEN pay[o]
              ELSE IF refunded[o] + share = amount[o] THEN "refunded" ELSE "partially_refunded"
      BY <3>1, <3>2, <3>3 DEF AfterShortage
    <3>6. refunded'[o] = refunded[o] + share /\ refunded[o] \in Nat /\ amount'[o] = amount[o]
      BY <2>1, <3>4 DEF TablesTypeOK
    <3>7. pay[o] = "refunded" => refunded[o] = amount[o]
      BY <1>2 DEF FullyRepaid
    <3>8. m = "refunded" => refunded'[o] = amount'[o]
      BY <3>5, <3>6, <3>7
    <3>9. \A x \in Order \ {o} : refunded'[x] = refunded[x] /\ amount'[x] = amount[x]
      BY <2>1, <3>4 DEF TablesTypeOK
    <3> QED  BY <2>3, <3>4, <3>8, <3>9
  <2>8. ASSUME NEW d \in Desk, PayBack(d), Commits(desk[d].order), UNCHANGED amount
        PROVE  FullyRepaid'
    <3>1. PICK o \in Order : o = desk[d].order
      BY <2>1, <2>8, PayBackTypes
    <3>2. PICK asked : asked = Asked(desk[d])
      OBVIOUS
    <3>3. PICK m : m = IF asked = amount[o] - refunded[o] THEN "refunded"
                       ELSE "partially_refunded"
      OBVIOUS
    <3>4. /\ pay' = [pay EXCEPT ![o] = m]
          /\ refunded' = [refunded EXCEPT ![o] = @ + asked] /\ UNCHANGED amount
      BY <2>8, <3>1, <3>2, <3>3 DEF PayBack, PaidBackAs, IsFull, Remaining
    <3>5. /\ refunded'[o] = refunded[o] + asked /\ amount'[o] = amount[o]
          /\ refunded[o] \in Nat /\ amount[o] \in Nat
      BY <2>1, <3>4 DEF TablesTypeOK
    <3>6. m = "refunded" => refunded'[o] = amount'[o]
      BY <3>3, <3>5
    <3>7. \A x \in Order \ {o} : refunded'[x] = refunded[x] /\ amount'[x] = amount[x]
      BY <2>1, <3>4 DEF TablesTypeOK
    <3> QED  BY <2>3, <3>4, <3>6, <3>7
  <2>9. CASE CheckoutStep
    BY <2>2, <2>4, <2>9
    DEF CheckoutStep, CheckoutNext, BeginCheckout, LoseInsertRace, AbandonCheckout, tableVars
  <2>10. CASE PaymentsStep
    BY <2>2, <2>5, <2>6, <2>10 DEF PaymentsStep, PaymentsNext, ReservationTimesOut, tableVars
  <2>11. CASE PackingStep
    BY <2>2, <2>7, <2>11 DEF PackingStep, PackingNext, MarkPacked
  <2>12. CASE RefundsStep
    BY <2>2, <2>8, <2>12
    DEF RefundsStep, RefundsNext, BeginRefund, RefundPart, RefundAndCancel, DropRefund, tableVars
  <2>13. CASE StoreAdminStep
    BY <2>2, <2>13
    DEF StoreAdminStep, StoreAdminNext, SetServicePause, AdjustInventory, SetListed
  <2>14. CASE DeliveryStep
    BY <1>2, <2>2, <2>14, DeliveryMoves DEF unmoved
  <2>15. CASE UNCHANGED vars
    BY <2>2, <2>15 DEF vars, tableVars
  <2> QED
    BY <1>2, <2>9, <2>10, <2>11, <2>12, <2>13, <2>14, <2>15 DEF Next
<1>3. TypeOK /\ FullyRepaid /\ [Next]_vars => FullyRepaid'
  BY <1>2
<1> QED  BY <1>1, <1>3, TypeCorrect, PTL DEF Spec

\* An order already cancelled has nothing left that a refund could take.
LEMMA CancelledOnlyOnce ==
  ASSUME TypeOK, PairInv, FullyRepaid, NEW d \in Desk, PayBack(d), desk[d].order \in Order
  PROVE  status[desk[d].order] # "cancelled"
<1>1. PICK o \in Order : o = desk[d].order
  OBVIOUS
<1>2. Asked(desk[d]) > 0 /\ Asked(desk[d]) <= amount[o] - refunded[o]
  BY <1>1 DEF PayBack, RefundIsDue, Remaining
<1>3. desk[d] \in RefundCall
  BY DEF PayBack, RefundIsDue, TypeOK, CallersTypeOK
<1>4. amount[o] \in Nat /\ refunded[o] \in Nat /\ desk[d].amount \in Nat
  BY <1>3 DEF TypeOK, TablesTypeOK, RefundCall
<1>5. Asked(desk[d]) \in Int
  BY <1>1, <1>4 DEF Asked, Remaining
<1>6. refunded[o] # amount[o]
  BY <1>2, <1>4, <1>5
<1> QED  BY <1>1, <1>6 DEF PairInv, FullyRepaid

\* What one order holds or took is part of the sum.
LEMMA OneOfAll ==
  ASSUME StockReady, NEW o \in Order, NEW p \in Product
  PROVE  Holds(o, p) <= HeldOf(p)
<1> DEFINE q == [x \in Order |-> Holds(x, p)]
<1>1. q \in [Order -> Nat] /\ IsFiniteSet(Units(q)) /\ q[o] = Holds(o, p)
  BY HoldsType, HeldType
<1>2. HeldOf(p) = TotalOf(q)
  BY DEF HeldOf
<1> HIDE DEF q
<1>3. q[o] <= TotalOf(q)
  BY <1>1, TotalMoves
<1> QED  BY <1>1, <1>2, <1>3

\* Nothing is held before the first checkout.
LEMMA NothingHeldAtFirst ==
  ASSUME Init, NEW p \in Product
  PROVE  HeldOf(p) = 0 /\ TakenOf(p) = 0 /\ reserved[p] = 0
<1> DEFINE q == [x \in Order |-> Holds(x, p)]
           t == [x \in Order |-> TookOff(x, p)]
<1>1. \A x \in Order : Holds(x, p) = 0 /\ TookOff(x, p) = 0
  BY DEF Init, TablesInit, Holds, TookOff
<1>2. /\ q \in [Order -> Nat] /\ \A x \in Order : q[x] = 0
      /\ t \in [Order -> Nat] /\ \A x \in Order : t[x] = 0
  BY <1>1
<1>3. HeldOf(p) = TotalOf(q) /\ TakenOf(p) = TotalOf(t)
  BY DEF HeldOf, TakenOf
<1> HIDE DEF q, t
<1>4. TotalOf(q) = 0 /\ TotalOf(t) = 0
  BY <1>2, TotalOfNone
<1> QED  BY <1>3, <1>4 DEF Init, TablesInit

\* A step that cancels cleanly keeps every held unit reserved.
LEMMA CoverKept ==
  ASSUME StockReady, StockReady', FullyRepaid, ReservationCoversHeld, [Next]_vars,
         CancelsCleanly \/ UNCHANGED vars
  PROVE  ReservationCoversHeld'
<1> SUFFICES ASSUME NEW p \in Product PROVE reserved'[p] >= HeldOf(p)'
  BY DEF ReservationCoversHeld
<1>1. /\ reserved[p] >= HeldOf(p) /\ HeldOf(p) \in Nat /\ reserved[p] \in Nat
      /\ reserved'[p] \in Nat
  BY HeldType DEF ReservationCoversHeld, StockReady, TypeOK, TablesTypeOK
<1>2. ASSUME NEW g \in Int, MovesTogether(p, g) PROVE reserved'[p] >= HeldOf(p)'
  BY <1>1, <1>2 DEF MovesTogether, MaxOf
<1>3. ASSUME NEW d \in Desk, RefundAndCancel(d), desk[d].order \in Order, CancelsCleanly,
             status'[desk[d].order] = "cancelled", CancelMoves(d, p)
      PROVE  reserved'[p] >= HeldOf(p)'
  <2>1. PICK o \in Order : o = desk[d].order
    BY <1>3
  <2>2. PICK held \in Nat : held = Holds(o, p)
    BY HoldsType
  <2>3. HeldOf(p)' = HeldOf(p) - held /\ held <= HeldOf(p)
    BY <1>3, <2>1, <2>2, OneOfAll DEF CancelMoves
  <2>4. CASE reserved' = reserved
    BY <1>1, <2>3, <2>4
  <2>5. CASE reserved' # reserved
    <3>1. status[o] # "cancelled"
      BY <1>3, <2>1, CancelledOnlyOnce DEF StockReady, RefundAndCancel
    <3>2. status[o] = "confirmed" /\ short[o][p] = 0
      BY <1>3, <2>1, <2>5, <3>1 DEF CancelsCleanly
    <3>3. Cart[o][p] = held
      BY <2>2, <3>2, HoldsType DEF Holds, Fulfilled
    <3>4. reserved'[p] = IF desk[d].saw = "confirmed" THEN MaxOf(reserved[p] - held, 0)
                         ELSE reserved[p]
      BY <1>3, <2>1, <3>3 DEF CancelMoves
    <3> QED  BY <1>1, <2>3, <3>4 DEF MaxOf
  <2> QED  BY <2>4, <2>5
<1>4. CASE UNCHANGED vars
  <2>1. MovesTogether(p, 0)
    BY <1>4, HoldsStand DEF vars, tableVars, orderVars, stockVars
  <2> QED  BY <1>2, <2>1
<1>5. CASE CancelsCleanly
  BY <1>1, <1>2, <1>3, <1>5, StockStep
<1> QED  BY <1>4, <1>5

(* create_order never sells a reserved unit twice: whatever waits for its  *)
(* payment or its packer is covered by qty_reserved, through every race of *)
(* the webhook, the sweep, the packer and duplicate checkouts, so long as  *)
(* a cancellation that releases a cart finds it confirmed and complete.    *)
THEOREM ReservationsCover == Spec /\ [][CancelsCleanly]_vars => []ReservationCoversHeld
<1>1. Init => ReservationCoversHeld
  BY NothingHeldAtFirst DEF ReservationCoversHeld
<1>2. StockReady /\ StockReady' /\ FullyRepaid /\ ReservationCoversHeld /\ [Next]_vars
        /\ [CancelsCleanly]_vars => ReservationCoversHeld'
  BY CoverKept
<1> QED  BY <1>1, <1>2, AlwaysStockReady, RepaidInFull, PTL DEF Spec

-----------------------------------------------------------------------------
(***************************************************************************)
(* NO RESERVATION LEAKS, unless two calls work on one order: the one that  *)
(* loses the INSERT has reserved for nothing.  A call that works alone     *)
(* finds its order still absent; a cancellation that releases nothing had  *)
(* seen an order past "confirmed", where it still is.                      *)
(***************************************************************************)
DistinctKeys == \A c, d \in Call : c # d /\ call[c] # NoOrder => call[c] # call[d]

LeakInv ==
  /\ \A c \in Call : call[c] # NoOrder => status[call[c]] = "absent"
  /\ \A d \in Desk : desk[d] # IdleDesk /\ desk[d].saw \in {"assigned", "delivery_failed"} =>
                       status[desk[d].order] \notin {"absent", "created", "confirmed"}

\* A call under way keeps its order to itself.
LEMMA CallsWorkAlone ==
  ASSUME TypeOK, PairInv, LeakInv, DistinctKeys, [Next]_vars,
         NEW c \in Call, call'[c] # NoOrder
  PROVE  status'[call'[c]] = "absent"
<1>1. TablesTypeOK /\ CallersTypeOK
  BY DEF TypeOK
<1>2. ASSUME call'[c] = call[c], status'[call[c]] = "absent" PROVE status'[call'[c]] = "absent"
  BY <1>2
<1>3. call[c] # NoOrder => status[call[c]] = "absent" /\ call[c] \in Order
  BY <1>1 DEF LeakInv, CallersTypeOK
<1>4. CASE PaymentsStep \/ PackingStep \/ RefundsStep \/ StoreAdminStep \/ DeliveryStep
  <2>1. call'[c] = call[c]
    BY <1>4
    DEF PaymentsStep, PackingStep, RefundsStep, StoreAdminStep, DeliveryStep, checkoutVars
  <2> QED  BY <1>3, <1>4, <2>1, OnlyCheckoutPlaces
<1>5. CASE UNCHANGED vars
  BY <1>3, <1>5 DEF vars, tableVars, orderVars, checkoutVars
<1>6. CASE CheckoutStep
  <2>1. PICK x \in Call : \/ \E o \in Order : BeginCheckout(x, o)
                          \/ PlaceOrder(x)
                          \/ LoseInsertRace(x)
                          \/ AbandonCheckout(x)
    BY <1>6 DEF CheckoutStep, CheckoutNext
  <2>2. ASSUME NEW o \in Order, BeginCheckout(x, o) PROVE status'[call'[c]] = "absent"
    <3>1. UNCHANGED status /\ status[o] = "absent" /\ call' = [call EXCEPT ![x] = o]
      BY <2>2 DEF BeginCheckout, tableVars, orderVars
    <3> QED  BY <1>1, <1>3, <3>1 DEF CallersTypeOK
  <2>3. CASE PlaceOrder(x)
    <3>1. PICK o \in Order : o = call[x]
      BY <1>1, <2>3 DEF PlaceOrder, CallersTypeOK
    <3>2. /\ call' = [call EXCEPT ![x] = NoOrder]
          /\ \A y \in Order \ {o} : status'[y] = status[y]
      BY <1>1, <2>3, <3>1 DEF PlaceOrder, TablesTypeOK
    <3>3. c # x /\ call'[c] = call[c]
      BY <1>1, <3>2 DEF CallersTypeOK
    <3>4. call[c] # o
      BY <3>1, <3>3 DEF DistinctKeys
    <3> QED  BY <1>3, <3>2, <3>3, <3>4
  <2>4. CASE LoseInsertRace(x) \/ AbandonCheckout(x)
    <3>1. UNCHANGED status /\ call' = [call EXCEPT ![x] = NoOrder]
      BY <2>4 DEF LoseInsertRace, AbandonCheckout, tableVars, orderVars
    <3> QED  BY <1>1, <1>3, <3>1 DEF CallersTypeOK
  <2> QED  BY <2>1, <2>2, <2>3, <2>4
<1> QED  BY <1>4, <1>5, <1>6 DEF Next

\* An order past "confirmed" does not come back while a desk works on it.
LEMMA DesksSawTruly ==
  ASSUME TypeOK, PairInv, LeakInv, [Next]_vars,
         NEW d \in Desk, desk'[d] # IdleDesk,
         desk'[d].saw \in {"assigned", "delivery_failed"}
  PROVE  status'[desk'[d].order] \notin {"absent", "created", "confirmed"}
<1>1. TablesTypeOK /\ CallersTypeOK
  BY DEF TypeOK
<1>2. ASSUME NEW o \in Order, status[o] \notin {"absent", "created", "confirmed"}
      PROVE  status'[o] \notin {"absent", "created", "confirmed"}
  BY <1>2, StatusPaths DEF Path
<1>3. ASSUME desk'[d] = desk[d]
      PROVE  status'[desk'[d].order] \notin {"absent", "created", "confirmed"}
  <2>1. desk[d] \in RefundCall
    BY <1>1, <1>3 DEF CallersTypeOK
  <2>2. desk[d].order \in Order
    BY <2>1 DEF RefundCall
  <2>3. status[desk[d].order] \notin {"absent", "created", "confirmed"}
    BY <1>3 DEF LeakInv
  <2> QED  BY <1>2, <1>3, <2>2, <2>3
<1>4. CASE RefundsStep
  <2>1. PICK x \in Desk :
          \/ \E k \in RefundKey, o \in Order, a \in PartialAmount \cup {Whole},
                cancel \in BOOLEAN : BeginRefund(x, k, o, a, cancel)
          \/ RefundPart(x)
          \/ RefundAndCancel(x)
          \/ DropRefund(x)
    BY <1>4 DEF RefundsStep, RefundsNext
  <2>2. ASSUME NEW k \in RefundKey, NEW o \in Order, NEW a \in PartialAmount \cup {Whole},
               NEW cancel \in BOOLEAN, BeginRefund(x, k, o, a, cancel)
        PROVE  status'[desk'[d].order] \notin {"absent", "created", "confirmed"}
    <3>1. /\ desk' = [desk EXCEPT ![x] = [key |-> k, order |-> o, amount |-> a,
                                          saw |-> status[o]]]
          /\ UNCHANGED status
      BY <2>2 DEF BeginRefund, tableVars, orderVars
    <3>2. CASE d = x
      <4>1. desk'[d].order = o /\ desk'[d].saw = status[o]
        BY <1>1, <3>1, <3>2 DEF CallersTypeOK
      <4> QED  BY <3>1, <4>1
    <3>3. CASE d # x
      BY <1>1, <1>3, <3>1, <3>3 DEF CallersTypeOK
    <3> QED  BY <3>2, <3>3
  <2>3. CASE RefundPart(x) \/ RefundAndCancel(x) \/ DropRefund(x)
    <3>1. desk' = [desk EXCEPT ![x] = IdleDesk]
      BY <2>3 DEF RefundPart, RefundAndCancel, DropRefund, PayBack
    <3>2. desk'[d] = desk[d]
      BY <1>1, <3>1 DEF CallersTypeOK
    <3> QED  BY <1>3, <3>2
  <2> QED  BY <2>1, <2>2, <2>3
<1>5. CASE CheckoutStep \/ PaymentsStep \/ PackingStep \/ StoreAdminStep \/ DeliveryStep
           \/ UNCHANGED vars
  BY <1>3, <1>5
  DEF CheckoutStep, PaymentsStep, PackingStep, StoreAdminStep, DeliveryStep, vars, refundsVars
<1> QED  BY <1>4, <1>5 DEF Next

\* A step with distinct keys leaves nothing reserved that no order holds.
LEMMA NoLeak ==
  ASSUME StockReady, StockReady', LeakInv, ReservationIsHeld, [Next]_vars
  PROVE  ReservationIsHeld'
<1> SUFFICES ASSUME NEW p \in Product PROVE reserved'[p] <= HeldOf(p)'
  BY DEF ReservationIsHeld
<1>1. /\ reserved[p] <= HeldOf(p) /\ HeldOf(p) \in Nat /\ reserved[p] \in Nat
      /\ reserved'[p] \in Nat
  BY HeldType DEF ReservationIsHeld, StockReady, TypeOK, TablesTypeOK
<1>2. HeldOf(p)' \in Nat
  <2> DEFINE r == [x \in Order |-> Holds(x, p)']
  <2>1. /\ r \in [Order -> Nat] /\ IsFiniteSet(Placed') /\ \A x \in Order \ Placed' : r[x] = 0
    BY HoldsTypeNext DEF StockReady, Placed, Holds
  <2>2. HeldOf(p)' = TotalOf(r)
    BY DEF HeldOf
  <2> HIDE DEF r
  <2> QED  BY <2>1, <2>2, TotalType
<1>3. ASSUME NEW g \in Int, MovesTogether(p, g) PROVE reserved'[p] <= HeldOf(p)'
  BY <1>1, <1>2, <1>3 DEF MovesTogether, MaxOf
<1>4. ASSUME NEW c \in Call, LoseInsertRace(c) PROVE FALSE
  BY <1>4 DEF LoseInsertRace, LeakInv
<1>5. ASSUME NEW d \in Desk, RefundAndCancel(d), desk[d].order \in Order, CancelMoves(d, p)
      PROVE  reserved'[p] <= HeldOf(p)'
  <2>1. PICK o \in Order : o = desk[d].order
    BY <1>5
  <2>2. PICK held, cart \in Nat : held = Holds(o, p) /\ cart = Cart[o][p] /\ held <= cart
    BY HoldsType DEF Holds
  <2>3. HeldOf(p)' = HeldOf(p) - held
    BY <1>5, <2>1, <2>2 DEF CancelMoves
  <2>4. CASE desk[d].saw = "confirmed"
    <3>1. reserved'[p] = MaxOf(reserved[p] - cart, 0)
      BY <1>5, <2>1, <2>2, <2>4 DEF CancelMoves
    <3> QED  BY <1>1, <1>2, <2>2, <2>3, <3>1 DEF MaxOf
  <2>5. CASE desk[d].saw # "confirmed"
    <3>1. desk[d] # IdleDesk /\ desk[d].saw \in {"assigned", "delivery_failed"}
      BY <1>5, <2>5 DEF RefundAndCancel, CancelsFrom, PayBack, RefundIsDue
    <3>2. held = 0
      BY <2>1, <2>2, <3>1 DEF LeakInv, Holds
    <3>3. reserved'[p] = reserved[p]
      BY <1>5, <2>5 DEF CancelMoves
    <3> QED  BY <1>1, <2>3, <3>2, <3>3
  <2> QED  BY <2>4, <2>5
<1> QED  BY <1>3, <1>4, <1>5, StockStep

(* A finished order leaves nothing unsellable behind: so long as no key is *)
(* being checked out twice at once, every reserved unit is held by an      *)
(* order, whatever the webhook, the sweep, the packer and stale            *)
(* cancellations do.                                                       *)
THEOREM ReservationsDoNotLeak == Spec /\ []DistinctKeys => []ReservationIsHeld
<1>1. Init => LeakInv /\ ReservationIsHeld
  <2>1. Init => LeakInv
    BY DEF Init, CheckoutInit, RefundsInit, LeakInv
  <2>2. Init => ReservationIsHeld
    BY NothingHeldAtFirst DEF ReservationIsHeld
  <2> QED  BY <2>1, <2>2
<1>2. TypeOK /\ PairInv /\ LeakInv /\ DistinctKeys /\ [Next]_vars => LeakInv'
  <2> SUFFICES ASSUME TypeOK, PairInv, LeakInv, DistinctKeys, [Next]_vars PROVE LeakInv'
    OBVIOUS
  <2>1. \A c \in Call : call'[c] # NoOrder => status'[call'[c]] = "absent"
    BY CallsWorkAlone
  <2>2. \A d \in Desk : desk'[d] # IdleDesk /\ desk'[d].saw \in {"assigned", "delivery_failed"} =>
                          status'[desk'[d].order] \notin {"absent", "created", "confirmed"}
    BY DesksSawTruly
  <2> QED  BY <2>1, <2>2 DEF LeakInv
<1>3. StockReady /\ StockReady' /\ LeakInv /\ ReservationIsHeld /\ [Next]_vars
        => ReservationIsHeld'
  BY NoLeak
<1> QED  BY <1>1, <1>2, <1>3, PairsCorrect, AlwaysStockReady, PTL DEF Spec

-----------------------------------------------------------------------------
(***************************************************************************)
(* THE SHELF.  greatest(..., 0) takes nothing away as long as what an      *)
(* order holds is covered by the reservation and that by the shelf.        *)
(***************************************************************************)
ShelfCovers == \A p \in Product : reserved[p] <= onHand[p]

\* Every transaction that commits passes qty_reserved <= qty_on_hand; the call
\* that loses the INSERT has found the units on the shelf.
LEMMA ShelfAlwaysCovers == Spec => []ShelfCovers
<1>1. Init => ShelfCovers
  BY RequestsAreWellFormed DEF Init, TablesInit, ShelfCovers
<1>2. ASSUME TypeOK, ShelfCovers, [Next]_vars PROVE ShelfCovers'
  <2>1. TablesTypeOK /\ CallersTypeOK
    BY <1>2 DEF TypeOK
  <2>2. ASSUME UNCHANGED <<onHand, reserved>> PROVE ShelfCovers'
    BY <1>2, <2>2 DEF ShelfCovers
  <2>3. ASSUME StockChecksHold PROVE ShelfCovers'
    BY <2>3 DEF StockChecksHold, ShelfCovers
  <2>4. ASSUME NEW c \in Call, LoseInsertRace(c) PROVE ShelfCovers'
    <3>1. PICK o \in Order : o = call[c]
      BY <2>1, <2>4 DEF LoseInsertRace, CallersTypeOK
    <3>2. /\ \A p \in Product : onHand[p] - reserved[p] >= Cart[o][p]
          /\ reserved' = [p \in Product |-> reserved[p] + Cart[o][p]]
          /\ onHand' = onHand
      BY <2>4, <3>1 DEF LoseInsertRace, LockedChecksPass, InStock, Reserve
    <3> SUFFICES ASSUME NEW p \in Product PROVE reserved'[p] <= onHand'[p]
      BY DEF ShelfCovers
    <3>3. Cart[o][p] \in Nat /\ onHand[p] \in Nat /\ reserved[p] \in Nat
      BY <2>1, RequestsAreWellFormed DEF TablesTypeOK
    <3> QED  BY <3>2, <3>3
  <2>5. CASE CheckoutStep
    BY <2>2, <2>3, <2>4, <2>5
    DEF CheckoutStep, CheckoutNext, BeginCheckout, PlaceOrder, AbandonCheckout, Commits,
        tableVars, stockVars
  <2>6. CASE PaymentsStep
    <3>1. ASSUME NEW S \in SUBSET Order, Sweep(S) PROVE ShelfCovers'
      <4>1. PICK o \in S : Commits(o)
        BY <3>1 DEF Sweep
      <4> QED  BY <4>1, <2>3 DEF Commits
    <3>2. ASSUME NEW e \in Event, Webhook(e) PROVE ShelfCovers'
      BY <2>2, <2>3, <3>2 DEF Webhook, Commits, tableVars, stockVars
    <3> QED
      BY <2>2, <2>6, <3>1, <3>2
      DEF PaymentsStep, PaymentsNext, ReservationTimesOut, tableVars, stockVars
  <2>7. CASE PackingStep
    BY <2>3, <2>7 DEF PackingStep, PackingNext, MarkPacked, StockOut, Commits
  <2>8. CASE RefundsStep
    BY <2>2, <2>3, <2>8
    DEF RefundsStep, RefundsNext, BeginRefund, RefundPart, RefundAndCancel, DropRefund, Commits,
        tableVars, stockVars
  <2>9. CASE StoreAdminStep
    BY <2>2, <2>3, <2>9
    DEF StoreAdminStep, StoreAdminNext, SetServicePause, AdjustInventory, SetListed
  <2>10. CASE DeliveryStep
    BY <1>2, <2>2, <2>10, DeliveryMoves DEF unmoved, stockVars
  <2>11. CASE UNCHANGED vars
    BY <2>2, <2>11 DEF vars, tableVars, stockVars
  <2> QED  BY <1>2, <2>5, <2>6, <2>7, <2>8, <2>9, <2>10, <2>11 DEF Next
<1>3. TypeOK /\ ShelfCovers /\ [Next]_vars => ShelfCovers'
  BY <1>2
<1> QED  BY <1>1, <1>3, TypeCorrect, PTL DEF Spec

\* Who writes the shelf, its corrections and what packing took from it.
LEMMA ShelfWriters ==
  ASSUME TypeOK, [Next]_vars
  PROVE  \/ UNCHANGED <<onHand, corrected, packedAt, short>>
         \/ \E o \in Order : MarkPacked(o) /\ UNCHANGED corrected
         \/ \E s \in Shortage : StockOut(s) /\ UNCHANGED corrected
         \/ \E p \in Product, n \in Count : AdjustInventory(p, n)
<1>1. CASE CheckoutStep
  BY <1>1
  DEF CheckoutStep, CheckoutNext, BeginCheckout, PlaceOrder, LoseInsertRace, AbandonCheckout,
      tableVars, orderVars, stockVars
<1>2. CASE PaymentsStep
  BY <1>2
  DEF PaymentsStep, PaymentsNext, Webhook, FailPayment, ConfirmPayment, ReconcileLateCapture,
      ReservationTimesOut, Sweep, tableVars, orderVars, stockVars
<1>3. CASE RefundsStep
  BY <1>3
  DEF RefundsStep, RefundsNext, BeginRefund, RefundPart, RefundAndCancel, DropRefund, tableVars,
      orderVars, stockVars
<1>4. CASE StoreAdminStep
  BY <1>4, AdminAssumption
  DEF StoreAdminStep, StoreAdminNext, SetServicePause, SetListed, orderVars
<1>5. CASE DeliveryStep
  BY <1>5, DeliveryMoves DEF DeliveryStep, unmoved, stockVars
<1>6. CASE PackingStep
  BY <1>6 DEF PackingStep, PackingNext
<1>7. CASE UNCHANGED vars
  BY <1>7 DEF vars, tableVars, orderVars, stockVars
<1> QED  BY <1>1, <1>2, <1>3, <1>4, <1>5, <1>6, <1>7 DEF Next

\* One order takes from the shelf, and the sum with it.
LEMMA TakenMoves ==
  ASSUME StockReady, StockReady', NEW p \in Product, NEW o \in Order,
         \A x \in Order \ {o} : TookOff(x, p)' = TookOff(x, p)
  PROVE  TakenOf(p)' = TakenOf(p) + TookOff(o, p)' - TookOff(o, p)
<1> DEFINE q == [x \in Order |-> TookOff(x, p)]
           r == [x \in Order |-> TookOff(x, p)']
<1>1. /\ q \in [Order -> Nat] /\ r \in [Order -> Nat] /\ IsFiniteSet(Units(q))
      /\ q[o] = TookOff(o, p) /\ r[o] = TookOff(o, p)'
      /\ \A x \in Order \ {o} : r[x] = q[x]
  BY HoldsType, HoldsTypeNext, HeldType
<1>2. TakenOf(p) = TotalOf(q) /\ TakenOf(p)' = TotalOf(r)
  BY DEF TakenOf
<1> HIDE DEF q, r
<1>3. TotalOf(r) = TotalOf(q) + r[o] - q[o]
  BY <1>1, TotalMoves
<1> QED  BY <1>1, <1>2, <1>3

\* No order's share of the shelf moves, nor does the sum.
LEMMA TakenStands ==
  ASSUME NEW p \in Product, \A x \in Order : TookOff(x, p)' = TookOff(x, p)
  PROVE  TakenOf(p)' = TakenOf(p)
<1> DEFINE q == [x \in Order |-> TookOff(x, p)]
           r == [x \in Order |-> TookOff(x, p)']
<1>1. q = r
  OBVIOUS
<1>2. TakenOf(p) = TotalOf(q) /\ TakenOf(p)' = TotalOf(r)
  BY DEF TakenOf
<1> QED  BY <1>1, <1>2

\* Packing an order takes from the shelf what the order still held.
LEMMA PackedFromShelf ==
  ASSUME StockReady, StockReady', ReservationCoversHeld, ShelfCovers,
         NEW o \in Order, MarkPacked(o), NEW p \in Product
  PROVE  \E n \in Nat : onHand'[p] = onHand[p] - n /\ TakenOf(p)' = TakenOf(p) + n
<1>1. /\ status[o] = "confirmed" /\ UNCHANGED short
      /\ packedAt' = [packedAt EXCEPT ![o] = TRUE]
      /\ onHand'[p] = MaxOf(onHand[p] - Fulfilled(o, p), 0)
  BY DEF MarkPacked, Consumed
<1>2. PICK n \in Nat : n = Fulfilled(o, p)
  BY HoldsType
<1>3. n = Holds(o, p) /\ TookOff(o, p) = 0
  BY <1>1, <1>2 DEF Holds, TookOff, StockReady, ShortagesFit
<1>4. n <= HeldOf(p) /\ HeldOf(p) \in Nat /\ reserved[p] \in Nat /\ onHand[p] \in Nat
  BY <1>3, OneOfAll, HeldType DEF StockReady, TypeOK, TablesTypeOK
<1>5. HeldOf(p) <= reserved[p] /\ reserved[p] <= onHand[p]
  BY <1>4 DEF ReservationCoversHeld, ShelfCovers
<1>6. onHand'[p] = onHand[p] - n
  BY <1>1, <1>2, <1>4, <1>5 DEF MaxOf
<1>7. /\ TookOff(o, p)' = n
      /\ \A x \in Order \ {o} : TookOff(x, p)' = TookOff(x, p)
  BY <1>1, <1>2 DEF TookOff, Fulfilled, StockReady, TypeOK, TablesTypeOK
<1>8. TakenOf(p)' = TakenOf(p) + TookOff(o, p)' - TookOff(o, p) /\ TakenOf(p) \in Nat
  BY <1>7, TakenMoves, HeldType
<1>9. TakenOf(p)' = TakenOf(p) + n
  BY <1>3, <1>7, <1>8
<1> QED  BY <1>6, <1>9

(* The shelf count is explained: the opening stock, plus the audited       *)
(* corrections, minus what was packed.  With every held unit covered, the  *)
(* clamp at zero of mark_packed never takes effect.                        *)
THEOREM ShelfIsExplained == Spec /\ [][CancelsCleanly]_vars => []ShelfIsAccounted
<1>1. Init => ShelfIsAccounted
  <2> SUFFICES ASSUME Init, NEW p \in Product
               PROVE  onHand[p] = Stock[p] + corrected[p] - TakenOf(p)
    BY DEF ShelfIsAccounted
  <2>1. onHand[p] = Stock[p] /\ corrected[p] = 0 /\ Stock[p] \in Nat
    BY RequestsAreWellFormed DEF Init, TablesInit, StoreAdminInit
  <2> QED  BY <2>1, NothingHeldAtFirst
<1>2. ASSUME StockReady, StockReady', ReservationCoversHeld, ShelfCovers, ShelfIsAccounted,
             [Next]_vars
      PROVE  ShelfIsAccounted'
  <2> SUFFICES ASSUME NEW p \in Product
               PROVE  onHand'[p] = Stock[p] + corrected'[p] - TakenOf(p)'
    BY DEF ShelfIsAccounted
  <2>1. /\ onHand[p] = Stock[p] + corrected[p] - TakenOf(p)
        /\ Stock[p] \in Nat /\ corrected[p] \in Int /\ onHand[p] \in Nat
    BY <1>2, RequestsAreWellFormed
    DEF ShelfIsAccounted, StockReady, TypeOK, TablesTypeOK, CallersTypeOK
  <2>2. TakenOf(p) \in Nat
    BY <1>2, HeldType
  <2>3. CASE UNCHANGED <<onHand, corrected, packedAt, short>>
    <3>1. \A x \in Order : TookOff(x, p)' = TookOff(x, p)
      BY <2>3 DEF TookOff, Fulfilled
    <3> QED  BY <2>1, <2>3, <3>1, TakenStands
  <2>4. ASSUME NEW o \in Order, MarkPacked(o), UNCHANGED corrected
        PROVE  onHand'[p] = Stock[p] + corrected'[p] - TakenOf(p)'
    <3>1. PICK n \in Nat : onHand'[p] = onHand[p] - n /\ TakenOf(p)' = TakenOf(p) + n
      BY <1>2, <2>4, PackedFromShelf
    <3> QED  BY <2>1, <2>2, <2>4, <3>1
  <2>5. ASSUME NEW s \in Shortage, StockOut(s), UNCHANGED corrected
        PROVE  onHand'[p] = Stock[p] + corrected'[p] - TakenOf(p)'
    <3>1. PICK o \in Order : o = s.order
      BY ShortageAssumption
    <3>2. PICK m : short' = [short EXCEPT ![o][s.product] = m]
      BY <2>5, <3>1 DEF StockOut
    <3>3. status[o] = "confirmed" /\ UNCHANGED <<packedAt, onHand>>
      BY <2>5, <3>1 DEF StockOut, ShortageIsValid
    <3>4. ~packedAt[o] /\ \A x \in Order \ {o} : short'[x] = short[x]
      BY <1>2, <3>2, <3>3 DEF StockReady, ShortagesFit, TypeOK, TablesTypeOK
    <3>5. \A x \in Order : TookOff(x, p)' = TookOff(x, p)
      BY <3>3, <3>4 DEF TookOff, Fulfilled
    <3> QED  BY <2>1, <2>5, <3>3, <3>5, TakenStands
  <2>6. ASSUME NEW y \in Product, NEW n \in Count, AdjustInventory(y, n)
        PROVE  onHand'[p] = Stock[p] + corrected'[p] - TakenOf(p)'
    <3>1. /\ onHand' = [onHand EXCEPT ![y] = n]
          /\ corrected' = [corrected EXCEPT ![y] = @ + n - onHand[y]]
          /\ UNCHANGED <<packedAt, short>> /\ n \in Nat
      BY <2>6, AdminAssumption DEF AdjustInventory, orderVars
    <3>2. TakenOf(p)' = TakenOf(p)
      <4>1. \A x \in Order : TookOff(x, p)' = TookOff(x, p)
        BY <3>1 DEF TookOff, Fulfilled
      <4> QED  BY <4>1, TakenStands
    <3>3. \/ onHand'[p] = onHand[p] /\ corrected'[p] = corrected[p]
          \/ onHand'[p] = n /\ corrected'[p] = corrected[p] + n - onHand[p]
      BY <1>2, <3>1 DEF StockReady, TypeOK, TablesTypeOK, CallersTypeOK
    <3> QED  BY <2>1, <2>2, <3>1, <3>2, <3>3
  <2> QED
    BY <1>2, <2>3, <2>4, <2>5, <2>6, ShelfWriters DEF StockReady
<1>3. StockReady /\ StockReady' /\ ReservationCoversHeld /\ ShelfCovers /\ ShelfIsAccounted
        /\ [Next]_vars => ShelfIsAccounted'
  BY <1>2
<1> QED  BY <1>1, <1>3, AlwaysStockReady, ReservationsCover, ShelfAlwaysCovers, PTL DEF Spec

-----------------------------------------------------------------------------
(***************************************************************************)
(* WHAT A CANCELLATION RETURNS.  The payment and the order keep the same   *)
(* sum twice: what the gateway still holds is what the order still costs,  *)
(* less what support paid back.  A stock-out cuts both by the same, since  *)
(* one that takes the last of the payment does not commit.                 *)
(***************************************************************************)
SharesOfOrder(o) ==
  /\ HasCapture(pay[o]) => /\ payable[o] + refunded[o] = amount[o] + repaid[o]
                           /\ refunded[o] <= amount[o]
  /\ pay[o] \in Machine!Paid /\ refunded[o] = amount[o] => repaid[o] = 0
  /\ status[o] # "absent" /\ ~UsesWallet[o] => applied[o] = 0

SharesInv == \A o \in Order : SharesOfOrder(o)

\* An order whose money stands still keeps its shares.
LEMMA SharesStay ==
  ASSUME NEW x \in Order, SharesOfOrder(x), MoneyStandsStill(x),
         status'[x] = "absent" <=> status[x] = "absent"
  PROVE  SharesOfOrder(x)'
BY DEF SharesOfOrder, MoneyStandsStill, HasCapture

\* A transaction that writes one order answers for that order only.
LEMMA OneOrderShares ==
  ASSUME SharesInv, NEW o \in Order, SharesOfOrder(o)',
         \A x \in Order \ {o} : MoneyStandsStill(x) /\ status'[x] = status[x]
  PROVE  SharesInv'
BY SharesStay DEF SharesInv

\* A transaction that writes no money column keeps all shares.
LEMMA NoSharesMove ==
  ASSUME SharesInv, UNCHANGED <<pay, amount, refunded, payable, applied, ledger, repaid>>,
         \A x \in Order : status'[x] = "absent" <=> status[x] = "absent"
  PROVE  SharesInv'
<1>1. \A x \in Order : MoneyStandsStill(x)
  BY DEF MoneyStandsStill
<1> QED  BY <1>1, SharesStay DEF SharesInv

\* A new order owes the gateway what the wallet did not give.
LEMMA CheckoutShares ==
  ASSUME TypeOK, PairInv, MoneyInv, SharesInv, NEW c \in Call, PlaceOrder(c), UNCHANGED repaid
  PROVE  SharesInv'
<1>1. TablesTypeOK /\ CallersTypeOK
  BY DEF TypeOK
<1>2. PICK o \in Order : call[c] = o /\ status[o] = "absent"
  BY <1>1 DEF PlaceOrder, CallersTypeOK
<1>3. PICK due, debit, credit : /\ due = Total(o) - WalletDebit(o) /\ debit = WalletDebit(o)
                                /\ credit = PromoCredit(o)
  OBVIOUS
<1>4. due \in Int /\ (~UsesWallet[o] => debit = 0)
  BY <1>1, <1>3, CheckoutAmounts DEF WalletDebit
<1>5. pay[o] = "pending" /\ refunded[o] = 0 /\ repaid[o] = 0
  BY <1>2 DEF PairInv, MoneyInv, MoneyOfOrder
<1>6. /\ status' = [status EXCEPT ![o] = IF due = 0 THEN "confirmed" ELSE "created"]
      /\ pay' = [pay EXCEPT ![o] = IF due = 0 THEN "captured" ELSE "pending"]
      /\ payable' = [payable EXCEPT ![o] = due]
      /\ amount' = [amount EXCEPT ![o] = due]
      /\ applied' = [applied EXCEPT ![o] = debit]
      /\ ledger' = [ledger EXCEPT ![o] = @ + (credit - debit)]
      /\ UNCHANGED refunded
  BY <1>2, <1>3 DEF PlaceOrder, WalletMoves
<1>7. \A x \in Order \ {o} : MoneyStandsStill(x) /\ status'[x] = status[x]
  BY <1>1, <1>2, <1>6 DEF MoneyStandsStill, TablesTypeOK
<1>8. /\ pay'[o] = IF due = 0 THEN "captured" ELSE "pending"
      /\ payable'[o] = due /\ amount'[o] = due /\ applied'[o] = debit
      /\ refunded'[o] = 0 /\ repaid'[o] = 0
  BY <1>1, <1>2, <1>5, <1>6 DEF TablesTypeOK
<1>9. SharesOfOrder(o)'
  BY <1>4, <1>8 DEF SharesOfOrder, HasCapture, Machine!Paid
<1> QED  BY <1>2, <1>7, <1>9, OneOrderShares

\* Of a capture everything is the price; a payment that fails has no capture.
LEMMA PaymentsShares ==
  ASSUME TypeOK, PairInv, MoneyInv, SharesInv, PaymentsNext, UNCHANGED repaid
  PROVE  SharesInv'
<1>1. TypeOK /\ TablesTypeOK
  BY DEF TypeOK
<1>2. ASSUME NEW e \in Event, Webhook(e) PROVE SharesInv'
  <2>1. PICK o \in Order : o = e.order
    BY EventAssumption
  <2>2. status[o] # "absent" /\ amount[o] > 0
    BY <1>2, <2>1 DEF Webhook
  <2>3. MoneyOfOrder(o) /\ SharesOfOrder(o)
    BY <2>1 DEF MoneyInv, SharesInv
  <2>4. /\ payable[o] \in Nat /\ applied[o] \in Nat /\ amount[o] \in Nat
        /\ refunded[o] \in Nat /\ repaid[o] \in Nat
    BY <2>1, MoneyColumns
  <2>5. CASE FailPayment(o)
    <3>1. /\ status' = [status EXCEPT ![o] = "payment_failed"]
          /\ pay' = [pay EXCEPT ![o] = "failed"]
          /\ ledger' = [ledger EXCEPT ![o] = @ + applied[o]]
          /\ UNCHANGED <<payable, applied, amount, refunded>>
      BY <2>5 DEF FailPayment, WalletMoves, WalletReversal
    <3>2. \A x \in Order \ {o} : MoneyStandsStill(x) /\ status'[x] = status[x]
      BY <1>1, <2>1, <3>1 DEF MoneyStandsStill, TablesTypeOK
    <3>3. pay'[o] = "failed" /\ applied'[o] = applied[o]
      BY <1>1, <2>1, <3>1 DEF TablesTypeOK
    <3>4. SharesOfOrder(o)'
      BY <2>2, <2>3, <3>3 DEF SharesOfOrder, HasCapture, Machine!Paid
    <3> QED  BY <2>1, <3>2, <3>4, OneOrderShares
  <2>6. CASE ConfirmPayment(o)
    <3>1. /\ status' = [status EXCEPT ![o] = "confirmed"]
          /\ pay' = [pay EXCEPT ![o] = "captured"]
          /\ UNCHANGED <<payable, applied, amount, refunded, ledger>>
          /\ pay[o] = "pending"
      BY <2>6 DEF ConfirmPayment, walletVars
    <3>2. \A x \in Order \ {o} : MoneyStandsStill(x) /\ status'[x] = status[x]
      BY <1>1, <2>1, <3>1 DEF MoneyStandsStill, TablesTypeOK
    <3>3. pay'[o] = "captured"
      BY <1>1, <2>1, <3>1 DEF TablesTypeOK
    <3>4. refunded[o] = 0 /\ repaid[o] = 0 /\ amount[o] = payable[o]
      BY <2>2, <2>3, <3>1 DEF MoneyOfOrder
    <3>5. SharesOfOrder(o)'
      BY <2>2, <2>3, <2>4, <3>1, <3>3, <3>4 DEF SharesOfOrder, HasCapture
    <3> QED  BY <2>1, <3>2, <3>5, OneOrderShares
  <2>7. CASE ReconcileLateCapture(o)
    <3>1. /\ refunded' = [refunded EXCEPT ![o] = @ + amount[o]]
          /\ ledger' = [ledger EXCEPT ![o] = @ + amount[o]]
          /\ UNCHANGED <<status, pay, payable, applied, amount>>
          /\ pay[o] = "failed"
      BY <2>7 DEF ReconcileLateCapture, LateCapture, NotYetReconciled, WalletMoves, orderVars
    <3>2. \A x \in Order \ {o} : MoneyStandsStill(x) /\ status'[x] = status[x]
      BY <1>1, <2>1, <3>1 DEF MoneyStandsStill, TablesTypeOK
    <3>3. SharesOfOrder(o)'
      BY <2>3, <3>1 DEF SharesOfOrder, HasCapture, Machine!Paid
    <3> QED  BY <2>1, <3>2, <3>3, OneOrderShares
  <2>8. CASE UNCHANGED tableVars
    BY <2>8, NoSharesMove DEF tableVars, orderVars, paymentVars, walletVars
  <2> QED  BY <1>2, <2>1, <2>5, <2>6, <2>7, <2>8 DEF Webhook
<1>3. ASSUME NEW o \in Order, ReservationTimesOut(o) PROVE SharesInv'
  BY <1>3, NoSharesMove DEF ReservationTimesOut, tableVars, orderVars, paymentVars, walletVars
<1>4. ASSUME NEW S \in SUBSET Order, Sweep(S) PROVE SharesInv'
  <2> SUFFICES ASSUME NEW x \in Order PROVE SharesOfOrder(x)'
    BY DEF SharesInv
  <2>1. SharesOfOrder(x) /\ UNCHANGED <<payable, applied, amount, refunded>>
    BY <1>4 DEF SharesInv, Sweep
  <2>2. CASE x \notin S
    <3>1. status'[x] = status[x] /\ pay'[x] = pay[x] /\ ledger'[x] = ledger[x]
      BY <1>1, <1>4, <2>2 DEF Sweep, TablesTypeOK
    <3> QED  BY <2>1, <3>1, SharesStay DEF MoneyStandsStill
  <2>3. CASE x \in S
    <3>1. status[x] # "absent" /\ pay'[x] = "failed"
      BY <1>4, <2>3 DEF Sweep, Stale
    <3> QED  BY <2>1, <3>1 DEF SharesOfOrder, HasCapture, Machine!Paid
  <2> QED  BY <2>2, <2>3
<1> QED  BY <1>2, <1>3, <1>4 DEF PaymentsNext

\* A stock-out that commits leaves something with the gateway, or found
\* nothing there; either way it cuts the payment and the price alike.
LEMMA StockOutShares ==
  ASSUME TypeOK, TypeOK', PairInv, PairInv', SharesInv, NEW s \in Shortage, StockOut(s),
         UNCHANGED repaid
  PROVE  SharesInv'
<1>1. TablesTypeOK
  BY DEF TypeOK
<1>2. PICK o \in Order : o = s.order
  BY ShortageAssumption
<1>3. PICK value, share, cut, m : /\ value = MissingValue(s) /\ share = GatewayShare(s)
                                  /\ cut = PayableCut(s) /\ m = AfterShortage(s)
  OBVIOUS
<1>4. /\ pay' = [pay EXCEPT ![o] = m]
      /\ refunded' = [refunded EXCEPT ![o] = @ + share]
      /\ ledger' = [ledger EXCEPT ![o] = @ + value]
      /\ payable' = [payable EXCEPT ![o] = @ - cut]
      /\ applied' = [applied EXCEPT ![o] = @ - (value - cut)]
      /\ UNCHANGED <<status, amount>> /\ status[o] = "confirmed"
  BY <1>2, <1>3 DEF StockOut, ShortageIsValid, WalletMoves
<1>5. \A x \in Order \ {o} : MoneyStandsStill(x) /\ status'[x] = status[x]
  BY <1>1, <1>4 DEF MoneyStandsStill, TablesTypeOK
<1>6. /\ payable[o] \in Nat /\ applied[o] \in Nat /\ amount[o] \in Nat
      /\ refunded[o] \in Nat /\ repaid[o] \in Nat
  BY MoneyColumns
<1>7. /\ pay'[o] = m /\ refunded'[o] = refunded[o] + share
      /\ payable'[o] = payable[o] - cut /\ applied'[o] = applied[o] - (value - cut)
      /\ amount'[o] = amount[o] /\ repaid'[o] = repaid[o] /\ applied'[o] \in Nat
  <2>1. applied' \in [Order -> Nat]
    BY DEF TypeOK, TablesTypeOK
  <2> QED  BY <1>1, <1>4, <2>1 DEF TablesTypeOK
<1>8. value \in Nat /\ value \in Int
  <2>1. s.product \in Product /\ Price[s.product] \in Nat /\ Missing(s) \in Int
    BY <1>1, RequestsAreWellFormed, ShortageAssumption, ShortageAmounts
  <2>2. Missing(s) > 0
    BY DEF StockOut, ShortageIsValid
  <2>3. Missing(s) \in Nat
    BY <2>1, <2>2
  <2>4. \A n, k \in Nat : n * k \in Nat
    OBVIOUS
  <2> QED  BY <1>3, <2>1, <2>3, <2>4 DEF MissingValue
<1>9. share = MinOf(value, MaxOf(amount[o] - refunded[o], 0)) /\ cut = MinOf(value, payable[o])
  BY <1>2, <1>3 DEF GatewayShare, PayableCut
<1>10. m = IF share = 0 THEN pay[o]
           ELSE IF refunded[o] + share = amount[o] THEN "refunded" ELSE "partially_refunded"
  BY <1>2, <1>3 DEF AfterShortage
<1>11. pay[o] \in Machine!Paid /\ m \in Machine!Paid
  BY <1>4, <1>7 DEF PairInv, Alive
<1>12. /\ payable[o] + refunded[o] = amount[o] + repaid[o] /\ refunded[o] <= amount[o]
       /\ refunded[o] = amount[o] => repaid[o] = 0
  BY <1>11 DEF SharesInv, SharesOfOrder, HasCapture, Machine!Paid
<1>13. share = 0 \/ refunded[o] + share # amount[o]
  BY <1>10, <1>11 DEF Machine!Paid
<1>14. /\ share \in Nat /\ cut = share /\ refunded[o] + share <= amount[o]
       /\ refunded[o] + share = amount[o] => repaid[o] = 0
  <2>1. CASE refunded[o] = amount[o]
    <3>1. share = 0 /\ payable[o] = 0
      BY <1>6, <1>8, <1>9, <1>12, <2>1 DEF MinOf, MaxOf
    <3> QED  BY <1>6, <1>8, <1>9, <1>12, <2>1, <3>1 DEF MinOf
  <2>2. CASE refunded[o] < amount[o]
    <3>1. share = IF value <= amount[o] - refunded[o] THEN value ELSE amount[o] - refunded[o]
      BY <1>6, <1>8, <1>9, <2>2 DEF MinOf, MaxOf
    <3>2. share = value /\ value <= amount[o] - refunded[o] /\ refunded[o] + share # amount[o]
      BY <1>6, <1>8, <1>13, <2>2, <3>1
    <3>3. value <= payable[o]
      BY <1>6, <1>8, <1>12, <3>2
    <3>4. cut = value
      BY <1>6, <1>8, <1>9, <3>3 DEF MinOf
    <3> QED  BY <1>6, <1>8, <3>2, <3>4
  <2> QED  BY <1>6, <1>12, <2>1, <2>2
<1>15. ~UsesWallet[o] => applied'[o] = 0
  <2>1. cut \in Int /\ cut <= value
    BY <1>6, <1>8, <1>9 DEF MinOf
  <2>2. ~UsesWallet[o] => applied[o] = 0
    BY <1>4 DEF SharesInv, SharesOfOrder
  <2> QED  BY <1>7, <1>8, <2>1, <2>2
<1>16. SharesOfOrder(o)'
  <2>1. /\ payable'[o] + refunded'[o] = amount'[o] + repaid'[o] /\ refunded'[o] <= amount'[o]
        /\ refunded'[o] = amount'[o] => repaid'[o] = 0
    BY <1>6, <1>7, <1>12, <1>14
  <2> QED  BY <1>15, <2>1 DEF SharesOfOrder
<1> QED  BY <1>5, <1>16, OneOrderShares

\* A refund is taken from the payment and booked as paid back.
LEMMA PayBackShares ==
  ASSUME TypeOK, PairInv, SharesInv, NEW d \in Desk, PayBack(d), Commits(desk[d].order),
         UNCHANGED <<payable, applied, amount>>,
         \/ UNCHANGED status
         \/ status' = [status EXCEPT ![desk[d].order] = "cancelled"]
  PROVE  SharesInv'
<1>1. TablesTypeOK /\ CallersTypeOK
  BY DEF TypeOK
<1>2. PICK o \in Order : o = desk[d].order
  BY <1>1, PayBackTypes
<1>3. PICK asked, m : asked = Asked(desk[d]) /\ m = PaidBackAs(desk[d])
  OBVIOUS
<1>4. /\ pay' = [pay EXCEPT ![o] = m]
      /\ refunded' = [refunded EXCEPT ![o] = @ + asked]
      /\ ledger' = [ledger EXCEPT ![o] = @ + asked]
      /\ repaid' = [repaid EXCEPT ![o] = @ + asked]
      /\ HasCapture(pay[o]) /\ asked > 0 /\ asked <= amount[o] - refunded[o]
      /\ m = IF asked = amount[o] - refunded[o] THEN "refunded" ELSE "partially_refunded"
  BY <1>2, <1>3 DEF PayBack, WalletMoves, RefundIsDue, PaidBackAs, IsFull, Remaining
<1>5. /\ payable[o] \in Nat /\ applied[o] \in Nat /\ amount[o] \in Nat
      /\ refunded[o] \in Nat /\ repaid[o] \in Nat
  BY MoneyColumns
<1>6. asked \in Int
  <2>1. desk[d] \in RefundCall
    BY <1>1 DEF PayBack, RefundIsDue, CallersTypeOK
  <2> QED  BY <1>1, <1>2, <1>3, <2>1 DEF Asked, Remaining, RefundCall, TablesTypeOK
<1>7. status[o] # "absent"
  BY <1>4 DEF PairInv, HasCapture
<1>8. \A x \in Order \ {o} : MoneyStandsStill(x) /\ status'[x] = status[x]
  BY <1>1, <1>2, <1>4 DEF MoneyStandsStill, TablesTypeOK, CallersTypeOK
<1>9. /\ pay'[o] = m /\ refunded'[o] = refunded[o] + asked /\ repaid'[o] = repaid[o] + asked
      /\ payable'[o] = payable[o] /\ applied'[o] = applied[o] /\ amount'[o] = amount[o]
  BY <1>1, <1>2, <1>4 DEF TablesTypeOK, CallersTypeOK
<1>10. SharesOfOrder(o)
  BY DEF SharesInv
<1>11. payable[o] + refunded[o] = amount[o] + repaid[o]
  BY <1>4, <1>10 DEF SharesOfOrder
<1>12. /\ payable'[o] + refunded'[o] = amount'[o] + repaid'[o] /\ refunded'[o] <= amount'[o]
       /\ m \in Machine!Paid => refunded'[o] # amount'[o]
  BY <1>4, <1>5, <1>6, <1>9, <1>11 DEF Machine!Paid
<1>13. ~UsesWallet[o] => applied'[o] = 0
  BY <1>7, <1>9, <1>10 DEF SharesOfOrder
<1>14. SharesOfOrder(o)'
  BY <1>9, <1>12, <1>13 DEF SharesOfOrder
<1> QED  BY <1>8, <1>14, OneOrderShares

LEMMA SharesCorrect == Spec => []SharesInv
<1>1. Init => SharesInv
  BY DEF Init, TablesInit, RefundsInit, SharesInv, SharesOfOrder, HasCapture, Machine!Paid
<1>2. ASSUME TypeOK, TypeOK', PairInv, PairInv', MoneyInv, SharesInv, [Next]_vars
      PROVE  SharesInv'
  <2>1. CASE CheckoutStep
    <3>1. ASSUME NEW c \in Call, PlaceOrder(c) PROVE SharesInv'
      BY <1>2, <2>1, <3>1, CheckoutShares DEF CheckoutStep, refundsVars
    <3> QED
      BY <1>2, <2>1, <3>1, NoSharesMove
      DEF CheckoutStep, CheckoutNext, BeginCheckout, LoseInsertRace, AbandonCheckout, tableVars,
          orderVars, paymentVars, walletVars, refundsVars
  <2>2. CASE PaymentsStep
    BY <1>2, <2>2, PaymentsShares DEF PaymentsStep, refundsVars
  <2>3. CASE PackingStep
    <3>1. ASSUME NEW o \in Order, MarkPacked(o) PROVE SharesInv'
      BY <1>2, <2>3, <3>1, NoSharesMove
      DEF PackingStep, MarkPacked, TypeOK, TablesTypeOK, paymentVars, walletVars, refundsVars
    <3>2. ASSUME NEW s \in Shortage, StockOut(s) PROVE SharesInv'
      BY <1>2, <2>3, <3>2, StockOutShares DEF PackingStep, refundsVars
    <3> QED  BY <2>3, <3>1, <3>2 DEF PackingStep, PackingNext
  <2>4. CASE RefundsStep
    <3>1. ASSUME NEW d \in Desk, RefundPart(d) \/ RefundAndCancel(d) PROVE SharesInv'
      BY <1>2, <3>1, PayBackShares DEF RefundPart, RefundAndCancel
    <3>2. ASSUME UNCHANGED <<tableVars, repaid>> PROVE SharesInv'
      BY <1>2, <3>2, NoSharesMove DEF tableVars, orderVars, paymentVars, walletVars
    <3> QED  BY <2>4, <3>1, <3>2 DEF RefundsStep, RefundsNext, DropRefund, BeginRefund
  <2>5. CASE StoreAdminStep
    BY <1>2, <2>5, NoSharesMove
    DEF StoreAdminStep, StoreAdminNext, SetServicePause, AdjustInventory, SetListed, orderVars,
        paymentVars, walletVars, refundsVars
  <2>6. CASE DeliveryStep
    BY <1>2, <2>6, DeliveryMoves, NoSharesMove
    DEF DeliveryStep, refundsVars, unmoved, paymentVars, walletVars
  <2>7. CASE UNCHANGED vars
    BY <1>2, <2>7, NoSharesMove
    DEF vars, tableVars, orderVars, paymentVars, walletVars, refundsVars
  <2> QED  BY <1>2, <2>1, <2>2, <2>3, <2>4, <2>5, <2>6, <2>7 DEF Next
<1>3. /\ TypeOK /\ TypeOK' /\ PairInv /\ PairInv' /\ MoneyInv /\ SharesInv /\ [Next]_vars
      => SharesInv'
  BY <1>2
<1> QED  BY <1>1, <1>3, PairsCorrect, AccountsCorrect, PTL DEF Spec

\* A cancelled order has cost its customer what the wallet had paid and the
\* stock-outs have not returned, no more and no less.
CancelledCostsTheWalletShare ==
  \A o \in Order : status[o] = "cancelled" => Outlay(o) = applied[o]

\* How much a cancellation returns, after any partial refunds, stock-outs and
\* retries: all of what the gateway took, and of the wallet's share nothing,
\* although the corrections promise both.
THEOREM CancellationsReturnTheCapture == Spec => []CancelledCostsTheWalletShare
<1>1. TypeOK /\ PairInv /\ MoneyInv /\ SharesInv /\ FullyRepaid => CancelledCostsTheWalletShare
  <2> SUFFICES ASSUME TypeOK, PairInv, MoneyInv, SharesInv, FullyRepaid,
                      NEW o \in Order, status[o] = "cancelled"
               PROVE  Outlay(o) = applied[o]
    BY DEF CancelledCostsTheWalletShare
  <2>1. pay[o] = "refunded" /\ refunded[o] = amount[o]
    BY DEF PairInv, FullyRepaid
  <2>2. payable[o] + refunded[o] = amount[o] + repaid[o]
    BY <2>1 DEF SharesInv, SharesOfOrder, HasCapture
  <2>3. Outlay(o) = payable[o] + applied[o] - repaid[o]
    BY <2>1 DEF MoneyInv, MoneyOfOrder
  <2>4. /\ payable[o] \in Nat /\ applied[o] \in Nat /\ amount[o] \in Nat
        /\ refunded[o] \in Nat /\ repaid[o] \in Nat
    BY MoneyColumns
  <2> QED  BY <2>1, <2>2, <2>3, <2>4
<1> QED  BY <1>1, PairsCorrect, AccountsCorrect, SharesCorrect, RepaidInFull, PTL

\* Where no customer pays from the wallet the promise is kept.
THEOREM WithoutWalletsNothingIsLost ==
  (\A o \in Order : ~UsesWallet[o]) => (Spec => []CancelledOrdersCostNothing)
<1> SUFFICES ASSUME \A o \in Order : ~UsesWallet[o] PROVE Spec => []CancelledOrdersCostNothing
  OBVIOUS
<1>1. SharesInv /\ CancelledCostsTheWalletShare => CancelledOrdersCostNothing
  BY DEF SharesInv, SharesOfOrder, CancelledCostsTheWalletShare, CancelledOrdersCostNothing
<1> QED  BY <1>1, SharesCorrect, CancellationsReturnTheCapture, PTL
=============================================================================
