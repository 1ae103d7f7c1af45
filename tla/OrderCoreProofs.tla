--------------------------- MODULE OrderCoreProofs ---------------------------
(***************************************************************************)
(* What holds of the order core for any number of orders, products,        *)
(* runners, calls and events.                                              *)
(***************************************************************************)
EXTENDS OrderCore, FiniteSetTheorems, TLAPS

-----------------------------------------------------------------------------
(***************************************************************************)
(* Arithmetic of the operations.                                           *)
(***************************************************************************)
\* The smaller and the larger of two amounts are amounts.
LEMMA MinMaxInt ==
  ASSUME NEW a \in Int, NEW b \in Int
  PROVE  /\ MinOf(a, b) \in Int /\ MinOf(a, b) <= a /\ MinOf(a, b) <= b
         /\ MaxOf(a, b) \in Int /\ MaxOf(a, b) >= a /\ MaxOf(a, b) >= b
         /\ a \in Nat /\ b \in Nat => MinOf(a, b) \in Nat
BY DEF MinOf, MaxOf

\* What checkout computes for an order is a whole number of rupees.
LEMMA CheckoutAmounts ==
  ASSUME TablesTypeOK, NEW o \in Order
  PROVE  Total(o) \in Int /\ WalletDebit(o) \in Int /\ PromoCredit(o) \in Nat
<1>1. Total(o) \in Int
  BY RequestsAreWellFormed, SubtotalsAreNatural DEF Total
<1>2. WalletDebit(o) \in Int
  BY <1>1, RequestsAreWellFormed, MinMaxInt DEF WalletDebit, TablesTypeOK
<1>3. PromoCredit(o) \in Nat
  BY CheckoutAssumption DEF PromoCredit
<1> QED  BY <1>1, <1>2, <1>3

\* What a stock-out computes is a whole number of units and rupees.
LEMMA ShortageAmounts ==
  ASSUME TablesTypeOK, NEW s \in Shortage
  PROVE  /\ s.order \in Order /\ s.product \in Product
         /\ Missing(s) \in Int /\ MissingValue(s) \in Int
         /\ GatewayShare(s) \in Int /\ PayableCut(s) \in Int
<1>1. s.order \in Order /\ s.product \in Product /\ s.available \in Nat
  BY ShortageAssumption
<1>2. Missing(s) \in Int
  BY <1>1, RequestsAreWellFormed DEF Missing
<1>3. Price[s.product] \in Int
  BY <1>1, RequestsAreWellFormed
<1>4. MissingValue(s) \in Int
  BY <1>2, <1>3 DEF MissingValue
<1>5. GatewayShare(s) \in Int
  BY <1>1, <1>4 DEF GatewayShare, MinOf, MaxOf, TablesTypeOK
<1>6. PayableCut(s) \in Int
  BY <1>1, <1>4 DEF PayableCut, MinOf, TablesTypeOK
<1> QED  BY <1>1, <1>2, <1>4, <1>5, <1>6

\* A wallet movement that commits keeps both columns in their domain.
LEMMA WalletMovesType ==
  ASSUME TablesTypeOK, NEW o \in Order, NEW delta \in Int, WalletMoves(o, delta),
         WalletChecksHold
  PROVE  wallet' \in [Customer -> Nat] /\ ledger' \in [Order -> Int]
<1>1. wallet \in [Customer -> Nat] /\ ledger \in [Order -> Int]
  BY DEF TablesTypeOK
<1>2. wallet' = [wallet EXCEPT ![Owner[o]] = @ + delta] /\ \A c \in Customer : wallet'[c] \in Nat
  BY DEF WalletMoves, WalletChecksHold
<1>3. ledger' = [ledger EXCEPT ![o] = @ + delta]
  BY DEF WalletMoves
<1>4. wallet' \in [Customer -> Nat]
  BY <1>1, <1>2
<1>5. ledger' \in [Order -> Int]
  BY <1>1, <1>3
<1> QED  BY <1>4, <1>5

-----------------------------------------------------------------------------
(***************************************************************************)
(* TYPE CORRECTNESS.  A step that leaves variables alone keeps their type; *)
(* the steps of each component keep the types of all.                      *)
(***************************************************************************)
\* The tables keep their types in a step that does not write them.
LEMMA TablesTypeUnchanged ==
  ASSUME TablesTypeOK, UNCHANGED tableVars
  PROVE  TablesTypeOK'
BY DEF TablesTypeOK, tableVars, orderVars, paymentVars, stockVars, storeVars, walletVars

\* The callers' records keep their types in a step that does not write them.
LEMMA CallersTypeUnchanged ==
  ASSUME CallersTypeOK, UNCHANGED <<checkoutVars, paymentsVars, refundsVars, corrected>>
  PROVE  CallersTypeOK'
BY DEF CallersTypeOK, checkoutVars, paymentsVars, refundsVars

\* The delivery tables keep their types in a step that does not write them.
LEMMA DeliveryTypeUnchanged ==
  ASSUME DeliveryTypeOK, UNCHANGED deliveryVars
  PROVE  DeliveryTypeOK'
BY DEF DeliveryTypeOK, deliveryVars

\* An order that is placed gets typed columns.
LEMMA PlaceOrderTypes ==
  ASSUME TablesTypeOK, CallersTypeOK, NEW c \in Call, PlaceOrder(c)
  PROVE  /\ TablesTypeOK'
         /\ call' \in [Call -> Order \cup {NoOrder}]
         /\ uses' \in [Promo -> Nat]
         /\ redeemed' \subseteq Order
<1> DEFINE o   == call[c]
           due == Total(o) - WalletDebit(o)
<1>1. o \in Order /\ o # NoOrder
  BY DEF PlaceOrder, CallersTypeOK
<1>2. RowChecksHold(o) /\ StockChecksHold /\ WalletChecksHold
  BY DEF PlaceOrder, Commits
<1>3. /\ WalletDebit(o) \in Int /\ PromoCredit(o) \in Nat
      /\ PromoCredit(o) - WalletDebit(o) \in Int
  BY <1>1, CheckoutAmounts
<1>4. wallet' \in [Customer -> Nat] /\ ledger' \in [Order -> Int]
  BY <1>1, <1>2, <1>3, WalletMovesType DEF PlaceOrder
<1>5. /\ status' \in [Order -> OrderStatus \cup {"absent"}]
      /\ pay' \in [Order -> PaymentStatus]
  BY <1>1 DEF PlaceOrder, TablesTypeOK, OrderStatus, PaymentStatus
<1>6. paymentStatus' \in [Order -> PaymentStatus]
  BY <1>1, <1>5 DEF PlaceOrder, TablesTypeOK
<1>7. payable' \in [Order -> Nat] /\ amount' \in [Order -> Nat]
  <2>1. payable' = [payable EXCEPT ![o] = due] /\ amount' = [amount EXCEPT ![o] = due]
    BY DEF PlaceOrder
  <2>2. payable \in [Order -> Nat] /\ amount \in [Order -> Nat] /\ payable'[o] \in Nat
    BY <1>2 DEF TablesTypeOK, RowChecksHold
  <2> QED  BY <1>1, <2>1, <2>2
<1>8. applied' \in [Order -> Nat]
  <2>1. applied' = [applied EXCEPT ![o] = WalletDebit(o)]
    BY DEF PlaceOrder
  <2>2. applied \in [Order -> Nat] /\ applied'[o] \in Nat
    BY <1>2 DEF TablesTypeOK, RowChecksHold
  <2> QED  BY <1>1, <2>1, <2>2
<1>9. reserved' \in [Product -> Nat]
  BY <1>2 DEF PlaceOrder, Reserve, StockChecksHold
<1>10. TablesTypeOK'
  BY <1>4, <1>5, <1>6, <1>7, <1>8, <1>9 DEF storeVars, PlaceOrder, TablesTypeOK
<1>11. call' \in [Call -> Order \cup {NoOrder}]
  BY DEF PlaceOrder, CallersTypeOK
<1>12. uses' \in [Promo -> Nat] /\ redeemed' \subseteq Order
  BY <1>1 DEF PlaceOrder, Redeem, CallersTypeOK
<1> QED  BY <1>10, <1>11, <1>12

\* The steps of create_order keep the types.
LEMMA CheckoutTypes ==
  ASSUME TypeOK, CheckoutStep
  PROVE  TypeOK'
<1>1. TablesTypeOK /\ CallersTypeOK /\ DeliveryTypeOK
  BY DEF TypeOK
<1>2. UNCHANGED <<paymentsVars, refundsVars, corrected, deliveryVars>>
  BY DEF CheckoutStep
<1>3. DeliveryTypeOK'
  BY <1>1, <1>2, DeliveryTypeUnchanged
<1>4. PICK c \in Call : \/ \E o \in Order : BeginCheckout(c, o)
                        \/ PlaceOrder(c)
                        \/ LoseInsertRace(c)
                        \/ AbandonCheckout(c)
  BY DEF CheckoutStep, CheckoutNext
<1>5. ASSUME /\ TablesTypeOK'
             /\ call' \in [Call -> Order \cup {NoOrder}]
             /\ uses' \in [Promo -> Nat] /\ redeemed' \subseteq Order
      PROVE  TypeOK'
  BY <1>1, <1>2, <1>3, <1>5 DEF TypeOK, CallersTypeOK, paymentsVars, refundsVars
<1>6. ASSUME NEW o \in Order, BeginCheckout(c, o) PROVE TypeOK'
  <2>1. TablesTypeOK'
    BY <1>1, <1>6, TablesTypeUnchanged DEF BeginCheckout
  <2> QED  BY <1>1, <1>5, <1>6, <2>1 DEF BeginCheckout, CallersTypeOK
<1>7. CASE PlaceOrder(c)
  BY <1>1, <1>5, <1>7, PlaceOrderTypes
<1>8. CASE LoseInsertRace(c)
  <2>1. call[c] \in Order
    BY <1>1, <1>8 DEF LoseInsertRace, CallersTypeOK
  <2>2. reserved' \in [Product -> Nat]
    BY <1>1, <1>8, <2>1, RequestsAreWellFormed DEF LoseInsertRace, Reserve, TablesTypeOK
  <2>3. TablesTypeOK'
    BY <1>1, <1>8, <2>2
    DEF storeVars, LoseInsertRace, TablesTypeOK, orderVars, paymentVars, walletVars
  <2> QED  BY <1>1, <1>5, <1>8, <2>3 DEF LoseInsertRace, CallersTypeOK
<1>9. CASE AbandonCheckout(c)
  <2>1. TablesTypeOK'
    BY <1>1, <1>9, TablesTypeUnchanged DEF AbandonCheckout
  <2> QED  BY <1>1, <1>5, <1>9, <2>1 DEF AbandonCheckout, CallersTypeOK
<1> QED  BY <1>4, <1>6, <1>7, <1>8, <1>9

\* The steps that end the wait for a payment keep the types.
LEMMA PaymentsTypes ==
  ASSUME TypeOK, PaymentsStep
  PROVE  TypeOK'
<1>1. TablesTypeOK /\ CallersTypeOK /\ DeliveryTypeOK
  BY DEF TypeOK
<1>2. UNCHANGED <<checkoutVars, refundsVars, corrected, deliveryVars>>
  BY DEF PaymentsStep
<1>3. DeliveryTypeOK'
  BY <1>1, <1>2, DeliveryTypeUnchanged
<1>4. ASSUME TablesTypeOK', seen' \subseteq Event, overdue' \subseteq Order
      PROVE  TypeOK'
  BY <1>1, <1>2, <1>3, <1>4 DEF TypeOK, CallersTypeOK, checkoutVars, refundsVars
<1>5. ASSUME NEW e \in Event, Webhook(e) PROVE TypeOK'
  <2> DEFINE o == e.order
  <2>1. o \in Order
    BY EventAssumption
  <2>2. seen' \subseteq Event /\ overdue' \subseteq Order
    BY <1>1, <1>5 DEF Webhook, CallersTypeOK
  <2>3. CASE FailPayment(o) /\ Commits(o)
    <3>1. wallet' \in [Customer -> Nat] /\ ledger' \in [Order -> Int]
      <4>1. WalletReversal(o) \in Int
        BY <1>1, <2>1 DEF WalletReversal, TablesTypeOK
      <4> QED  BY <1>1, <2>1, <2>3, <4>1, WalletMovesType DEF FailPayment, Commits
    <3>2. reserved' \in [Product -> Nat]
      BY <2>3 DEF FailPayment, ReleaseClamped, Commits, StockChecksHold
    <3>3. TablesTypeOK'
      BY <1>1, <2>1, <2>3, <3>1, <3>2
      DEF storeVars, FailPayment, TablesTypeOK, OrderStatus, PaymentStatus
    <3> QED  BY <1>4, <2>2, <3>3
  <2>4. CASE ConfirmPayment(o)
    <3>1. TablesTypeOK'
      BY <1>1, <2>1, <2>4
      DEF ConfirmPayment, TablesTypeOK, OrderStatus, PaymentStatus, stockVars, storeVars, walletVars
    <3> QED  BY <1>4, <2>2, <3>1
  <2>5. CASE ReconcileLateCapture(o) /\ Commits(o)
    <3>1. wallet' \in [Customer -> Nat] /\ ledger' \in [Order -> Int]
      <4>1. amount[o] \in Int
        BY <1>1, <2>1 DEF TablesTypeOK
      <4> QED  BY <1>1, <2>1, <2>5, <4>1, WalletMovesType DEF ReconcileLateCapture, Commits
    <3>2. refunded' \in [Order -> Nat]
      BY <1>1, <2>1, <2>5 DEF ReconcileLateCapture, TablesTypeOK
    <3>3. TablesTypeOK'
      BY <1>1, <2>5, <3>1, <3>2
      DEF ReconcileLateCapture, TablesTypeOK, orderVars, stockVars, storeVars
    <3> QED  BY <1>4, <2>2, <3>3
  <2>6. CASE UNCHANGED tableVars
    BY <1>1, <1>4, <2>2, <2>6, TablesTypeUnchanged
  <2> QED  BY <1>5, <2>3, <2>4, <2>5, <2>6 DEF Webhook
<1>6. ASSUME NEW o \in Order, ReservationTimesOut(o) PROVE TypeOK'
  <2>1. TablesTypeOK'
    BY <1>1, <1>6, TablesTypeUnchanged DEF ReservationTimesOut
  <2> QED  BY <1>1, <1>4, <1>6, <2>1 DEF ReservationTimesOut, CallersTypeOK
<1>7. ASSUME NEW S \in SUBSET Order, Sweep(S) PROVE TypeOK'
  <2>1. PICK o \in S : Commits(o)
    BY <1>7 DEF Sweep
  <2>2. reserved' \in [Product -> Nat] /\ wallet' \in [Customer -> Nat]
    BY <1>7, <2>1 DEF Sweep, Commits, StockChecksHold, WalletChecksHold
  <2>3. ledger' \in [Order -> Int]
    BY <1>1, <1>7 DEF Sweep, SweepReversal, TablesTypeOK
  <2>4. /\ status' \in [Order -> OrderStatus \cup {"absent"}]
        /\ pay' \in [Order -> PaymentStatus]
    BY <1>1, <1>7 DEF Sweep, TablesTypeOK, OrderStatus, PaymentStatus
  <2>5. TablesTypeOK'
    BY <1>1, <1>7, <2>2, <2>3, <2>4 DEF storeVars, Sweep, TablesTypeOK
  <2> QED  BY <1>1, <1>4, <1>7, <2>5 DEF Sweep, CallersTypeOK, paymentsVars
<1> QED  BY <1>5, <1>6, <1>7 DEF PaymentsStep, PaymentsNext

\* Packing and stock-outs keep the types.
LEMMA PackingTypes ==
  ASSUME TypeOK, PackingStep
  PROVE  TypeOK'
<1>1. TablesTypeOK /\ CallersTypeOK /\ DeliveryTypeOK
  BY DEF TypeOK
<1>2. CallersTypeOK' /\ DeliveryTypeOK'
  BY <1>1, CallersTypeUnchanged, DeliveryTypeUnchanged DEF PackingStep
<1>3. ASSUME NEW o \in Order, MarkPacked(o) PROVE TablesTypeOK'
  <2>1. reserved' \in [Product -> Nat] /\ onHand' \in [Product -> Nat]
    <3>1. ASSUME NEW p \in Product PROVE Consumed(o, p) \in Int
      BY <1>1, RequestsAreWellFormed DEF Consumed, Fulfilled, TablesTypeOK
    <3>2. ASSUME NEW p \in Product
          PROVE  /\ MaxOf(reserved[p] - Consumed(o, p), 0) \in Nat
                 /\ MaxOf(onHand[p] - Consumed(o, p), 0) \in Nat
      BY <1>1, <3>1 DEF MaxOf, TablesTypeOK
    <3> QED  BY <1>3, <3>2 DEF MarkPacked
  <2> QED  BY <1>1, <1>3, <2>1
           DEF storeVars, MarkPacked, TablesTypeOK, OrderStatus, paymentVars, walletVars
<1>4. ASSUME NEW s \in Shortage, StockOut(s) PROVE TablesTypeOK'
  <2> DEFINE o == s.order
  <2>1. /\ o \in Order /\ s.product \in Product
        /\ Missing(s) \in Int /\ MissingValue(s) \in Int
        /\ GatewayShare(s) \in Int /\ PayableCut(s) \in Int
    BY <1>1, ShortageAmounts
  <2>2. Missing(s) \in Nat
    BY <1>4, <2>1 DEF StockOut, ShortageIsValid
  <2>3. RowChecksHold(o) /\ WalletChecksHold
    BY <1>4 DEF StockOut, Commits
  <2>4. wallet' \in [Customer -> Nat] /\ ledger' \in [Order -> Int]
    BY <1>1, <1>4, <2>1, <2>3, WalletMovesType DEF StockOut
  <2>5. refunded' \in [Order -> Nat]
    <3>1. /\ refunded' = [refunded EXCEPT ![o] = @ + GatewayShare(s)]
          /\ refunded \in [Order -> Nat] /\ refunded'[o] \in Nat
      BY <1>1, <1>4, <2>3 DEF StockOut, TablesTypeOK, RowChecksHold
    <3> QED  BY <2>1, <3>1
  <2>6. payable' \in [Order -> Nat]
    <3>1. /\ payable' = [payable EXCEPT ![o] = @ - PayableCut(s)]
          /\ payable \in [Order -> Nat] /\ payable'[o] \in Nat
      BY <1>1, <1>4, <2>3 DEF StockOut, TablesTypeOK, RowChecksHold
    <3> QED  BY <2>1, <3>1
  <2>7. applied' \in [Order -> Nat]
    <3>1. /\ applied' = [applied EXCEPT ![o] = @ - (MissingValue(s) - PayableCut(s))]
          /\ applied \in [Order -> Nat] /\ applied'[o] \in Nat
      BY <1>1, <1>4, <2>3 DEF StockOut, TablesTypeOK, RowChecksHold
    <3> QED  BY <2>1, <3>1
  <2>8. reserved' \in [Product -> Nat]
    <3>1. Frees(s) \in Int
      BY <2>1 DEF Frees
    <3> QED  BY <1>1, <1>4, <2>1, <3>1 DEF StockOut, MaxOf, TablesTypeOK
  <2>9. pay' \in [Order -> PaymentStatus] /\ paymentStatus' \in [Order -> PaymentStatus]
    <3>1. AfterShortage(s) \in PaymentStatus
      BY <1>1, <2>1 DEF AfterShortage, TablesTypeOK, PaymentStatus
    <3> QED  BY <1>1, <1>4, <2>1, <3>1 DEF StockOut, TablesTypeOK
  <2>10. listed' \in [Product -> BOOLEAN] /\ short' \in [Order -> [Product -> Nat]]
    <3>1. s.delist \in BOOLEAN
      BY ShortageAssumption
    <3>2. listed' = [listed EXCEPT ![s.product] = listed[s.product] /\ ~s.delist]
      BY <1>4 DEF StockOut
    <3>3. listed' \in [Product -> BOOLEAN]
      BY <1>1, <2>1, <3>1, <3>2 DEF TablesTypeOK
    <3>4. short' \in [Order -> [Product -> Nat]]
      BY <1>1, <1>4, <2>1, <2>2 DEF StockOut, TablesTypeOK
    <3> QED  BY <3>3, <3>4
  <2> QED  BY <1>1, <1>4, <2>4, <2>5, <2>6, <2>7, <2>8, <2>9, <2>10
           DEF storeVars, StockOut, TablesTypeOK
<1> QED  BY <1>2, <1>3, <1>4 DEF PackingStep, PackingNext, TypeOK

\* What the two refund outcomes share keeps the types it writes.
LEMMA PayBackTypes ==
  ASSUME TablesTypeOK, CallersTypeOK, NEW d \in Desk, PayBack(d), Commits(desk[d].order)
  PROVE  /\ desk[d] \in RefundCall /\ desk[d].order \in Order
         /\ desk' \in [Desk -> RefundCall \cup {IdleDesk}]
         /\ usedKeys' \subseteq RefundKey /\ repaid' \in [Order -> Nat]
         /\ wallet' \in [Customer -> Nat] /\ ledger' \in [Order -> Int]
         /\ refunded' \in [Order -> Nat] /\ pay' \in [Order -> PaymentStatus]
<1> DEFINE r == desk[d]
           o == r.order
<1>1. r \in RefundCall /\ r.key \in RefundKey /\ o \in Order /\ r.amount \in Nat
  <2>1. r \in RefundCall
    BY DEF PayBack, RefundIsDue, CallersTypeOK
  <2> QED  BY <2>1 DEF RefundCall
<1>2. Asked(r) \in Nat
  <2>1. Asked(r) \in Int /\ Asked(r) > 0
    BY <1>1 DEF PayBack, RefundIsDue, Asked, Remaining, TablesTypeOK
  <2> QED  BY <2>1
<1>3. wallet' \in [Customer -> Nat] /\ ledger' \in [Order -> Int]
  <2>1. WalletMoves(o, Asked(r)) /\ WalletChecksHold
    BY DEF PayBack, Commits
  <2> QED  BY <1>1, <1>2, <2>1, WalletMovesType
<1>4. refunded' \in [Order -> Nat] /\ repaid' \in [Order -> Nat]
  BY <1>1, <1>2 DEF PayBack, TablesTypeOK, CallersTypeOK
<1>5. pay' \in [Order -> PaymentStatus]
  <2>1. PaidBackAs(r) \in PaymentStatus
    BY DEF PaidBackAs, PaymentStatus
  <2> QED  BY <1>1, <2>1 DEF PayBack, TablesTypeOK
<1>6. desk' \in [Desk -> RefundCall \cup {IdleDesk}] /\ usedKeys' \subseteq RefundKey
  BY <1>1 DEF PayBack, CallersTypeOK
<1> QED  BY <1>1, <1>3, <1>4, <1>5, <1>6

\* Refunds and cancellations keep the types.
LEMMA RefundsTypes ==
  ASSUME TypeOK, RefundsStep
  PROVE  TypeOK'
<1>1. TablesTypeOK /\ CallersTypeOK /\ DeliveryTypeOK
  BY DEF TypeOK
<1>2. UNCHANGED <<checkoutVars, paymentsVars, corrected, deliveryVars>>
  BY DEF RefundsStep
<1>3. DeliveryTypeOK'
  BY <1>1, <1>2, DeliveryTypeUnchanged
<1>4. ASSUME /\ TablesTypeOK'
             /\ desk' \in [Desk -> RefundCall \cup {IdleDesk}]
             /\ usedKeys' \subseteq RefundKey /\ repaid' \in [Order -> Nat]
      PROVE  TypeOK'
  BY <1>1, <1>2, <1>3, <1>4 DEF TypeOK, CallersTypeOK, checkoutVars, paymentsVars
<1>5. ASSUME NEW d \in Desk, NEW k \in RefundKey, NEW o \in Order,
             NEW a \in PartialAmount \cup {Whole}, NEW cancel \in BOOLEAN,
             BeginRefund(d, k, o, a, cancel)
      PROVE  TypeOK'
  <2>1. TablesTypeOK'
    BY <1>1, <1>5, TablesTypeUnchanged DEF BeginRefund
  <2>2. [key |-> k, order |-> o, amount |-> a, saw |-> status[o]] \in RefundCall
    <3>1. a \in Nat
      BY RefundAssumption DEF Whole
    <3>2. status[o] \in OrderStatus
      BY <1>1, <1>5 DEF BeginRefund, TablesTypeOK
    <3> QED  BY <3>1, <3>2 DEF RefundCall
  <2> QED  BY <1>1, <1>4, <1>5, <2>1, <2>2 DEF BeginRefund, CallersTypeOK
<1>6. ASSUME NEW d \in Desk, RefundPart(d) PROVE TypeOK'
  <2>1. PayBack(d) /\ Commits(desk[d].order)
    BY <1>6 DEF RefundPart
  <2>2. TablesTypeOK'
    BY <1>1, <1>6, <2>1, PayBackTypes
    DEF RefundPart, TablesTypeOK, PaymentStatus, stockVars, storeVars
  <2> QED  BY <1>1, <1>4, <2>1, <2>2, PayBackTypes
<1>7. ASSUME NEW d \in Desk, RefundAndCancel(d) PROVE TypeOK'
  <2> DEFINE o == desk[d].order
  <2>1. PayBack(d) /\ Commits(o)
    BY <1>7 DEF RefundAndCancel
  <2>2. o \in Order
    BY <1>1, <2>1, PayBackTypes
  <2>3. reserved' \in [Product -> Nat]
    <3>1. \A p \in Product : MaxOf(reserved[p] - Cart[o][p], 0) \in Nat
      BY <1>1, <2>2, RequestsAreWellFormed DEF MaxOf, TablesTypeOK
    <3> QED  BY <1>1, <1>7, <3>1 DEF RefundAndCancel, TablesTypeOK
  <2>4. /\ status' \in [Order -> OrderStatus \cup {"absent"}]
        /\ paymentStatus' \in [Order -> PaymentStatus]
    BY <1>1, <1>7, <2>2 DEF RefundAndCancel, TablesTypeOK, OrderStatus, PaymentStatus
  <2>5. TablesTypeOK'
    BY <1>1, <1>7, <2>1, <2>3, <2>4, PayBackTypes DEF storeVars, RefundAndCancel, TablesTypeOK
  <2> QED  BY <1>1, <1>4, <2>1, <2>5, PayBackTypes
<1>8. ASSUME NEW d \in Desk, DropRefund(d) PROVE TypeOK'
  <2>1. TablesTypeOK'
    BY <1>1, <1>8, TablesTypeUnchanged DEF DropRefund
  <2> QED  BY <1>1, <1>4, <1>8, <2>1 DEF DropRefund, CallersTypeOK
<1> QED  BY <1>5, <1>6, <1>7, <1>8 DEF RefundsStep, RefundsNext

\* An administrator's changes keep the types.
LEMMA StoreAdminTypes ==
  ASSUME TypeOK, StoreAdminStep
  PROVE  TypeOK'
<1>1. TablesTypeOK /\ CallersTypeOK /\ DeliveryTypeOK
  BY DEF TypeOK
<1>2. UNCHANGED <<checkoutVars, paymentsVars, refundsVars, deliveryVars>>
  BY DEF StoreAdminStep
<1>3. DeliveryTypeOK'
  BY <1>1, <1>2, DeliveryTypeUnchanged
<1>4. ASSUME TablesTypeOK', corrected' \in [Product -> Int] PROVE TypeOK'
  BY <1>1, <1>2, <1>3, <1>4 DEF TypeOK, CallersTypeOK, checkoutVars, paymentsVars, refundsVars
<1>5. ASSUME NEW open \in OpenFlag, NEW limit \in QueueLimit \cup {queueLimit},
             SetServicePause(open, limit)
      PROVE  TypeOK'
  <2>1. /\ open \in BOOLEAN
        /\ limit \in Nat \ {0} /\ widest \in Nat \ {0}
    BY <1>1, <1>5, AdminAssumption DEF SetServicePause, TablesTypeOK
  <2>2. queueLimit' \in Nat \ {0} /\ widest' \in Nat \ {0}
    BY <1>5, <2>1 DEF SetServicePause, MaxOf
  <2>3. TablesTypeOK'
    BY <1>1, <1>5, <2>1, <2>2
    DEF SetServicePause, TablesTypeOK, orderVars, paymentVars, walletVars
  <2> QED  BY <1>1, <1>4, <1>5, <2>3 DEF SetServicePause, CallersTypeOK
<1>6. ASSUME NEW p \in Correctable, NEW n \in Count, AdjustInventory(p, n) PROVE TypeOK'
  <2>1. p \in Product /\ n \in Nat
    BY AdminAssumption
  <2>2. onHand' \in [Product -> Nat] /\ corrected' \in [Product -> Int]
    BY <1>1, <1>6, <2>1 DEF AdjustInventory, TablesTypeOK, CallersTypeOK
  <2>3. TablesTypeOK'
    BY <1>1, <1>6, <2>2
    DEF storeVars, AdjustInventory, TablesTypeOK, orderVars, paymentVars, walletVars
  <2> QED  BY <1>4, <2>2, <2>3
<1>7. ASSUME NEW p \in Correctable, NEW l \in BOOLEAN, SetListed(p, l) PROVE TypeOK'
  <2>1. TablesTypeOK'
    BY <1>1, <1>7, AdminAssumption
    DEF storeVars, SetListed, TablesTypeOK, orderVars, paymentVars, walletVars
  <2> QED  BY <1>1, <1>4, <1>7, <2>1 DEF SetListed, CallersTypeOK
<1> QED  BY <1>5, <1>6, <1>7 DEF StoreAdminStep, StoreAdminNext

\* A delivery step that writes only orders.status and orders.runner_id.
LEMMA MovedTypes ==
  ASSUME TablesTypeOK, UNCHANGED unmoved, NEW o \in Order,
         NEW t \in OrderStatus, status' = [status EXCEPT ![o] = t],
         NEW r \in Runner \cup {NoRunner},
         runner' = runner \/ runner' = [runner EXCEPT ![o] = r]
  PROVE  TablesTypeOK'
<1>1. /\ status' \in [Order -> OrderStatus \cup {"absent"}]
      /\ runner' \in [Order -> Runner \cup {NoRunner}]
  BY DEF TablesTypeOK
<1> QED  BY <1>1 DEF TablesTypeOK, unmoved, paymentVars, stockVars, storeVars, walletVars

\* Assigning an order keeps the types of the tables and of the code.
LEMMA AssignToTypes ==
  ASSUME TablesTypeOK, DeliveryTypeOK, NEW o \in Order, NEW r \in Runner, AssignTo(r, o)
  PROVE  /\ TablesTypeOK'
         /\ code' \in [Order -> Code \cup {NoCode}]
         /\ hash' \in [Order -> Code \cup {NoCode}]
<1>1. "assigned" \in OrderStatus
  BY DEF OrderStatus
<1>2. TablesTypeOK'
  BY <1>1, MovedTypes DEF AssignTo
<1>3. /\ code' \in [Order -> Code \cup {NoCode}]
      /\ hash' \in [Order -> Code \cup {NoCode}]
  BY DEF AssignTo, MintCode, DeliveryTypeOK
<1> QED  BY <1>2, <1>3

\* The runner's and the administrator's delivery steps keep the types.
LEMMA DeliveryTypes ==
  ASSUME TypeOK, DeliveryStep
  PROVE  TypeOK'
<1>1. TablesTypeOK /\ CallersTypeOK /\ DeliveryTypeOK
  BY DEF TypeOK
<1>2. CallersTypeOK'
  BY <1>1, CallersTypeUnchanged DEF DeliveryStep
<1>3. SUFFICES TablesTypeOK' /\ DeliveryTypeOK'
  BY <1>2 DEF TypeOK
<1>4. ASSUME NEW r \in Runner, GoOnline(r) \/ GoOffline(r)
      PROVE  TablesTypeOK' /\ DeliveryTypeOK'
  BY <1>1, <1>4, TablesTypeUnchanged DEF GoOnline, GoOffline, DeliveryTypeOK
<1>5. ASSUME NEW k \in Claim, NEW r \in Runner, NEW o \in Order, BeginClaim(k, r, o)
      PROVE  TablesTypeOK' /\ DeliveryTypeOK'
  BY <1>1, <1>5, TablesTypeUnchanged DEF BeginClaim, DeliveryTypeOK
<1>6. ASSUME NEW k \in Claim, FinishClaim(k)
      PROVE  TablesTypeOK' /\ DeliveryTypeOK'
  <2> DEFINE r == claim[k][1]
             o == claim[k][2]
  <2>1. r \in Runner /\ o \in Order
    BY <1>1, <1>6 DEF FinishClaim, DeliveryTypeOK
  <2>2. AssignTo(r, o)
    BY <1>6 DEF FinishClaim
  <2>3. /\ claim' \in [Claim -> (Runner \X Order) \cup {NoClaim}]
        /\ actor' \in [Order -> Runner \cup {NoRunner, Admin}]
    BY <1>1, <1>6, <2>1 DEF FinishClaim, DeliveryTypeOK
  <2> QED  BY <1>1, <2>1, <2>2, <2>3, AssignToTypes DEF AssignTo, DeliveryTypeOK
<1>7. ASSUME NEW k \in Claim, LoseClaim(k)
      PROVE  TablesTypeOK' /\ DeliveryTypeOK'
  BY <1>1, <1>7, TablesTypeUnchanged DEF LoseClaim, DeliveryTypeOK
<1>8. ASSUME NEW a \in Runner \cup {Admin}, NEW o \in Order, MarkPickedUp(a, o)
      PROVE  TablesTypeOK' /\ DeliveryTypeOK'
  <2>1. TablesTypeOK'
    BY <1>1, <1>8, MovedTypes DEF MarkPickedUp, OrderStatus
  <2> QED  BY <1>1, <1>8, <2>1 DEF MarkPickedUp, DeliveryTypeOK
<1>9. ASSUME NEW a \in Runner \cup {Admin}, NEW o \in Order, ReleaseJob(a, o)
      PROVE  TablesTypeOK' /\ DeliveryTypeOK'
  <2>1. TablesTypeOK'
    BY <1>1, <1>9, MovedTypes DEF ReleaseJob, OrderStatus
  <2> QED  BY <1>1, <1>9, <2>1 DEF ReleaseJob, WipeCode, DeliveryTypeOK
<1>10. ASSUME NEW a \in Runner \cup {Admin}, NEW o \in Order, MarkDeliveryFailed(a, o)
       PROVE  TablesTypeOK' /\ DeliveryTypeOK'
  <2>1. TablesTypeOK'
    BY <1>1, <1>10, MovedTypes DEF MarkDeliveryFailed, OrderStatus
  <2> QED  BY <1>1, <1>10, <2>1 DEF MarkDeliveryFailed, WipeCode, DeliveryTypeOK
<1>11. ASSUME NEW o \in Order, LogAttempt(o)
       PROVE  attempts' \in [Order -> 0..MaxAttempts]
  <2>1. attempts[o] \in 0..MaxAttempts /\ attempts[o] < MaxAttempts /\ MaxAttempts \in Nat
    BY <1>1, <1>11, DeliveryAssumption DEF LogAttempt, DeliveryTypeOK
  <2>2. attempts[o] + 1 \in 0..MaxAttempts
    BY <2>1
  <2> QED  BY <1>1, <1>11, <2>2 DEF LogAttempt, DeliveryTypeOK
<1>12. ASSUME NEW a \in Runner \cup {Admin}, NEW o \in Order, NEW g \in Code, Deliver(a, o, g)
       PROVE  TablesTypeOK' /\ DeliveryTypeOK'
  <2>1. TablesTypeOK'
    BY <1>1, <1>12, MovedTypes DEF Deliver, OrderStatus
  <2>2. attempts' \in [Order -> 0..MaxAttempts]
    BY <1>11, <1>12 DEF Deliver
  <2>3. earned' \in [Order -> Runner \cup {NoRunner}]
    BY <1>1, <1>12 DEF Deliver, CreditsRunner, DeliveryTypeOK, TablesTypeOK
  <2> QED  BY <1>1, <1>12, <2>1, <2>2, <2>3 DEF Deliver, DeliveryTypeOK
<1>13. ASSUME NEW a \in Runner \cup {Admin}, NEW o \in Order, NEW g \in Code,
              SpendGuess(a, o, g)
       PROVE  TablesTypeOK' /\ DeliveryTypeOK'
  <2>1. TablesTypeOK'
    BY <1>1, <1>13, TablesTypeUnchanged DEF SpendGuess
  <2>2. attempts' \in [Order -> 0..MaxAttempts]
    BY <1>11, <1>13 DEF SpendGuess
  <2> QED  BY <1>1, <1>13, <2>1, <2>2 DEF SpendGuess, DeliveryTypeOK
<1>14. ASSUME NEW o \in Order, AttemptsLapse(o)
       PROVE  TablesTypeOK' /\ DeliveryTypeOK'
  <2>1. TablesTypeOK'
    BY <1>1, <1>14, TablesTypeUnchanged DEF AttemptsLapse
  <2>2. attempts[o] - 1 \in 0..MaxAttempts
    BY <1>1, <1>14, DeliveryAssumption DEF AttemptsLapse, DeliveryTypeOK
  <2> QED  BY <1>1, <1>14, <2>1, <2>2 DEF AttemptsLapse, DeliveryTypeOK
<1>15. ASSUME NEW o \in Order, NEW r \in Runner, Reassign(o, r)
       PROVE  TablesTypeOK' /\ DeliveryTypeOK'
  <2>1. AssignTo(r, o)
    BY <1>15 DEF Reassign
  <2>2. actor' \in [Order -> Runner \cup {NoRunner, Admin}]
    BY <1>1, <1>15 DEF Reassign, DeliveryTypeOK
  <2> QED  BY <1>1, <1>15, <2>1, <2>2, AssignToTypes DEF Reassign, AssignTo, DeliveryTypeOK
<1> QED
  BY <1>4, <1>5, <1>6, <1>7, <1>8, <1>9, <1>10, <1>12, <1>13, <1>14, <1>15
  DEF DeliveryStep, DeliveryNext

(* Every column of every table, and every record of a call under way, stays *)
(* in its domain: no price, balance, reservation or attempt count leaves    *)
(* the range its CHECK or its limit gives it.                               *)
THEOREM TypeCorrect == Spec => []TypeOK
<1>1. Init => TypeOK
  <2> SUFFICES ASSUME Init PROVE TypeOK
    OBVIOUS
  <2>1. TablesTypeOK
    BY RequestsAreWellFormed DEF Init, TablesInit, TablesTypeOK, PaymentStatus
  <2>2. CallersTypeOK
    BY DEF Init, CheckoutInit, PaymentsInit, RefundsInit, StoreAdminInit, CallersTypeOK
  <2>3. DeliveryTypeOK
    BY DeliveryAssumption DEF Init, DeliveryInit, DeliveryTypeOK
  <2> QED  BY <2>1, <2>2, <2>3 DEF TypeOK
<1>2. TypeOK /\ [Next]_vars => TypeOK'
  <2> SUFFICES ASSUME TypeOK, [Next]_vars PROVE TypeOK'
    OBVIOUS
  <2>1. CASE UNCHANGED vars
    BY <2>1, TablesTypeUnchanged, CallersTypeUnchanged, DeliveryTypeUnchanged DEF vars, TypeOK
  <2> QED
    BY <2>1, CheckoutTypes, PaymentsTypes, PackingTypes, RefundsTypes, StoreAdminTypes,
       DeliveryTypes DEF Next
<1> QED  BY <1>1, <1>2, PTL DEF Spec

-----------------------------------------------------------------------------
(***************************************************************************)
(* ORDER AND PAYMENT STATUS TOGETHER.  The inductive invariant says which  *)
(* payment statuses go with which order status, absent orders included;    *)
(* with it every step of the core is a step of OrderStateMachine or leaves *)
(* the pairs alone, and every step of that machine keeps the invariant.    *)
(***************************************************************************)
Alive == {"confirmed", "packed", "assigned", "picked_up", "delivered", "delivery_failed"}

\* The resting pairs, as what each order status implies of the payment.
PairInv ==
  \A o \in Order :
    /\ status[o] \in {"absent", "created"} => pay[o] = "pending"
    /\ status[o] \in Alive                 => pay[o] \in Machine!Paid
    /\ status[o] = "payment_failed"        => pay[o] = "failed"
    /\ status[o] = "cancelled"             => pay[o] = "refunded"

-----------------------------------------------------------------------------
(***************************************************************************)
(* How a change of the two columns shows in the pairs.                     *)
(***************************************************************************)
\* Both columns of one order are written.
LEMMA PairMoves ==
  ASSUME TablesTypeOK, NEW o \in Order, NEW s, NEW m,
         status' = [status EXCEPT ![o] = s], pay' = [pay EXCEPT ![o] = m]
  PROVE  /\ Pairs[o] = <<status[o], pay[o]>>
         /\ Pairs' = [Pairs EXCEPT ![o] = <<s, m>>]
BY DEF TablesTypeOK, Pairs

\* Only orders.status of one order is written.
LEMMA StatusMoves ==
  ASSUME TablesTypeOK, NEW o \in Order, NEW s,
         status' = [status EXCEPT ![o] = s], UNCHANGED pay
  PROVE  /\ Pairs[o] = <<status[o], pay[o]>>
         /\ Pairs' = [Pairs EXCEPT ![o] = <<s, pay[o]>>]
BY DEF TablesTypeOK, Pairs

\* Only payments.status of one order is written.
LEMMA PayMoves ==
  ASSUME TablesTypeOK, NEW o \in Order, NEW m,
         UNCHANGED status, pay' = [pay EXCEPT ![o] = m]
  PROVE  /\ Pairs[o] = <<status[o], pay[o]>>
         /\ Pairs' = [Pairs EXCEPT ![o] = <<status[o], m>>]
BY DEF TablesTypeOK, Pairs

\* Neither column is written.
LEMMA PairsStay ==
  ASSUME UNCHANGED <<status, pay>>
  PROVE  UNCHANGED Pairs
BY DEF Pairs

\* The machine's helper, for an order that goes from one pair to another.
LEMMA GoesByPair ==
  ASSUME NEW o \in Order, NEW from, NEW to, NEW q \in to,
         Pairs[o] \in from, Pairs' = [Pairs EXCEPT ![o] = q]
  PROVE  Machine!Goes(o, from, to)
BY DEF Machine!Goes

-----------------------------------------------------------------------------
(***************************************************************************)
(* Each component's steps, seen in the pairs.                              *)
(***************************************************************************)
\* create_order places an order waiting for its payment or covered at once.
LEMMA CheckoutPairs ==
  ASSUME TypeOK, PairInv, CheckoutStep
  PROVE  Machine!Next \/ UNCHANGED Pairs
<1>1. TablesTypeOK /\ CallersTypeOK
  BY DEF TypeOK
<1>2. PICK c \in Call : \/ \E o \in Order : BeginCheckout(c, o)
                        \/ PlaceOrder(c)
                        \/ LoseInsertRace(c)
                        \/ AbandonCheckout(c)
  BY DEF CheckoutStep, CheckoutNext
<1>3. CASE PlaceOrder(c)
  <2>1. PICK o \in Order : o = call[c] /\ status[o] = "absent" /\ pay[o] = "pending"
    BY <1>1, <1>3 DEF PlaceOrder, CallersTypeOK, PairInv
  <2>2. PICK covered \in BOOLEAN :
          /\ status' = [status EXCEPT ![o] = IF covered THEN "confirmed" ELSE "created"]
          /\ pay'    = [pay EXCEPT ![o] = IF covered THEN "captured" ELSE "pending"]
    BY <1>3, <2>1 DEF PlaceOrder
  <2>3. PICK q \in {<<"created", "pending">>, <<"confirmed", "captured">>} :
          Pairs' = [Pairs EXCEPT ![o] = q]
    <3>1. CASE covered
      <4>1. status' = [status EXCEPT ![o] = "confirmed"] /\ pay' = [pay EXCEPT ![o] = "captured"]
        BY <2>2, <3>1
      <4>2. Pairs' = [Pairs EXCEPT ![o] = <<"confirmed", "captured">>]
        BY <1>1, <4>1, PairMoves
      <4> QED  BY <4>2
    <3>2. CASE ~covered
      <4>1. status' = [status EXCEPT ![o] = "created"] /\ pay' = [pay EXCEPT ![o] = "pending"]
        BY <2>2, <3>2
      <4>2. Pairs' = [Pairs EXCEPT ![o] = <<"created", "pending">>]
        BY <1>1, <4>1, PairMoves
      <4> QED  BY <4>2
    <3> QED  BY <3>1, <3>2
  <2>4. Pairs[o] = <<"absent", "pending">>
    BY <2>1 DEF Pairs
  <2>5. Machine!Place(o)
    BY <2>3, <2>4, GoesByPair DEF Machine!Place, Machine!Absent
  <2> QED  BY <2>5 DEF Machine!Next
<1>4. CASE \/ \E o \in Order : BeginCheckout(c, o)
           \/ LoseInsertRace(c)
           \/ AbandonCheckout(c)
  BY <1>4, PairsStay
  DEF BeginCheckout, LoseInsertRace, AbandonCheckout, tableVars, orderVars, paymentVars
<1> QED  BY <1>2, <1>3, <1>4

\* A webhook confirms or fails the order that waits, the sweep fails several.
LEMMA PaymentsPairs ==
  ASSUME TypeOK, PairInv, PaymentsStep
  PROVE  Machine!Next \/ UNCHANGED Pairs
<1>1. TablesTypeOK
  BY DEF TypeOK
<1>2. ASSUME NEW o \in Order, ConfirmPayment(o) PROVE Machine!Next
  <2>1. /\ status[o] = "created" /\ pay[o] = "pending"
        /\ Pairs[o] = <<status[o], pay[o]>>
        /\ Pairs' = [Pairs EXCEPT ![o] = <<"confirmed", "captured">>]
    BY <1>1, <1>2, PairMoves DEF ConfirmPayment
  <2>2. Machine!Confirm(o)
    BY <2>1, GoesByPair DEF Machine!Confirm
  <2> QED  BY <2>2 DEF Machine!Next
<1>3. ASSUME NEW o \in Order, FailPayment(o) PROVE Machine!Next
  <2>1. /\ status[o] = "created" /\ pay[o] = "pending"
        /\ status' = [status EXCEPT ![o] = "payment_failed"]
        /\ pay' = [pay EXCEPT ![o] = "failed"]
    BY <1>3 DEF FailPayment
  <2>2. Machine!Fail({o})
    BY <1>1, <2>1 DEF Machine!Fail, Pairs, TablesTypeOK
  <2> QED  BY <2>2 DEF Machine!Next
<1>4. ASSUME NEW S \in SUBSET Order, Sweep(S) PROVE Machine!Next
  <2>1. /\ S # {}
        /\ \A o \in S : status[o] = "created" /\ pay[o] = "pending"
        /\ status' = [o \in Order |-> IF o \in S THEN "payment_failed" ELSE status[o]]
        /\ pay' = [o \in Order |-> IF o \in S THEN "failed" ELSE pay[o]]
    BY <1>4 DEF Sweep, Stale, PairInv
  <2>2. Machine!Fail(S)
    BY <2>1 DEF Machine!Fail, Pairs
  <2> QED  BY <2>2 DEF Machine!Next
<1>5. ASSUME NEW e \in Event, Webhook(e) PROVE Machine!Next \/ UNCHANGED Pairs
  <2>1. e.order \in Order
    BY EventAssumption
  <2> QED
    BY <1>2, <1>3, <1>5, <2>1, PairsStay
    DEF Webhook, ReconcileLateCapture, tableVars, orderVars, paymentVars
<1>6. ASSUME NEW o \in Order, ReservationTimesOut(o) PROVE UNCHANGED Pairs
  BY <1>6, PairsStay DEF ReservationTimesOut, tableVars, orderVars, paymentVars
<1> QED  BY <1>4, <1>5, <1>6 DEF PaymentsStep, PaymentsNext

\* Packing advances an order; a stock-out may give part of the money back.
LEMMA PackingPairs ==
  ASSUME TypeOK, PairInv, PackingStep
  PROVE  Machine!Next \/ UNCHANGED Pairs
<1>1. TablesTypeOK
  BY DEF TypeOK
<1>2. ASSUME NEW o \in Order, MarkPacked(o) PROVE Machine!Next
  <2>1. /\ status[o] = "confirmed" /\ pay[o] \in Machine!Paid
        /\ status' = [status EXCEPT ![o] = "packed"] /\ UNCHANGED pay
    BY <1>2 DEF MarkPacked, PairInv, Alive, paymentVars
  <2>2. Machine!Goes(o, {<<"confirmed", pay[o]>>}, {<<"packed", pay[o]>>})
    BY <1>1, <2>1, StatusMoves, GoesByPair
  <2>3. Machine!Advance(o)
    BY <2>1, <2>2 DEF Machine!Advance, Machine!Underway
  <2> QED  BY <2>3 DEF Machine!Next
<1>3. ASSUME NEW s \in Shortage, StockOut(s) PROVE Machine!Next \/ UNCHANGED Pairs
  <2> DEFINE o == s.order
  <2>1. /\ o \in Order /\ status[o] = "confirmed" /\ pay[o] \in Machine!Paid
        /\ UNCHANGED status /\ pay' = [pay EXCEPT ![o] = AfterShortage(s)]
    BY <1>3, ShortageAssumption DEF StockOut, ShortageIsValid, PairInv, Alive
  <2>2. /\ Pairs[o] = <<"confirmed", pay[o]>>
        /\ Pairs' = [Pairs EXCEPT ![o] = <<"confirmed", AfterShortage(s)>>]
    BY <1>1, <2>1, PayMoves
  <2>3. CASE AfterShortage(s) = pay[o]
    BY <1>1, <2>1, <2>3, PairsStay DEF TablesTypeOK
  <2>4. CASE AfterShortage(s) = "partially_refunded"
    <3>1. Machine!Goes(o, {<<"confirmed", pay[o]>>}, {<<"confirmed", "partially_refunded">>})
      BY <2>1, <2>2, <2>4, GoesByPair
    <3>2. Machine!PayBackPart(o)
      BY <2>1, <3>1 DEF Machine!PayBackPart, Machine!Underway
    <3> QED  BY <2>1, <3>2 DEF Machine!Next
  \* The deferred trigger lets no order rest confirmed and refunded.
  <2>5. AfterShortage(s) # "refunded"
    <3>1. <<status'[o], pay'[o]>> \in PaymentOrderConsistencyRules
      BY <1>3 DEF StockOut, Commits, TriggersAccept
    <3>2. status'[o] = "confirmed" /\ pay'[o] = AfterShortage(s)
      BY <1>1, <2>1 DEF TablesTypeOK
    <3> QED  BY <3>1, <3>2 DEF PaymentOrderConsistencyRules
  <2> QED  BY <2>3, <2>4, <2>5 DEF AfterShortage
<1> QED  BY <1>2, <1>3 DEF PackingStep, PackingNext

\* A refund pays part of it back or cancels the order.
LEMMA RefundsPairs ==
  ASSUME TypeOK, PairInv, RefundsStep
  PROVE  Machine!Next \/ UNCHANGED Pairs
<1>1. TablesTypeOK /\ CallersTypeOK
  BY DEF TypeOK
<1>2. ASSUME NEW d \in Desk, PayBack(d), Commits(desk[d].order)
      PROVE  /\ desk[d].order \in Order
             /\ HasCapture(pay[desk[d].order])
             /\ pay' = [pay EXCEPT ![desk[d].order] = PaidBackAs(desk[d])]
             /\ pay'[desk[d].order] = PaidBackAs(desk[d])
  <2>1. desk[d].order \in Order
    BY <1>1, <1>2, PayBackTypes
  <2> QED  BY <1>1, <1>2, <2>1 DEF PayBack, RefundIsDue, TablesTypeOK
<1>3. ASSUME NEW d \in Desk, RefundPart(d) PROVE Machine!Next
  <2> DEFINE o == desk[d].order
  <2>1. PayBack(d) /\ Commits(o) /\ UNCHANGED status
    BY <1>3 DEF RefundPart
  <2>2. PaidBackAs(desk[d]) = "partially_refunded"
    BY <1>3 DEF RefundPart, PaidBackAs
  <2>3. /\ o \in Order /\ HasCapture(pay[o])
        /\ pay' = [pay EXCEPT ![o] = "partially_refunded"]
        /\ pay'[o] = "partially_refunded"
    BY <1>2, <2>1, <2>2
  \* A cancelled order's payment is refunded, and never comes back from there.
  <2>4. status[o] \in Alive
    <3>1. status[o] # "absent" => LegalPaymentMove(pay[o], pay'[o])
      BY <2>1 DEF Commits, TriggersAccept
    <3>2. pay[o] # "refunded" \/ status[o] = "absent"
      BY <2>3, <3>1 DEF LegalPaymentMove, PaymentTransitionRules
    <3> QED  BY <1>1, <2>3, <3>2 DEF PairInv, HasCapture, TablesTypeOK, OrderStatus, Alive
  <2>5. pay[o] \in Machine!Paid
    BY <2>3, <2>4 DEF PairInv
  <2>6. Machine!Goes(o, {<<status[o], pay[o]>>}, {<<status[o], "partially_refunded">>})
    BY <1>1, <2>1, <2>3, PayMoves, GoesByPair
  <2>7. Machine!PayBackPart(o)
    BY <2>4, <2>5, <2>6 DEF Machine!PayBackPart, Machine!Underway, Alive
  <2> QED  BY <2>3, <2>7 DEF Machine!Next
<1>4. ASSUME NEW d \in Desk, RefundAndCancel(d) PROVE Machine!Next \/ UNCHANGED Pairs
  <2> DEFINE o == desk[d].order
  <2>1. /\ PayBack(d) /\ Commits(o)
        /\ status' = [status EXCEPT ![o] = "cancelled"]
    BY <1>4 DEF RefundAndCancel
  <2>2. PaidBackAs(desk[d]) = "refunded"
    BY <1>4 DEF RefundAndCancel, PaidBackAs
  <2>3. /\ o \in Order /\ HasCapture(pay[o])
        /\ pay' = [pay EXCEPT ![o] = "refunded"]
    BY <1>2, <2>1, <2>2
  <2>4. /\ Pairs[o] = <<status[o], pay[o]>>
        /\ Pairs' = [Pairs EXCEPT ![o] = <<"cancelled", "refunded">>]
    BY <1>1, <2>1, <2>3, PairMoves
  <2>5. status[o] \in {"confirmed", "assigned", "delivery_failed", "cancelled"}
    <3>1. status[o] # "absent" => LegalOrderMove(status[o], "cancelled")
      BY <1>1, <2>1, <2>3 DEF Commits, TriggersAccept, TablesTypeOK
    <3>2. status[o] \notin {"absent", "created"}
      BY <2>3 DEF PairInv, HasCapture
    <3> QED  BY <3>1, <3>2 DEF LegalOrderMove, OrderTransitionRules
  <2>6. CASE status[o] = "cancelled"
    <3>1. pay[o] = "refunded"
      BY <2>3, <2>6 DEF PairInv
    <3> QED  BY <1>1, <2>1, <2>3, <2>6, <3>1, PairsStay DEF TablesTypeOK
  <2>7. CASE status[o] \in {"confirmed", "assigned", "delivery_failed"}
    <3>1. pay[o] \in Machine!Paid
      BY <2>3, <2>7 DEF PairInv, Alive
    <3>2. Pairs[o] \in {"confirmed", "assigned", "delivery_failed"} \X Machine!Paid
      BY <2>4, <2>7, <3>1
    <3>3. Machine!Goes(o, {"confirmed", "assigned", "delivery_failed"} \X Machine!Paid,
                       {<<"cancelled", "refunded">>})
      BY <2>3, <2>4, <3>2, GoesByPair
    <3>4. Machine!Cancel(o)
      BY <3>3 DEF Machine!Cancel
    <3> QED  BY <2>3, <3>4 DEF Machine!Next
  <2> QED  BY <2>5, <2>6, <2>7
<1>5. ASSUME NEW d \in Desk, NEW k \in RefundKey, NEW o \in Order,
             NEW a \in PartialAmount \cup {Whole}, NEW cancel \in BOOLEAN,
             BeginRefund(d, k, o, a, cancel)
      PROVE  UNCHANGED Pairs
  BY <1>5, PairsStay DEF BeginRefund, tableVars, orderVars, paymentVars
<1>6. ASSUME NEW d \in Desk, DropRefund(d) PROVE UNCHANGED Pairs
  BY <1>6, PairsStay DEF DropRefund, tableVars, orderVars, paymentVars
<1> QED  BY <1>3, <1>4, <1>5, <1>6 DEF RefundsStep, RefundsNext

\* An administrator's changes to the store leave the orders alone.
LEMMA StoreAdminPairs ==
  ASSUME StoreAdminStep
  PROVE  UNCHANGED Pairs
BY PairsStay
DEF StoreAdminStep, StoreAdminNext, SetServicePause, AdjustInventory, SetListed, orderVars,
    paymentVars

\* The runner's and the administrator's delivery steps advance an order.
LEMMA DeliveryPairs ==
  ASSUME TypeOK, PairInv, DeliveryStep
  PROVE  Machine!Next \/ UNCHANGED Pairs
<1> DEFINE Along == { <<"packed", "assigned">>, <<"assigned", "packed">>,
                      <<"assigned", "picked_up">>, <<"picked_up", "delivered">>,
                      <<"picked_up", "delivery_failed">>, <<"delivery_failed", "assigned">> }
<1>1. TablesTypeOK /\ DeliveryTypeOK
  BY DEF TypeOK
\* One argument for all of them: the goods move, the money does not.
<1>2. ASSUME NEW o \in Order, NEW t \in Alive, <<status[o], t>> \in Along,
             status' = [status EXCEPT ![o] = t], UNCHANGED unmoved
      PROVE  Machine!Next
  <2>1. status[o] \in Alive /\ pay[o] \in Machine!Paid
    BY <1>2 DEF PairInv, Alive
  <2>2. UNCHANGED pay
    BY <1>2 DEF unmoved, paymentVars
  <2>3. Machine!Goes(o, {<<status[o], pay[o]>>}, {<<t, pay[o]>>})
    BY <1>1, <1>2, <2>2, StatusMoves, GoesByPair
  <2>4. /\ status[o] \in Machine!Underway \cup {"delivered"}
        /\ t \in Machine!Underway \cup {"delivered"}
    BY <1>2 DEF Machine!Underway
  <2>5. <<status[o], t>> \in Along \cup {<<"confirmed", "packed">>}
    BY <1>2
  <2>6. Machine!Advance(o)
    BY <2>1, <2>3, <2>4, <2>5 DEF Machine!Advance
  <2> QED  BY <2>6 DEF Machine!Next
<1>3. ASSUME NEW k \in Claim, FinishClaim(k) PROVE Machine!Next
  <2>1. claim[k][2] \in Order
    BY <1>1, <1>3 DEF FinishClaim, DeliveryTypeOK
  <2>2. /\ "assigned" \in Alive
        /\ <<status[claim[k][2]], "assigned">> \in Along
        /\ status' = [status EXCEPT ![claim[k][2]] = "assigned"]
        /\ UNCHANGED unmoved
    BY <1>3 DEF FinishClaim, Claimable, AssignTo, Alive
  <2> QED  BY <1>2, <2>1, <2>2
<1>4. ASSUME NEW o \in Order, NEW r \in Runner, Reassign(o, r)
      PROVE  Machine!Next \/ UNCHANGED Pairs
  <2>1. /\ status' = [status EXCEPT ![o] = "assigned"] /\ UNCHANGED unmoved
        /\ status[o] \in {"assigned", "delivery_failed"}
    BY <1>4 DEF Reassign, AssignTo
  <2>2. CASE status[o] = "assigned"
    BY <1>1, <2>1, <2>2, PairsStay DEF TablesTypeOK, unmoved, paymentVars
  <2>3. CASE status[o] = "delivery_failed"
    <3>1. "assigned" \in Alive /\ <<status[o], "assigned">> \in Along
      BY <2>3 DEF Alive
    <3> QED  BY <1>2, <2>1, <3>1
  <2> QED  BY <2>1, <2>2, <2>3
<1>5. ASSUME NEW o \in Order, NEW a \in Runner \cup {Admin},
             MarkPickedUp(a, o) \/ ReleaseJob(a, o) \/ MarkDeliveryFailed(a, o)
      PROVE  Machine!Next
  BY <1>2, <1>5 DEF MarkPickedUp, ReleaseJob, MarkDeliveryFailed, Alive
<1>6. ASSUME NEW o \in Order, NEW a \in Runner \cup {Admin}, NEW g \in Code, Deliver(a, o, g)
      PROVE  Machine!Next
  <2>1. /\ "delivered" \in Alive
        /\ <<status[o], "delivered">> \in Along
        /\ status' = [status EXCEPT ![o] = "delivered"]
        /\ UNCHANGED unmoved
    BY <1>6 DEF Deliver, Alive
  <2> QED  BY <1>2, <2>1
<1>7. ASSUME UNCHANGED tableVars PROVE UNCHANGED Pairs
  BY <1>7, PairsStay DEF tableVars, orderVars, paymentVars
<1>8. ASSUME NEW r \in Runner, GoOnline(r) \/ GoOffline(r) PROVE UNCHANGED Pairs
  BY <1>7, <1>8 DEF GoOnline, GoOffline
<1>9. ASSUME NEW k \in Claim,
             LoseClaim(k) \/ \E r \in Runner, o \in Order : BeginClaim(k, r, o)
      PROVE  UNCHANGED Pairs
  BY <1>7, <1>9 DEF LoseClaim, BeginClaim
<1>10. ASSUME NEW o \in Order,
              AttemptsLapse(o) \/ \E a \in Runner \cup {Admin}, g \in Code : SpendGuess(a, o, g)
       PROVE  UNCHANGED Pairs
  BY <1>7, <1>10 DEF AttemptsLapse, SpendGuess
<1> QED
  BY <1>3, <1>4, <1>5, <1>6, <1>8, <1>9, <1>10 DEF DeliveryStep, DeliveryNext

-----------------------------------------------------------------------------
(***************************************************************************)
(* The invariant, and what follows from it.                                *)
(***************************************************************************)
\* Every step of the core is one of the machine's or leaves the pairs alone.
LEMMA MachineStep ==
  ASSUME TypeOK, PairInv, [Next]_vars
  PROVE  [Machine!Next]_Pairs
<1>1. CASE UNCHANGED vars
  BY <1>1, PairsStay DEF vars, tableVars, orderVars, paymentVars
<1> QED
  BY <1>1, CheckoutPairs, PaymentsPairs, PackingPairs, RefundsPairs, StoreAdminPairs,
     DeliveryPairs DEF Next

\* The machine keeps the invariant.
LEMMA PairInvKept ==
  ASSUME TypeOK, TypeOK', PairInv, [Machine!Next]_Pairs
  PROVE  PairInv'
<1>1. \A o \in Order : Pairs[o] = <<status[o], pay[o]>> /\ Pairs'[o] = <<status'[o], pay'[o]>>
  BY DEF Pairs
<1>2. ASSUME NEW o \in Order,
             \/ Pairs'[o] = Pairs[o]
             \/ Pairs'[o] = <<"created", "pending">>
             \/ Pairs'[o] \in Alive \X Machine!Paid
             \/ Pairs'[o] = <<"payment_failed", "failed">>
             \/ Pairs'[o] = <<"cancelled", "refunded">>
      PROVE  /\ status'[o] \in {"absent", "created"} => pay'[o] = "pending"
             /\ status'[o] \in Alive                 => pay'[o] \in Machine!Paid
             /\ status'[o] = "payment_failed"        => pay'[o] = "failed"
             /\ status'[o] = "cancelled"             => pay'[o] = "refunded"
  BY <1>1, <1>2 DEF PairInv, Alive
<1>3. ASSUME NEW o \in Order, NEW from, NEW to, Machine!Goes(o, from, to)
      PROVE  /\ Pairs'[o] \in to
             /\ \A x \in Order \ {o} : Pairs'[x] = Pairs[x]
  BY <1>3 DEF Machine!Goes, Pairs
<1>4. ASSUME NEW o \in Order, Machine!Place(o) \/ Machine!Confirm(o) PROVE PairInv'
  BY <1>2, <1>3, <1>4 DEF Machine!Place, Machine!Confirm, Machine!Paid, Alive, PairInv
<1>5. ASSUME NEW o \in Order, Machine!Advance(o) \/ Machine!PayBackPart(o) PROVE PairInv'
  <2>1. \E q \in Alive \X Machine!Paid : \E from : Machine!Goes(o, from, {q})
    BY <1>5 DEF Machine!Advance, Machine!PayBackPart, Machine!Underway, Machine!Paid, Alive
  <2> QED  BY <1>2, <1>3, <2>1 DEF PairInv
<1>6. ASSUME NEW o \in Order, Machine!Cancel(o) PROVE PairInv'
  BY <1>2, <1>3, <1>6 DEF Machine!Cancel, PairInv
<1>7. ASSUME NEW S \in SUBSET Order, Machine!Fail(S) PROVE PairInv'
  BY <1>2, <1>7 DEF Machine!Fail, PairInv
<1>8. CASE UNCHANGED Pairs
  BY <1>2, <1>8 DEF PairInv
<1> QED  BY <1>4, <1>5, <1>6, <1>7, <1>8 DEF Machine!Next

\* Types and pairs together are inductive.
LEMMA PairsCorrect == Spec => [](TypeOK /\ PairInv)
<1>1. Init => PairInv
  BY DEF Init, TablesInit, PairInv, Alive
<1>2. TypeOK /\ TypeOK' /\ PairInv /\ [Next]_vars => PairInv'
  BY MachineStep, PairInvKept
<1> QED  BY <1>1, <1>2, TypeCorrect, PTL DEF Spec

(* An order and its payment never rest in a pair that would keep money for  *)
(* an order that is over or deliver one whose money has gone back: narrower *)
(* than the deferred trigger, because of the order the functions write in.  *)
THEOREM PairsAlwaysRest == Spec => []PairsRest
<1>1. TypeOK /\ PairInv => PairsRest
  BY DEF TypeOK, TablesTypeOK, PairInv, PairsRest, RestingPair, OrderStatus, Alive,
         Machine!Paid
<1> QED  BY <1>1, PairsCorrect, PTL

(* The core implements the published state machine: whatever calls race,    *)
(* the two statuses change together, along its transitions only.            *)
THEOREM ImplementsStateMachine == Spec => FollowsTheStateMachine
<1>1. Init => Machine!Init
  BY DEF Init, TablesInit, Machine!Init, Machine!Absent, Pairs
<1>2. TypeOK /\ PairInv /\ [Next]_vars => [Machine!Next]_Pairs
  BY MachineStep
<1> QED  BY <1>1, <1>2, PairsCorrect, PTL DEF Spec, FollowsTheStateMachine, Machine!Spec

-----------------------------------------------------------------------------
(***************************************************************************)
(* What the machine's steps mean for one order's status, and which steps   *)
(* of the core may place an order: used wherever only the order's life     *)
(* matters, not the transaction that moved it.                             *)
(***************************************************************************)
Path ==
  { <<"absent", "created">>, <<"absent", "confirmed">>,
    <<"created", "confirmed">>, <<"created", "payment_failed">>,
    <<"confirmed", "packed">>, <<"packed", "assigned">>, <<"assigned", "packed">>,
    <<"assigned", "picked_up">>, <<"picked_up", "delivered">>,
    <<"picked_up", "delivery_failed">>, <<"delivery_failed", "assigned">>,
    <<"confirmed", "cancelled">>, <<"assigned", "cancelled">>,
    <<"delivery_failed", "cancelled">> }

\* A step leaves an order's status or takes it one edge along its path.
LEMMA StatusPaths ==
  ASSUME TypeOK, PairInv, [Next]_vars, NEW o \in Order
  PROVE  status'[o] = status[o] \/ <<status[o], status'[o]>> \in Path
<1>1. /\ Pairs[o][1] = status[o] /\ Pairs'[o][1] = status'[o]
      /\ Pairs[o] = <<status[o], pay[o]>> /\ Pairs'[o] = <<status'[o], pay'[o]>>
  BY DEF Pairs
<1>2. ASSUME NEW x \in Order, NEW from, NEW to, Machine!Goes(x, from, to)
      PROVE  Pairs'[o] = Pairs[o] \/ (Pairs[o] \in from /\ Pairs'[o] \in to)
  BY <1>2 DEF Machine!Goes, Pairs
<1>3. ASSUME NEW x \in Order, Machine!Place(x) \/ Machine!Confirm(x)
      PROVE  status'[o] = status[o] \/ <<status[o], status'[o]>> \in Path
  BY <1>1, <1>2, <1>3 DEF Machine!Place, Machine!Confirm, Machine!Absent, Path
<1>4. ASSUME NEW x \in Order, Machine!Cancel(x)
      PROVE  status'[o] = status[o] \/ <<status[o], status'[o]>> \in Path
  <2>1. \/ Pairs'[o] = Pairs[o]
        \/ /\ Pairs[o] \in {"confirmed", "assigned", "delivery_failed"} \X Machine!Paid
           /\ Pairs'[o] \in {<<"cancelled", "refunded">>}
    BY <1>2, <1>4 DEF Machine!Cancel
  <2> QED  BY <1>1, <2>1 DEF Path
<1>5. ASSUME NEW x \in Order, Machine!Advance(x)
      PROVE  status'[o] = status[o] \/ <<status[o], status'[o]>> \in Path
  <2>1. PICK s \in Machine!Underway \cup {"delivered"}, t \in Machine!Underway \cup {"delivered"},
             m \in Machine!Paid :
          /\ <<s, t>> \in { <<"confirmed", "packed">>, <<"packed", "assigned">>,
                            <<"assigned", "packed">>, <<"assigned", "picked_up">>,
                            <<"picked_up", "delivered">>, <<"picked_up", "delivery_failed">>,
                            <<"delivery_failed", "assigned">> }
          /\ Machine!Goes(x, {<<s, m>>}, {<<t, m>>})
    BY <1>5 DEF Machine!Advance
  <2>2. Pairs'[o] = Pairs[o] \/ (Pairs[o] \in {<<s, m>>} /\ Pairs'[o] \in {<<t, m>>})
    BY <1>2, <2>1
  <2>3. <<s, t>> \in Path
    BY <2>1 DEF Path
  <2> QED  BY <1>1, <2>2, <2>3
<1>6. ASSUME NEW x \in Order, Machine!PayBackPart(x)
      PROVE  status'[o] = status[o]
  <2>1. PICK s \in Machine!Underway \cup {"delivered"}, m \in Machine!Paid :
          Machine!Goes(x, {<<s, m>>}, {<<s, "partially_refunded">>})
    BY <1>6 DEF Machine!PayBackPart
  <2>2. Pairs'[o] = Pairs[o] \/ (Pairs[o] \in {<<s, m>>} /\ Pairs'[o] \in {<<s, "partially_refunded">>})
    BY <1>2, <2>1
  <2> QED  BY <1>1, <2>2
<1>7. ASSUME NEW S \in SUBSET Order, Machine!Fail(S)
      PROVE  status'[o] = status[o] \/ <<status[o], status'[o]>> \in Path
  BY <1>1, <1>7 DEF Machine!Fail, Path
<1> QED  BY <1>1, <1>3, <1>4, <1>5, <1>6, <1>7, MachineStep DEF Machine!Next

\* The delivery functions write statuses of orders that are packed or beyond,
\* and none of the columns the rest of the core keeps accounts in.
LEMMA DeliveryMoves ==
  ASSUME TypeOK, DeliveryStep
  PROVE  /\ UNCHANGED unmoved
         /\ \A o \in Order :
              \/ status'[o] = status[o]
              \/ /\ status[o] \in {"packed", "assigned", "picked_up", "delivery_failed"}
                 /\ status'[o] \in {"packed", "assigned", "picked_up", "delivered",
                                    "delivery_failed"}
<1> DEFINE Moves == \A o \in Order :
                      \/ status'[o] = status[o]
                      \/ /\ status[o] \in {"packed", "assigned", "picked_up", "delivery_failed"}
                         /\ status'[o] \in {"packed", "assigned", "picked_up", "delivered",
                                            "delivery_failed"}
<1>1. TablesTypeOK /\ DeliveryTypeOK
  BY DEF TypeOK
<1>2. ASSUME NEW x \in Order, UNCHANGED unmoved,
             status[x] \in {"packed", "assigned", "picked_up", "delivery_failed"},
             NEW t \in {"packed", "assigned", "picked_up", "delivered", "delivery_failed"},
             status' = [status EXCEPT ![x] = t]
      PROVE  UNCHANGED unmoved /\ Moves
  BY <1>1, <1>2 DEF TablesTypeOK
<1>3. ASSUME UNCHANGED tableVars PROVE UNCHANGED unmoved /\ Moves
  BY <1>3 DEF tableVars, orderVars, paymentVars, unmoved
<1>4. ASSUME NEW k \in Claim, FinishClaim(k) PROVE UNCHANGED unmoved /\ Moves
  <2>1. claim[k][2] \in Order
    BY <1>1, <1>4 DEF FinishClaim, DeliveryTypeOK
  <2> QED  BY <1>2, <1>4, <2>1 DEF FinishClaim, Claimable, AssignTo
<1>5. ASSUME NEW x \in Order, NEW r \in Runner, Reassign(x, r)
      PROVE  UNCHANGED unmoved /\ Moves
  BY <1>2, <1>5 DEF Reassign, AssignTo
<1>6. ASSUME NEW x \in Order, NEW a \in Runner \cup {Admin},
             \/ MarkPickedUp(a, x) \/ ReleaseJob(a, x) \/ MarkDeliveryFailed(a, x)
             \/ \E g \in Code : Deliver(a, x, g)
      PROVE  UNCHANGED unmoved /\ Moves
  BY <1>2, <1>6 DEF MarkPickedUp, ReleaseJob, MarkDeliveryFailed, Deliver
<1> QED
  BY <1>3, <1>4, <1>5, <1>6
  DEF DeliveryStep, DeliveryNext, GoOnline, GoOffline, BeginClaim, LoseClaim, SpendGuess,
      AttemptsLapse

\* Only create_order places an order.
LEMMA OnlyCheckoutPlaces ==
  ASSUME TypeOK, PairInv, NEW o \in Order, status[o] = "absent",
         PaymentsStep \/ PackingStep \/ RefundsStep \/ StoreAdminStep \/ DeliveryStep
  PROVE  status'[o] = "absent"
<1>1. TablesTypeOK /\ CallersTypeOK /\ DeliveryTypeOK
  BY DEF TypeOK
<1>2. ASSUME NEW x \in Order, status[x] # "absent", NEW t, status' = [status EXCEPT ![x] = t]
      PROVE  status'[o] = "absent"
  BY <1>1, <1>2 DEF TablesTypeOK
<1>3. ASSUME UNCHANGED status PROVE status'[o] = "absent"
  BY <1>3
<1>4. CASE PaymentsStep
  <2>1. ASSUME NEW e \in Event, Webhook(e) PROVE status'[o] = "absent"
    <3>1. e.order \in Order /\ status[e.order] # "absent"
      BY <2>1, EventAssumption DEF Webhook
    <3> QED
      BY <1>2, <1>3, <2>1, <3>1
      DEF Webhook, FailPayment, ConfirmPayment, ReconcileLateCapture, tableVars, orderVars
  <2>2. ASSUME NEW x \in Order, ReservationTimesOut(x) PROVE status'[o] = "absent"
    BY <1>3, <2>2 DEF ReservationTimesOut, tableVars, orderVars
  <2>3. ASSUME NEW S \in SUBSET Order, Sweep(S) PROVE status'[o] = "absent"
    BY <2>3 DEF Sweep, Stale
  <2> QED  BY <1>4, <2>1, <2>2, <2>3 DEF PaymentsStep, PaymentsNext
<1>5. CASE PackingStep
  BY <1>2, <1>3, <1>5 DEF PackingStep, PackingNext, MarkPacked, StockOut
<1>6. CASE RefundsStep
  <2>1. ASSUME NEW d \in Desk, RefundAndCancel(d) PROVE status'[o] = "absent"
    <3>1. PayBack(d) /\ Commits(desk[d].order)
      BY <2>1 DEF RefundAndCancel
    <3>2. desk[d].order \in Order /\ status[desk[d].order] # "absent"
      BY <1>1, <3>1, PayBackTypes DEF PayBack, RefundIsDue, HasCapture, PairInv
    <3> QED  BY <1>2, <2>1, <3>2 DEF RefundAndCancel
  <2> QED
    BY <1>3, <1>6, <2>1
    DEF RefundsStep, RefundsNext, BeginRefund, RefundPart, DropRefund, tableVars, orderVars
<1>7. CASE StoreAdminStep
  BY <1>3, <1>7
  DEF StoreAdminStep, StoreAdminNext, SetServicePause, AdjustInventory, SetListed, orderVars
<1>8. CASE DeliveryStep
  BY <1>8, DeliveryMoves
<1> QED  BY <1>4, <1>5, <1>6, <1>7, <1>8

-----------------------------------------------------------------------------
(***************************************************************************)
(* The denormalised copy of the payment status.                            *)
(***************************************************************************)
\* A transaction that writes both columns of one order the same way.
LEMMA CopyWritten ==
  ASSUME TypeOK, PaymentStatusCopyAgrees, NEW o \in Order, NEW m,
         pay' = [pay EXCEPT ![o] = m],
         m = "failed" \/ paymentStatus' = [paymentStatus EXCEPT ![o] = m],
         \A x \in Order \ {o} : /\ paymentStatus'[x] = paymentStatus[x]
                                /\ status[x] = "absent" => status'[x] = "absent"
  PROVE  PaymentStatusCopyAgrees'
BY DEF PaymentStatusCopyAgrees, TypeOK, TablesTypeOK

\* A transaction that writes neither and places no order.
LEMMA CopyKept ==
  ASSUME PaymentStatusCopyAgrees, UNCHANGED <<pay, paymentStatus>>,
         \A x \in Order : status[x] = "absent" => status'[x] = "absent"
  PROVE  PaymentStatusCopyAgrees'
BY DEF PaymentStatusCopyAgrees

(* The console reads a copy of the payment status; whichever function wrote *)
(* the payment last also wrote the copy, except the sweep, which gives the  *)
(* payment up as failed.                                                    *)
THEOREM PaymentCopyIsTrue == Spec => []PaymentStatusCopyAgrees
<1>1. Init => PaymentStatusCopyAgrees
  BY DEF Init, TablesInit, PaymentStatusCopyAgrees
<1>2. ASSUME TypeOK, PairInv, PaymentStatusCopyAgrees, [Next]_vars
      PROVE  PaymentStatusCopyAgrees'
  <2>1. TablesTypeOK /\ CallersTypeOK
    BY <1>2 DEF TypeOK
  <2>2. CASE UNCHANGED vars
    BY <1>2, <2>2, CopyKept DEF vars, tableVars, orderVars, paymentVars
  <2>3. CASE CheckoutStep
    <3>1. ASSUME NEW c \in Call, PlaceOrder(c) PROVE PaymentStatusCopyAgrees'
      <4>1. PICK o \in Order : o = call[c]
        BY <2>1, <3>1 DEF PlaceOrder, CallersTypeOK
      <4>2. PICK m : pay' = [pay EXCEPT ![o] = m]
        BY <3>1, <4>1 DEF PlaceOrder
      <4>3. paymentStatus' = [paymentStatus EXCEPT ![o] = m]
        BY <2>1, <3>1, <4>1, <4>2 DEF PlaceOrder, TablesTypeOK
      <4>4. \A x \in Order \ {o} : /\ paymentStatus'[x] = paymentStatus[x]
                                   /\ status'[x] = status[x]
        BY <2>1, <3>1, <4>1, <4>3 DEF PlaceOrder, TablesTypeOK
      <4> QED  BY <1>2, <4>2, <4>3, <4>4, CopyWritten
    <3> QED
      BY <1>2, <2>3, <3>1, CopyKept
      DEF CheckoutStep, CheckoutNext, BeginCheckout, LoseInsertRace, AbandonCheckout,
          tableVars, orderVars, paymentVars
  <2>4. CASE PaymentsStep \/ PackingStep \/ RefundsStep \/ StoreAdminStep \/ DeliveryStep
    <3>1. \A x \in Order : status[x] = "absent" => status'[x] = "absent"
      BY <1>2, <2>4, OnlyCheckoutPlaces
    <3>2. ASSUME UNCHANGED <<pay, paymentStatus>> PROVE PaymentStatusCopyAgrees'
      BY <1>2, <3>1, <3>2, CopyKept
    <3>3. ASSUME NEW o \in Order, NEW m, pay' = [pay EXCEPT ![o] = m],
                 paymentStatus' = [paymentStatus EXCEPT ![o] = m]
          PROVE  PaymentStatusCopyAgrees'
      <4>1. \A x \in Order \ {o} : paymentStatus'[x] = paymentStatus[x]
        BY <2>1, <3>3 DEF TablesTypeOK
      <4> QED  BY <1>2, <3>1, <3>3, <4>1, CopyWritten
    <3>4. CASE PaymentsStep
      <4>1. ASSUME NEW e \in Event, Webhook(e) PROVE PaymentStatusCopyAgrees'
        <5>1. e.order \in Order
          BY EventAssumption
        <5> QED
          BY <3>2, <3>3, <4>1, <5>1
          DEF Webhook, FailPayment, ConfirmPayment, ReconcileLateCapture, tableVars, orderVars,
              paymentVars
      <4>2. ASSUME NEW x \in Order, ReservationTimesOut(x) PROVE PaymentStatusCopyAgrees'
        BY <3>2, <4>2 DEF ReservationTimesOut, tableVars, orderVars, paymentVars
      <4>3. ASSUME NEW S \in SUBSET Order, Sweep(S) PROVE PaymentStatusCopyAgrees'
        BY <1>2, <3>1, <4>3 DEF Sweep, PaymentStatusCopyAgrees
      <4> QED  BY <3>4, <4>1, <4>2, <4>3 DEF PaymentsStep, PaymentsNext
    <3>5. CASE PackingStep
      <4>1. ASSUME NEW o \in Order, MarkPacked(o) PROVE PaymentStatusCopyAgrees'
        BY <3>2, <4>1 DEF MarkPacked, paymentVars
      <4>2. ASSUME NEW s \in Shortage, StockOut(s) PROVE PaymentStatusCopyAgrees'
        <5>1. s.order \in Order
          BY ShortageAssumption
        <5>2. CASE GatewayShare(s) = 0
          <6>1. AfterShortage(s) = pay[s.order]
            BY <5>2 DEF AfterShortage
          <6>2. UNCHANGED <<pay, paymentStatus>>
            BY <2>1, <4>2, <5>1, <5>2, <6>1 DEF StockOut, TablesTypeOK
          <6> QED  BY <3>2, <6>2
        <5>3. CASE GatewayShare(s) # 0
          BY <3>3, <4>2, <5>1, <5>3 DEF StockOut
        <5> QED  BY <5>2, <5>3
      <4> QED  BY <3>5, <4>1, <4>2 DEF PackingStep, PackingNext
    <3>6. CASE RefundsStep
      <4>1. ASSUME NEW d \in Desk, PayBack(d), Commits(desk[d].order),
                   paymentStatus' = [paymentStatus EXCEPT ![desk[d].order] = PaidBackAs(desk[d])]
            PROVE  PaymentStatusCopyAgrees'
        <5>1. desk[d].order \in Order
          BY <2>1, <4>1, PayBackTypes
        <5> QED  BY <3>3, <4>1, <5>1 DEF PayBack
      <4>2. ASSUME NEW d \in Desk, RefundPart(d) \/ RefundAndCancel(d)
            PROVE  PaymentStatusCopyAgrees'
        BY <4>1, <4>2 DEF RefundPart, RefundAndCancel, PaidBackAs
      <4> QED
        BY <3>2, <3>6, <4>2
        DEF RefundsStep, RefundsNext, BeginRefund, DropRefund, tableVars, orderVars, paymentVars
    <3>7. CASE StoreAdminStep
      BY <3>2, <3>7
      DEF StoreAdminStep, StoreAdminNext, SetServicePause, AdjustInventory, SetListed,
          orderVars, paymentVars
    <3>8. CASE DeliveryStep
      BY <1>2, <3>2, <3>8, DeliveryMoves DEF unmoved, paymentVars
    <3> QED  BY <2>4, <3>4, <3>5, <3>6, <3>7, <3>8
  <2> QED  BY <1>2, <2>2, <2>3, <2>4 DEF Next
<1>3. TypeOK /\ PairInv /\ PaymentStatusCopyAgrees /\ [Next]_vars => PaymentStatusCopyAgrees'
  BY <1>2
<1> QED  BY <1>1, <1>3, PairsCorrect, PTL DEF Spec

-----------------------------------------------------------------------------
(***************************************************************************)
(* DELIVERY.  Who carries an order, with which code, and who is paid for   *)
(* it.  The inductive invariant joins what each status implies of the      *)
(* order's runner, code and earning; the other components matter for it    *)
(* only in the status changes they may make, so they share one lemma.      *)
(***************************************************************************)
\* Statuses before anybody has carried the order, or once it is back.
OnTheShelf == {"absent", "created", "confirmed", "packed"}

CarriedProperly(o) ==
  /\ status[o] \in LiveJob => runner[o] \in Runner /\ code[o] \in Code /\ code[o] = hash[o]
  /\ status[o] \in OnTheShelf => runner[o] = NoRunner /\ hash[o] = NoCode
  /\ status[o] \notin LiveJob \cup {"cancelled"} => code[o] = NoCode
  /\ earned[o] = IF status[o] = "delivered" THEN runner[o] ELSE NoRunner

\* No runner has two live jobs.
NoSecondJob ==
  \A a, b \in Order :
    status[a] \in LiveJob /\ status[b] \in LiveJob /\ runner[a] = runner[b] => a = b

DeliveryInv == (\A o \in Order : CarriedProperly(o)) /\ NoSecondJob

\* What a transaction outside delivery may do to an order.
QuietMove(o) ==
  \/ status'[o] = status[o]
  \/ status[o] \in OnTheShelf /\ status'[o] \in OnTheShelf \cup {"payment_failed"}
  \/ status[o] # "delivered" /\ status'[o] = "cancelled"

QuietStep ==
  /\ \A o \in Order : QuietMove(o)
  /\ UNCHANGED <<runner, code, hash, earned>>

-----------------------------------------------------------------------------
\* A transaction that only makes quiet moves keeps the invariant.
LEMMA QuietMovesKeep ==
  ASSUME DeliveryInv, QuietStep
  PROVE  DeliveryInv'
<1>1. ASSUME NEW o \in Order PROVE CarriedProperly(o)'
  <2>1. CarriedProperly(o) /\ QuietMove(o)
    BY DEF DeliveryInv, QuietStep
  <2> QED  BY <2>1 DEF CarriedProperly, QuietMove, QuietStep, LiveJob, OnTheShelf
<1>2. \A o \in Order : status'[o] \in LiveJob => status[o] \in LiveJob
  BY DEF QuietStep, QuietMove, LiveJob, OnTheShelf
<1>3. NoSecondJob'
  BY <1>2 DEF DeliveryInv, NoSecondJob, QuietStep
<1> QED  BY <1>1, <1>3 DEF DeliveryInv

\* create_order, the webhook, the sweep, packing and the store's administration
\* move an order only before it leaves the shelf.
LEMMA ShelfStepsAreQuiet ==
  ASSUME TypeOK, CheckoutStep \/ PaymentsStep \/ PackingStep \/ StoreAdminStep
  PROVE  QuietStep
<1>1. /\ TablesTypeOK /\ CallersTypeOK
      /\ UNCHANGED <<code, hash, earned>>
  BY DEF TypeOK, CheckoutStep, PaymentsStep, PackingStep, StoreAdminStep, deliveryVars
<1>2. ASSUME UNCHANGED <<status, runner>> PROVE QuietStep
  BY <1>1, <1>2 DEF QuietStep, QuietMove
<1>3. ASSUME NEW o \in Order, status[o] \in OnTheShelf, UNCHANGED runner,
             NEW t \in OnTheShelf \cup {"payment_failed"}, status' = [status EXCEPT ![o] = t]
      PROVE  QuietStep
  BY <1>1, <1>3 DEF QuietStep, QuietMove, TablesTypeOK
<1>4. CASE CheckoutStep
  <2>1. PICK c \in Call : \/ \E o \in Order : BeginCheckout(c, o)
                          \/ PlaceOrder(c)
                          \/ LoseInsertRace(c)
                          \/ AbandonCheckout(c)
    BY <1>4 DEF CheckoutStep, CheckoutNext
  <2>2. CASE PlaceOrder(c)
    <3>1. PICK o \in Order : call[c] = o /\ status[o] \in OnTheShelf /\ UNCHANGED runner
      BY <1>1, <2>2 DEF PlaceOrder, CallersTypeOK, OnTheShelf
    <3>2. PICK t \in OnTheShelf : status' = [status EXCEPT ![o] = t]
      BY <2>2, <3>1 DEF PlaceOrder, OnTheShelf
    <3> QED  BY <1>3, <3>1, <3>2
  <2> QED
    BY <1>2, <2>1, <2>2
    DEF BeginCheckout, LoseInsertRace, AbandonCheckout, tableVars, orderVars
<1>5. CASE PaymentsStep
  <2>1. ASSUME NEW e \in Event, Webhook(e) PROVE QuietStep
    <3>1. PICK o \in Order : o = e.order
      BY EventAssumption
    <3>2. CASE FailPayment(o)
      BY <1>3, <3>2 DEF FailPayment, OnTheShelf
    <3>3. CASE ConfirmPayment(o)
      BY <1>3, <3>3 DEF ConfirmPayment, OnTheShelf
    <3>4. CASE UNCHANGED <<status, runner>>
      BY <1>2, <3>4
    <3> QED
      BY <2>1, <3>1, <3>2, <3>3, <3>4 DEF Webhook, ReconcileLateCapture, tableVars, orderVars
  <2>2. ASSUME NEW o \in Order, ReservationTimesOut(o) PROVE QuietStep
    BY <1>2, <2>2 DEF ReservationTimesOut, tableVars, orderVars
  <2>3. ASSUME NEW S \in SUBSET Order, Sweep(S) PROVE QuietStep
    BY <1>1, <2>3 DEF Sweep, Stale, QuietStep, QuietMove, OnTheShelf
  <2> QED  BY <1>5, <2>1, <2>2, <2>3 DEF PaymentsStep, PaymentsNext
<1>6. CASE PackingStep
  <2>1. ASSUME NEW o \in Order, MarkPacked(o) PROVE QuietStep
    BY <1>3, <2>1 DEF MarkPacked, OnTheShelf
  <2>2. ASSUME NEW s \in Shortage, StockOut(s) PROVE QuietStep
    BY <1>2, <2>2 DEF StockOut
  <2> QED  BY <1>6, <2>1, <2>2 DEF PackingStep, PackingNext
<1>7. CASE StoreAdminStep
  BY <1>2, <1>7
  DEF StoreAdminStep, StoreAdminNext, SetServicePause, AdjustInventory, SetListed, orderVars
<1> QED  BY <1>4, <1>5, <1>6, <1>7

\* A refund may cancel an order, never a delivered one.
LEMMA RefundsAreQuiet ==
  ASSUME TypeOK, PairInv, RefundsStep
  PROVE  QuietStep
<1>1. TablesTypeOK /\ CallersTypeOK
  BY DEF TypeOK
<1>2. ASSUME UNCHANGED <<status, runner>> PROVE QuietStep
  BY <1>2 DEF QuietStep, QuietMove, RefundsStep, deliveryVars
<1>3. ASSUME NEW d \in Desk, RefundAndCancel(d) PROVE QuietStep
  <2>1. PayBack(d) /\ Commits(desk[d].order)
    BY <1>3 DEF RefundAndCancel
  <2>2. PICK o \in Order : o = desk[d].order
    BY <1>1, <2>1, PayBackTypes
  <2>3. status' = [status EXCEPT ![o] = "cancelled"] /\ UNCHANGED runner
    BY <1>3, <2>2 DEF RefundAndCancel
  <2>4. status[o] # "absent" => LegalOrderMove(status[o], "cancelled")
    BY <1>1, <2>1, <2>2, <2>3 DEF Commits, TriggersAccept, TablesTypeOK
  <2>5. status[o] # "delivered"
    BY <2>4 DEF LegalOrderMove, OrderTransitionRules
  <2> QED  BY <1>1, <2>2, <2>3, <2>5 DEF QuietStep, QuietMove, TablesTypeOK, RefundsStep, deliveryVars
<1>4. ASSUME NEW d \in Desk, RefundPart(d) PROVE UNCHANGED <<status, runner>>
  BY <1>4 DEF RefundPart
<1>5. ASSUME NEW d \in Desk,
             \/ DropRefund(d)
             \/ \E k \in RefundKey, o \in Order, a \in PartialAmount \cup {Whole},
                   cancel \in BOOLEAN : BeginRefund(d, k, o, a, cancel)
      PROVE  UNCHANGED <<status, runner>>
  BY <1>5 DEF DropRefund, BeginRefund, tableVars, orderVars
<1> QED  BY <1>2, <1>3, <1>4, <1>5 DEF RefundsStep, RefundsNext

-----------------------------------------------------------------------------
(***************************************************************************)
(* The delivery functions.                                                 *)
(***************************************************************************)
\* A delivery function answers for the order it locks, and for its runner.
LEMMA OneOrderCarried ==
  ASSUME DeliveryInv, NEW o \in Order,
         \A x \in Order \ {o} : /\ status'[x] = status[x] /\ runner'[x] = runner[x]
                                /\ code'[x] = code[x] /\ hash'[x] = hash[x]
                                /\ earned'[x] = earned[x],
         CarriedProperly(o)',
         status'[o] \in LiveJob =>
           \A x \in Order \ {o} : status[x] \in LiveJob => runner[x] # runner'[o]
  PROVE  DeliveryInv'
<1>1. \A x \in Order : CarriedProperly(x)'
  BY DEF DeliveryInv, CarriedProperly
<1>2. NoSecondJob'
  BY DEF DeliveryInv, NoSecondJob
<1> QED  BY <1>1, <1>2 DEF DeliveryInv

\* An order that goes to a runner: a new code, and the index on runner_id.
LEMMA AssignmentsKeep ==
  ASSUME TypeOK, DeliveryInv, NEW o \in Order, NEW r \in Runner, AssignTo(r, o),
         status[o] # "delivered"
  PROVE  DeliveryInv'
<1>1. TablesTypeOK /\ DeliveryTypeOK
  BY DEF TypeOK
<1>2. PICK v \in Code : code' = [code EXCEPT ![o] = v] /\ hash' = [hash EXCEPT ![o] = v]
  BY DEF AssignTo, MintCode
<1>3. /\ status' = [status EXCEPT ![o] = "assigned"] /\ runner' = [runner EXCEPT ![o] = r]
      /\ UNCHANGED earned
  BY DEF AssignTo
<1>4. \A x \in Order \ {o} : /\ status'[x] = status[x] /\ runner'[x] = runner[x]
                             /\ code'[x] = code[x] /\ hash'[x] = hash[x]
                             /\ earned'[x] = earned[x]
  BY <1>1, <1>2, <1>3 DEF TablesTypeOK, DeliveryTypeOK
<1>5. /\ status'[o] = "assigned" /\ runner'[o] = r /\ code'[o] = v /\ hash'[o] = v
      /\ earned'[o] = earned[o]
  BY <1>1, <1>2, <1>3 DEF TablesTypeOK, DeliveryTypeOK
<1>6. earned[o] = NoRunner
  BY DEF DeliveryInv, CarriedProperly
<1>7. CarriedProperly(o)'
  BY <1>5, <1>6 DEF CarriedProperly, LiveJob, OnTheShelf
<1>8. \A x \in Order \ {o} : status[x] \in LiveJob => runner[x] # r
  BY DEF AssignTo, OneLiveJobIndex, LiveJobsOf
<1> QED  BY <1>4, <1>5, <1>7, <1>8, OneOrderCarried

\* An order that its runner picks up, releases, delivers or fails.
LEMMA JobStepsKeep ==
  ASSUME TypeOK, DeliveryInv, NEW o \in Order, NEW a \in Runner \cup {Admin},
         \/ MarkPickedUp(a, o)
         \/ ReleaseJob(a, o)
         \/ MarkDeliveryFailed(a, o)
         \/ \E g \in Code : Deliver(a, o, g)
  PROVE  DeliveryInv'
<1>1. TablesTypeOK /\ DeliveryTypeOK /\ CarriedProperly(o) /\ NoSecondJob
  BY DEF TypeOK, DeliveryInv
<1>2. CASE MarkPickedUp(a, o)
  <2>1. /\ status[o] = "assigned" /\ status' = [status EXCEPT ![o] = "picked_up"]
        /\ UNCHANGED <<runner, code, hash, earned>>
    BY <1>2 DEF MarkPickedUp
  <2>2. status'[o] = "picked_up" /\ \A x \in Order \ {o} : status'[x] = status[x]
    BY <1>1, <2>1 DEF TablesTypeOK
  <2>3. CarriedProperly(o)'
    BY <1>1, <2>1, <2>2 DEF CarriedProperly, LiveJob, OnTheShelf
  <2>4. \A x \in Order \ {o} : status[x] \in LiveJob => runner[x] # runner'[o]
    BY <1>1, <2>1 DEF NoSecondJob, LiveJob
  <2> QED  BY <2>1, <2>2, <2>3, <2>4, OneOrderCarried
<1>3. CASE ReleaseJob(a, o)
  <2>1. /\ status[o] = "assigned" /\ status' = [status EXCEPT ![o] = "packed"]
        /\ runner' = [runner EXCEPT ![o] = NoRunner]
        /\ code' = [code EXCEPT ![o] = NoCode] /\ hash' = [hash EXCEPT ![o] = NoCode]
        /\ UNCHANGED earned
    BY <1>3 DEF ReleaseJob, WipeCode
  <2>2. /\ status'[o] = "packed" /\ runner'[o] = NoRunner
        /\ code'[o] = NoCode /\ hash'[o] = NoCode
        /\ \A x \in Order \ {o} : /\ status'[x] = status[x] /\ runner'[x] = runner[x]
                                  /\ code'[x] = code[x] /\ hash'[x] = hash[x]
    BY <1>1, <2>1 DEF TablesTypeOK, DeliveryTypeOK
  <2>3. CarriedProperly(o)'
    BY <1>1, <2>1, <2>2 DEF CarriedProperly, LiveJob, OnTheShelf
  <2> QED  BY <2>1, <2>2, <2>3, OneOrderCarried DEF LiveJob
<1>4. CASE MarkDeliveryFailed(a, o)
  <2>1. /\ status[o] = "picked_up" /\ status' = [status EXCEPT ![o] = "delivery_failed"]
        /\ code' = [code EXCEPT ![o] = NoCode] /\ hash' = [hash EXCEPT ![o] = NoCode]
        /\ UNCHANGED <<runner, earned>>
    BY <1>4 DEF MarkDeliveryFailed, WipeCode
  <2>2. /\ status'[o] = "delivery_failed" /\ code'[o] = NoCode
        /\ \A x \in Order \ {o} : /\ status'[x] = status[x]
                                  /\ code'[x] = code[x] /\ hash'[x] = hash[x]
    BY <1>1, <2>1 DEF TablesTypeOK, DeliveryTypeOK
  <2>3. CarriedProperly(o)'
    BY <1>1, <2>1, <2>2 DEF CarriedProperly, LiveJob, OnTheShelf
  <2> QED  BY <2>1, <2>2, <2>3, OneOrderCarried DEF LiveJob
<1>5. ASSUME NEW g \in Code, Deliver(a, o, g) PROVE DeliveryInv'
  <2>1. /\ status[o] = "picked_up" /\ status' = [status EXCEPT ![o] = "delivered"]
        /\ code' = [code EXCEPT ![o] = NoCode]
        /\ earned' = [earned EXCEPT ![o] = IF @ = NoRunner THEN runner[o] ELSE @]
        /\ UNCHANGED <<runner, hash>>
    BY <1>5 DEF Deliver, CreditsRunner
  <2>2. earned[o] = NoRunner
    BY <1>1, <2>1 DEF CarriedProperly
  <2>3. /\ status'[o] = "delivered" /\ code'[o] = NoCode /\ earned'[o] = runner[o]
        /\ \A x \in Order \ {o} : /\ status'[x] = status[x]
                                  /\ code'[x] = code[x] /\ earned'[x] = earned[x]
    BY <1>1, <2>1, <2>2 DEF TablesTypeOK, DeliveryTypeOK
  <2>4. CarriedProperly(o)'
    BY <2>1, <2>3 DEF CarriedProperly, LiveJob, OnTheShelf
  <2> QED  BY <2>1, <2>3, <2>4, OneOrderCarried DEF LiveJob
<1> QED  BY <1>2, <1>3, <1>4, <1>5

\* All of the delivery functions.
LEMMA DeliverySteps ==
  ASSUME TypeOK, DeliveryInv, DeliveryStep
  PROVE  DeliveryInv'
<1>1. ASSUME NEW k \in Claim, FinishClaim(k) PROVE DeliveryInv'
  <2>1. claim[k][1] \in Runner /\ claim[k][2] \in Order
    BY <1>1 DEF FinishClaim, TypeOK, DeliveryTypeOK
  <2> QED  BY <1>1, <2>1, AssignmentsKeep DEF FinishClaim, Claimable
<1>2. ASSUME NEW o \in Order, NEW r \in Runner, Reassign(o, r) PROVE DeliveryInv'
  BY <1>2, AssignmentsKeep DEF Reassign
<1>3. ASSUME UNCHANGED <<tableVars, code, hash, earned>> PROVE DeliveryInv'
  BY <1>3, QuietMovesKeep DEF tableVars, orderVars, QuietStep, QuietMove
<1>4. ASSUME NEW r \in Runner, GoOnline(r) \/ GoOffline(r) PROVE DeliveryInv'
  BY <1>3, <1>4 DEF GoOnline, GoOffline
<1>5. ASSUME NEW k \in Claim,
             LoseClaim(k) \/ \E r \in Runner, o \in Order : BeginClaim(k, r, o)
      PROVE  DeliveryInv'
  BY <1>3, <1>5 DEF LoseClaim, BeginClaim
<1>6. ASSUME NEW o \in Order,
             AttemptsLapse(o) \/ \E a \in Runner \cup {Admin}, g \in Code : SpendGuess(a, o, g)
      PROVE  DeliveryInv'
  BY <1>3, <1>6 DEF AttemptsLapse, SpendGuess
<1> QED
  BY <1>1, <1>2, <1>4, <1>5, <1>6, JobStepsKeep DEF DeliveryStep, DeliveryNext

-----------------------------------------------------------------------------
(***************************************************************************)
(* The invariant and the theorems.                                         *)
(***************************************************************************)
\* The invariant is inductive, given the types and the pairs.
LEMMA DeliveryCorrect == Spec => []DeliveryInv
<1>1. Init => DeliveryInv
  BY DEF Init, TablesInit, DeliveryInit, DeliveryInv, CarriedProperly, NoSecondJob, LiveJob,
         OnTheShelf
<1>2. TypeOK /\ PairInv /\ DeliveryInv /\ [Next]_vars => DeliveryInv'
  <2> SUFFICES ASSUME TypeOK, PairInv, DeliveryInv, [Next]_vars PROVE DeliveryInv'
    OBVIOUS
  <2>1. CASE UNCHANGED vars
    BY <2>1, QuietMovesKeep
    DEF vars, tableVars, orderVars, deliveryVars, QuietStep, QuietMove
  <2>2. CASE CheckoutStep \/ PaymentsStep \/ PackingStep \/ StoreAdminStep
    BY <2>2, QuietMovesKeep, ShelfStepsAreQuiet
  <2>3. CASE RefundsStep
    BY <2>3, QuietMovesKeep, RefundsAreQuiet
  <2> QED  BY <2>1, <2>2, <2>3, DeliverySteps DEF Next
<1> QED  BY <1>1, <1>2, PairsCorrect, PTL DEF Spec

(* Two claims at once, a claim against a reassignment, a runner who is      *)
(* named while busy: nobody ever carries two orders.                       *)
THEOREM RunnersCarryOneOrder == Spec => []OneLiveJobEach
<1>1. DeliveryInv => OneLiveJobEach
  <2> SUFFICES ASSUME DeliveryInv, NEW r \in Runner PROVE Cardinality(LiveJobsOf(r)) <= 1
    BY DEF OneLiveJobEach
  <2>1. CASE LiveJobsOf(r) = {}
    BY <2>1, FS_EmptySet
  <2>2. CASE LiveJobsOf(r) # {}
    <3>1. PICK o : o \in LiveJobsOf(r)
      BY <2>2
    <3>2. LiveJobsOf(r) = {o}
      BY <3>1 DEF LiveJobsOf, DeliveryInv, NoSecondJob
    <3> QED  BY <3>2, FS_Singleton
  <2> QED  BY <2>1, <2>2
<1> QED  BY <1>1, DeliveryCorrect, PTL

(* A live job always has a runner, and the code its customer reads is the  *)
(* one the runner's guess is compared with, after any number of swaps,     *)
(* releases and failed attempts.                                           *)
THEOREM LiveJobsKeepTheirCode == Spec => []LiveJobsCanFinish
<1>1. DeliveryInv => LiveJobsCanFinish
  BY DEF DeliveryInv, CarriedProperly, LiveJobsCanFinish
<1> QED  BY <1>1, DeliveryCorrect, PTL

(* An order that is back on the shelf has neither runner nor hash, and a   *)
(* code is shown for live jobs and cancelled orders only.                  *)
THEOREM AssignmentsLeaveNothing == Spec => []NoStrayAssignment
<1>1. DeliveryInv => NoStrayAssignment
  BY DEF DeliveryInv, CarriedProperly, NoStrayAssignment, OnTheShelf
<1> QED  BY <1>1, DeliveryCorrect, PTL

(* Whoever confirms a delivery, the runner who carried the order is paid,  *)
(* once, and nobody is paid for an order that never arrived.               *)
THEOREM EveryDeliveryIsPaid == Spec => []EarningsMatchDeliveries
<1>1. DeliveryInv => EarningsMatchDeliveries
  BY DEF DeliveryInv, CarriedProperly, EarningsMatchDeliveries
<1> QED  BY <1>1, DeliveryCorrect, PTL

(* A live job changes hands by an administrator's decision only: a claim   *)
(* whose unlocked checks are out of date takes nobody's order away.        *)
THEOREM ClaimsTakeNothing == Spec => OnlyAdminSwapsRunner
<1> DEFINE Swaps == \A o \in Order :
                      status[o] \in LiveJob /\ runner'[o] \notin {runner[o], NoRunner} =>
                        actor'[o] = Admin
<1>1. ASSUME TypeOK, PairInv, [Next]_vars PROVE Swaps
  <2>1. TablesTypeOK /\ DeliveryTypeOK
    BY <1>1 DEF TypeOK
  <2>2. ASSUME UNCHANGED runner PROVE Swaps
    BY <2>2
  <2>3. ASSUME NEW k \in Claim, FinishClaim(k) PROVE Swaps
    <3>1. PICK o \in Order, r \in Runner : o = claim[k][2] /\ r = claim[k][1]
      BY <2>1, <2>3 DEF FinishClaim, DeliveryTypeOK
    <3>2. status[o] \notin LiveJob /\ runner' = [runner EXCEPT ![o] = r]
      BY <2>3, <3>1 DEF FinishClaim, Claimable, AssignTo, LiveJob
    <3> QED  BY <2>1, <3>2 DEF TablesTypeOK
  <2>4. ASSUME NEW o \in Order, NEW r \in Runner, Reassign(o, r) PROVE Swaps
    <3>1. /\ runner' = [runner EXCEPT ![o] = r] /\ actor' = [actor EXCEPT ![o] = Admin]
      BY <2>4 DEF Reassign, AssignTo
    <3> QED  BY <2>1, <3>1 DEF TablesTypeOK, DeliveryTypeOK
  <2>5. ASSUME NEW o \in Order, NEW a \in Runner \cup {Admin}, ReleaseJob(a, o) PROVE Swaps
    <3>1. runner' = [runner EXCEPT ![o] = NoRunner]
      BY <2>5 DEF ReleaseJob
    <3> QED  BY <2>1, <3>1 DEF TablesTypeOK
  <2>6. CASE DeliveryStep
    <3>1. ASSUME NEW o \in Order, NEW a \in Runner \cup {Admin},
                 \/ MarkPickedUp(a, o)
                 \/ MarkDeliveryFailed(a, o)
                 \/ \E g \in Code : Deliver(a, o, g) \/ SpendGuess(a, o, g)
          PROVE  Swaps
      BY <2>2, <3>1
      DEF MarkPickedUp, MarkDeliveryFailed, Deliver, SpendGuess, tableVars, orderVars
    <3>2. ASSUME UNCHANGED tableVars PROVE Swaps
      BY <2>2, <3>2 DEF tableVars, orderVars
    <3> QED
      BY <2>3, <2>4, <2>5, <2>6, <3>1, <3>2
      DEF DeliveryStep, DeliveryNext, GoOnline, GoOffline, BeginClaim, LoseClaim, AttemptsLapse
  <2>7. CASE UNCHANGED vars
    BY <2>2, <2>7 DEF vars, tableVars, orderVars
  <2>8. CASE ~DeliveryStep /\ Next
    BY <1>1, <2>2, <2>8, ShelfStepsAreQuiet, RefundsAreQuiet DEF Next, QuietStep
  <2> QED  BY <1>1, <2>6, <2>7, <2>8
<1>2. TypeOK /\ PairInv /\ [Next]_vars => [Swaps]_vars
  BY <1>1
<1> QED  BY <1>2, PairsCorrect, PTL DEF Spec, OnlyAdminSwapsRunner
=============================================================================
