------------------------------ MODULE Packing ------------------------------
(***************************************************************************)
(* The store's two fulfilment operations.  Each locks the order row first, *)
(* so each is one step.                                                    *)
(***************************************************************************)
EXTENDS OrderTables

CONSTANT
  Shortage  \* what packers may report: [order, product, available, delist]

ASSUME ShortageAssumption ==
  \A s \in Shortage : /\ s.order \in Order /\ s.product \in Product
                      /\ s.available \in Nat /\ s.delist \in BOOLEAN

(***************************************************************************)
(* process_mark_packed: the units an order still holds leave both the      *)
(* reservation and the shelf.  A second call on a packed order changes     *)
(* nothing.                                                                *)
(***************************************************************************)
ConsumedAsOrdered(o, p) == Cart[o][p]  \* a fault: qty for fulfilled_qty

Consumed(o, p) == Fulfilled(o, p)

MarkPacked(o) ==
  /\ status[o] = "confirmed"
  /\ reserved' = [p \in Product |-> MaxOf(reserved[p] - Consumed(o, p), 0)]
  /\ onHand'   = [p \in Product |-> MaxOf(onHand[p] - Consumed(o, p), 0)]
  /\ status'   = [status EXCEPT ![o] = "packed"]
  /\ packedAt' = [packedAt EXCEPT ![o] = TRUE]
  /\ UNCHANGED <<paymentStatus, payable, applied, runner, paymentVars, short, listed,
                 storeVars, walletVars>>
  /\ Commits(o)

(***************************************************************************)
(* process_stock_out: the value of the missing units goes to the wallet;   *)
(* payments.refunded_amount takes the part the gateway still holds, and    *)
(* the order shrinks by the value, payable first, then wallet_applied.     *)
(***************************************************************************)
Missing(s)      == Cart[s.order][s.product] - s.available
MissingValue(s) == Missing(s) * Price[s.product]
GatewayShare(s) == MinOf(MissingValue(s), MaxOf(amount[s.order] - refunded[s.order], 0))
PayableCut(s)   == MinOf(MissingValue(s), payable[s.order])

FirstShortage(s) == short[s.order][s.product] = 0

FreesTheLine(s) == Cart[s.order][s.product]  \* a fault: what is available goes, too

\* The units a shortage frees.
Frees(s) == Missing(s)

AfterShortage(s) ==
  IF GatewayShare(s) = 0 THEN pay[s.order]
  ELSE IF refunded[s.order] + GatewayShare(s) = amount[s.order] THEN "refunded"
  ELSE "partially_refunded"

\* A report the function does not reject by its own checks.
ShortageIsValid(s) ==
  /\ status[s.order] = "confirmed"
  /\ FirstShortage(s)
  /\ Missing(s) > 0
  /\ GatewayShare(s) > 0 => pay[s.order] \in {"captured", "partially_refunded"}

StockOut(s) ==
  LET o == s.order IN
  /\ ShortageIsValid(s)
  /\ refunded' = [refunded EXCEPT ![o] = @ + GatewayShare(s)]
  /\ pay'      = [pay EXCEPT ![o] = AfterShortage(s)]
  /\ paymentStatus' =
       [paymentStatus EXCEPT ![o] = IF GatewayShare(s) = 0 THEN @ ELSE AfterShortage(s)]
  /\ WalletMoves(o, MissingValue(s))
  /\ reserved' = [reserved EXCEPT ![s.product] = MaxOf(@ - Frees(s), 0)]
  /\ listed'   = [listed EXCEPT ![s.product] = @ /\ ~s.delist]
  /\ short'    = [short EXCEPT ![o][s.product] = Missing(s)]
  /\ payable'  = [payable EXCEPT ![o] = @ - PayableCut(s)]
  /\ applied'  = [applied EXCEPT ![o] = @ - (MissingValue(s) - PayableCut(s))]
  /\ UNCHANGED <<status, packedAt, runner, amount, onHand, storeVars>>
  /\ Commits(o)

PackingNext ==
  \/ \E o \in Order : MarkPacked(o)
  \/ \E s \in Shortage : StockOut(s)
=============================================================================
