------------------------------ MODULE Refunds ------------------------------
(***************************************************************************)
(* process_refund and process_admin_cancel_order.  Both read the order's   *)
(* status without a lock and then wait for the profile and payment rows:   *)
(* a call keeps the status it saw until it writes.                         *)
(***************************************************************************)
EXTENDS OrderTables

CONSTANTS
  Desk,          \* concurrent refund calls
  RefundKey,     \* idempotency keys
  PartialAmount  \* amounts an operator types; Whole stands for "the rest"

Whole == 0
ASSUME RefundAssumption == PartialAmount \subseteq Nat \ {0}

VARIABLES
  desk,      \* the call each desk is working on
  usedKeys,  \* keys with a refunds row
  repaid     \* sum of refunds.amount of one order

refundsVars == <<desk, usedKeys, repaid>>

IdleDesk == [key |-> "none", order |-> "none", amount |-> 0, saw |-> "none"]

RefundsInit ==
  /\ desk = [d \in Desk |-> IdleDesk]
  /\ usedKeys = {}
  /\ repaid = [o \in Order |-> 0]

(***************************************************************************)
(* The unlocked half.  cancel says which function was called: the admin    *)
(* cancellation asks for the whole balance and checks the rules table.     *)
(***************************************************************************)
BeginRefund(d, k, o, a, cancel) ==
  /\ desk[d] = IdleDesk
  /\ k \notin usedKeys
  /\ status[o] # "absent"
  /\ cancel => a = Whole /\ AdminMay(status[o], "cancelled")
  /\ desk' = [desk EXCEPT ![d] = [key |-> k, order |-> o, amount |-> a, saw |-> status[o]]]
  /\ UNCHANGED <<tableVars, usedKeys, repaid>>

Remaining(o) == amount[o] - refunded[o]
Asked(r)     == IF r.amount = Whole THEN Remaining(r.order) ELSE r.amount
IsFull(r)    == Asked(r) = Remaining(r.order)

AnyKey(r) == TRUE  \* a fault: refunds.idempotency_key is not unique

KeyIsFree(r) == r.key \notin usedKeys

RefundIsDue(r) ==
  /\ r # IdleDesk
  /\ KeyIsFree(r)
  /\ HasCapture(pay[r.order])
  /\ Asked(r) > 0 /\ Asked(r) <= Remaining(r.order)

PaidBackAsPart(r) ==  \* a fault: earlier refunds are not counted in
  IF Asked(r) = amount[r.order] THEN "refunded" ELSE "partially_refunded"

PaidBackAs(r) == IF IsFull(r) THEN "refunded" ELSE "partially_refunded"

(***************************************************************************)
(* The money side both outcomes share.                                     *)
(***************************************************************************)
PayBack(d) ==
  LET r == desk[d] IN
  /\ RefundIsDue(r)
  /\ refunded'  = [refunded EXCEPT ![r.order] = @ + Asked(r)]
  /\ pay'       = [pay EXCEPT ![r.order] = PaidBackAs(r)]
  /\ WalletMoves(r.order, Asked(r))
  /\ usedKeys'  = usedKeys \cup {r.key}
  /\ repaid'    = [repaid EXCEPT ![r.order] = @ + Asked(r)]
  /\ desk'      = [desk EXCEPT ![d] = IdleDesk]

RefundPart(d) ==
  LET o == desk[d].order IN
  /\ PayBack(d) /\ ~IsFull(desk[d])
  /\ paymentStatus' = [paymentStatus EXCEPT ![o] = "partially_refunded"]
  /\ UNCHANGED <<status, payable, applied, packedAt, runner, amount, short, stockVars>>
  /\ Commits(o)

(***************************************************************************)
(* A full refund cancels the order, and releases the order's quantities    *)
(* when the status it saw was "confirmed".  Seen in any other status the   *)
(* call raises.                                                            *)
(***************************************************************************)
CancelsFrom == {"confirmed", "assigned", "delivery_failed"}
ReleasesNever(s) == FALSE  \* a fault

ReleasesFrom(s) == s = "confirmed"

RefundAndCancel(d) ==
  LET r == desk[d]
      o == r.order
  IN
  /\ PayBack(d) /\ IsFull(r)
  /\ r.saw \in CancelsFrom
  /\ status'        = [status EXCEPT ![o] = "cancelled"]
  /\ paymentStatus' = [paymentStatus EXCEPT ![o] = "refunded"]
  /\ reserved' = IF ReleasesFrom(r.saw)
                 THEN [p \in Product |-> MaxOf(reserved[p] - Cart[o][p], 0)]
                 ELSE reserved
  /\ UNCHANGED <<payable, applied, packedAt, runner, amount, short, onHand, listed, storeVars>>
  /\ Commits(o)

(***************************************************************************)
(* The call raised, found its key taken by a concurrent duplicate, or its  *)
(* function died: nothing was written.                                     *)
(***************************************************************************)
DropRefund(d) ==
  /\ desk[d] # IdleDesk
  /\ desk' = [desk EXCEPT ![d] = IdleDesk]
  /\ UNCHANGED <<tableVars, usedKeys, repaid>>

RefundsNext ==
  \E d \in Desk :
    \/ \E k \in RefundKey, o \in Order, a \in PartialAmount \cup {Whole}, cancel \in BOOLEAN :
         BeginRefund(d, k, o, a, cancel)
    \/ RefundPart(d)
    \/ RefundAndCancel(d)
    \/ DropRefund(d)
=============================================================================
