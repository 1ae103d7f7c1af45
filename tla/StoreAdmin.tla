----------------------------- MODULE StoreAdmin -----------------------------
(***************************************************************************)
(* What an administrator changes under the running orders: the store's     *)
(* open flag and queue limit, a shelf count, a product's listing.          *)
(***************************************************************************)
EXTENDS OrderTables

CONSTANTS
  OpenFlag,   \* values of stores.is_open an administrator may set
  QueueLimit, \* queue limits an administrator may enter
  Count,      \* shelf counts an administrator may enter
  Correctable \* products whose count or listing may be edited

ASSUME AdminAssumption ==
  /\ OpenFlag \subseteq BOOLEAN /\ QueueLimit \subseteq Nat
  /\ Count \subseteq Nat /\ Correctable \subseteq Product

VARIABLE
  corrected   \* net delta of the inventory.adjusted audit rows, per product

StoreAdminInit == corrected = [p \in Product |-> 0]

\* A limit that is left out stays what it is; orders in the queue stay, too.
SetServicePause(open, limit) ==
  /\ limit >= 1
  /\ isOpen' = open
  /\ queueLimit' = limit
  /\ widest' = MaxOf(widest, limit)
  /\ UNCHANGED <<orderVars, paymentVars, short, onHand, reserved, listed, walletVars,
                 corrected>>

\* process_admin_adjust_inventory: never below what live orders reserve.
CountCoversReserved(p, n) == n >= reserved[p]

AdjustInventory(p, n) ==
  /\ CountCoversReserved(p, n)
  /\ onHand'    = [onHand EXCEPT ![p] = n]
  /\ corrected' = [corrected EXCEPT ![p] = @ + n - onHand[p]]
  /\ UNCHANGED <<orderVars, paymentVars, short, reserved, listed, storeVars, walletVars>>
  /\ StockChecksHold

\* process_admin_upsert_product on an existing product, the listing only.
SetListed(p, l) ==
  /\ listed' = [listed EXCEPT ![p] = l]
  /\ UNCHANGED <<orderVars, paymentVars, short, onHand, reserved, storeVars, walletVars,
                 corrected>>

StoreAdminNext ==
  \/ \E open \in OpenFlag, limit \in QueueLimit \cup {queueLimit} : SetServicePause(open, limit)
  \/ \E p \in Correctable, n \in Count : AdjustInventory(p, n)
  \/ \E p \in Correctable, l \in BOOLEAN : SetListed(p, l)
=============================================================================
