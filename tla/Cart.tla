-------------------------------- MODULE Cart --------------------------------
(***************************************************************************)
(* The customer's cart: pure operations on quantities, and what the joined *)
(* view of cart and catalog allows.  A cart maps every product to its      *)
(* quantity; a product that is not in it has none.                         *)
(***************************************************************************)
EXTENDS Integers, Folds, Functions

CONSTANTS
  Product,
  MaxQty,   \* MAX_QTY_PER_LINE, 20 in the code
  Pending   \* a catalog that has never been loaded

ASSUME CartAssumption == MaxQty \in Nat \ {0}

Empty == [p \in Product |-> 0]
Carts == [Product -> 0 .. MaxQty]

\* What the catalog says of a product; "missing" when it does not list it.
Availability == {"available", "sold_out", "missing"}

Clamp(n) == IF n < 0 THEN 0 ELSE IF n > MaxQty THEN MaxQty ELSE n

RemoveItem(c, p) == [c EXCEPT ![p] = 0]

AddItem(c, p, n) == IF Clamp(c[p] + n) = 0 THEN c ELSE [c EXCEPT ![p] = Clamp(c[p] + n)]

SetItemQty(c, p, n) == [c EXCEPT ![p] = Clamp(n)]

IncrementItem(c, p) == [c EXCEPT ![p] = Clamp(c[p] + 1)]

DecrementItem(c, p) == IF c[p] - 1 <= 0 THEN RemoveItem(c, p) ELSE [c EXCEPT ![p] = c[p] - 1]

CartCount(c) == FoldFunction(LAMBDA n, sum : n + sum, 0, c)

\* One tap on the control of a product: Add while it is not in the cart, the
\* stepper from then on; the cart screen steps through SetItemQty.
Taps(c, p) ==
  IF c[p] = 0 THEN {AddItem(c, p, 1)}
  ELSE {IncrementItem(c, p), DecrementItem(c, p)}

CartRowTaps(c, p) ==
  IF c[p] = 0 THEN {}
  ELSE {SetItemQty(c, p, c[p] + 1), SetItemQty(c, p, c[p] - 1), RemoveItem(c, p)}

\* useCart.canCheckout, against the catalog the app has in its cache.
CanCheckout(c, catalog) ==
  /\ CartCount(c) > 0
  /\ catalog # Pending
  /\ \A p \in Product : c[p] > 0 => catalog[p] = "available"
=============================================================================
