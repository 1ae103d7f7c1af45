----------------------------- MODULE CustomerApp -----------------------------
(***************************************************************************)
(* One customer's phone, from the cart to the order on screen, against     *)
(* create_order as it answers from outside.                                *)
(*                                                                         *)
(* A checkout screen draws an idempotency key when it is mounted.  Its     *)
(* requests may be answered, lost before or after the server has served    *)
(* them, or outlive the screen; an answer acts on the cart and on the      *)
(* navigation wherever the customer is by then.  A request is the items    *)
(* and the choices it carries; a key also names the order it creates.      *)
(***************************************************************************)
EXTENDS Cart, FiniteSets

CONSTANTS
  Order,          \* idempotency keys, and the orders made under them
  Address, NoAddress,
  Code, NoCode,   \* promo codes
  WalletBalance,
  NoVisit,        \* no checkout screen is mounted
  NoOrder,
  MaxCalls        \* bound: create_order requests under way

ASSUME CustomerAppAssumption == NoOrder \notin Order

VARIABLES
  pair,     \* the orders, as OrderStateMachine has them
  items,    \* the persisted cart
  catalog,  \* the availability in the cache, Pending before the first load
  saved,    \* addresses on file
  screen,   \* "shop", "cart", "checkout" or "order"
  visit,    \* the mounted checkout screen
  drawn,    \* idempotency keys drawn
  calls,    \* requests under way
  request,  \* [Order -> what the order was created for]
  by,       \* history: [Order -> the attempt that created it]
  opened    \* the order on screen, with what its answer had been asked for

shopVars   == <<items, catalog, saved>>
serverVars == <<pair, request, by>>
vars       == <<shopVars, screen, visit, drawn, calls, serverVars, opened>>

Orders == INSTANCE OrderStateMachine

NoRequest == [items |-> Empty, address |-> NoAddress, promo |-> NoCode, wallet |-> FALSE]
NoScreen  == [order |-> NoOrder, asks |-> NoRequest]

Init ==
  /\ Orders!Init
  /\ items = Empty /\ catalog = Pending /\ saved = {}
  /\ screen = "shop" /\ visit = NoVisit /\ drawn = {} /\ calls = {}
  /\ request = [k \in Order |-> NoRequest] /\ by = [k \in Order |-> NoOrder]
  /\ opened = NoScreen

(***************************************************************************)
(* The shop: the cart is edited from the catalog or from its own screen,   *)
(* against whatever availability the cache holds.                          *)
(***************************************************************************)
EditsCart ==
  /\ \E p \in Product : \/ screen = "shop" /\ items' \in Taps(items, p)
                        \/ screen = "cart" /\ items' \in CartRowTaps(items, p)
  /\ UNCHANGED <<catalog, saved, screen, visit, drawn, calls, serverVars, opened>>

\* Whatever the store has by then; the cache can be behind it by the time an
\* order is placed.
LoadsCatalog ==
  /\ catalog' \in [Product -> Availability]
  /\ UNCHANGED <<items, saved, screen, visit, drawn, calls, serverVars, opened>>

\* The cart bar leads to the cart, the back button out of it.
TurnsToCart ==
  /\ \/ screen = "shop" /\ CartCount(items) > 0 /\ screen' = "cart"
     \/ screen = "cart" /\ screen' = "shop"
  /\ UNCHANGED <<shopVars, visit, drawn, calls, serverVars, opened>>

(***************************************************************************)
(* The checkout screen.  Until the customer picks one, the address is the  *)
(* first of those on file.                                                 *)
(***************************************************************************)
NewVisit(k) ==
  [key |-> k, attempt |-> k, status |-> "idle", code |-> "none",
   picked |-> NoAddress, promo |-> NoCode, wallet |-> FALSE]

Mounts ==
  /\ screen = "cart" /\ CanCheckout(items, catalog)
  /\ \E k \in Order \ drawn :
       /\ drawn' = drawn \cup {k}
       /\ visit' = NewVisit(k)
  /\ screen' = "checkout"
  /\ UNCHANGED <<shopVars, calls, serverVars, opened>>

\* The back button, or the link an emptied cart leaves.
LeavesCheckout ==
  /\ screen = "checkout"
  /\ visit' = NoVisit
  /\ screen' = IF items = Empty THEN "shop" ELSE "cart"
  /\ UNCHANGED <<shopVars, drawn, calls, serverVars, opened>>

SavesAddress ==
  /\ screen = "checkout"
  /\ \E a \in Address \ saved : saved' = saved \cup {a}
  /\ UNCHANGED <<items, catalog, screen, visit, drawn, calls, serverVars, opened>>

\* The choices can change while a request is under way.
PicksAddress == \E a \in saved : visit' = [visit EXCEPT !.picked = a]

\* validate_promo previews a code; one it does not know takes the last away.
AppliesPromo == \E c \in Code \cup {NoCode} : visit' = [visit EXCEPT !.promo = c]

SwitchesWallet == WalletBalance > 0 /\ visit' = [visit EXCEPT !.wallet = ~@]

Chooses ==
  /\ screen = "checkout" /\ items # Empty
  /\ PicksAddress \/ AppliesPromo \/ SwitchesWallet
  /\ UNCHANGED <<shopVars, screen, drawn, calls, serverVars, opened>>

AddressId ==
  IF visit.picked # NoAddress \/ saved = {} THEN visit.picked ELSE CHOOSE a \in saved : TRUE

Asks == [items |-> items, address |-> AddressId, promo |-> visit.promo, wallet |-> visit.wallet]

(***************************************************************************)
(* useCreateOrder.  One key serves every request of an attempt; "Start     *)
(* a new checkout" draws another.                                          *)
(***************************************************************************)
KeyOfItsOwn ==  \* a fault: a retry draws a key of its own
  IF visit.status = "error" THEN \E k \in Order \ drawn : visit'.key = k /\ drawn' = drawn \cup {k}
  ELSE visit'.key = visit.key /\ drawn' = drawn

AttemptsKey == visit'.key = visit.key /\ drawn' = drawn

Submits ==
  /\ screen = "checkout" /\ items # Empty /\ Cardinality(calls) < MaxCalls
  /\ AddressId # NoAddress /\ visit.status # "submitting"
  /\ visit' \in {[visit EXCEPT !.key = k, !.status = "submitting", !.code = "none"] : k \in Order}
  /\ AttemptsKey
  /\ calls' = calls \cup {[key |-> visit'.key, attempt |-> visit.attempt, asks |-> Asks,
                           reply |-> "none", live |-> TRUE]}
  /\ UNCHANGED <<shopVars, screen, serverVars, opened>>

StartsNewCheckout ==
  /\ screen = "checkout" /\ items # Empty
  /\ visit.status = "error" /\ visit.code = "ORDER_ALREADY_EXISTS"
  /\ \E k \in Order \ drawn :
       /\ drawn' = drawn \cup {k}
       /\ visit' = [visit EXCEPT !.key = k, !.attempt = k, !.status = "idle", !.code = "none"]
  /\ UNCHANGED <<shopVars, screen, calls, serverVars, opened>>

(***************************************************************************)
(* create_order from outside: it refuses, creates the order under the key, *)
(* or takes up the one that is there.  "intent" and "plain" are answers    *)
(* with and without payment parameters; a wallet that covers everything    *)
(* confirms at once.  All error codes but one leave the customer the same  *)
(* buttons: they are "failed".                                             *)
(***************************************************************************)
OrdersOnFile == {k \in Order : by[k] # NoOrder}

Answers(c, reply) ==
  calls' = IF c.live THEN (calls \ {c}) \cup {[c EXCEPT !.reply = reply]} ELSE calls \ {c}

Refuses(c) ==
  /\ Answers(c, "failed")
  /\ UNCHANGED serverVars

Creates(c) ==
  /\ c.key \notin OrdersOnFile
  /\ Orders!Place(c.key)
  /\ request' = [request EXCEPT ![c.key] = c.asks]
  /\ by'      = [by EXCEPT ![c.key] = c.attempt]
  /\ \/ /\ pair'[c.key][1] = "created"
        /\ \E reply \in {"intent", "plain", "failed"} : Answers(c, reply)
     \/ /\ pair'[c.key][1] = "confirmed" /\ c.asks.wallet
        /\ Answers(c, "plain")

SameKey(c) == TRUE  \* a fault: the request hash is not compared

SameRequest(c) == request[c.key] = c.asks

\* Of an order that still waits for a payment, or has gone past confirmed.
ResumedAs(c) ==
  IF pair[c.key][1] \in {"confirmed", "payment_failed", "cancelled"} THEN {"plain"}
  ELSE {"intent", "plain", "failed"}

TakesUp(c) ==
  /\ c.key \in OrdersOnFile
  /\ \/ SameRequest(c) /\ \E reply \in ResumedAs(c) : Answers(c, reply)
     \/ ~SameRequest(c) /\ Answers(c, "ORDER_ALREADY_EXISTS")
  /\ UNCHANGED serverVars

Serves(c) ==
  /\ c.reply = "none"
  /\ Refuses(c) \/ Creates(c) \/ TakesUp(c)
  /\ UNCHANGED <<shopVars, screen, visit, drawn, opened>>

(***************************************************************************)
(* The answer at the phone.  A good one empties the cart and replaces the  *)
(* screen on top, whichever it is; an error is shown if the checkout that  *)
(* asked is still there.                                                   *)
(***************************************************************************)
OrderArrives(c) ==
  /\ c.live /\ c.reply \in {"intent", "plain"}
  /\ calls' = calls \ {c}
  /\ items' = Empty
  /\ screen' = "order" /\ visit' = NoVisit
  /\ opened' = [order |-> c.key, asks |-> c.asks]
  /\ UNCHANGED <<catalog, saved, drawn, serverVars>>

ShowsError(c, code) ==
  /\ visit' = IF visit # NoVisit /\ visit.attempt = c.attempt
              THEN [visit EXCEPT !.status = "error", !.code = code] ELSE visit
  /\ UNCHANGED <<shopVars, screen, drawn, serverVars, opened>>

ErrorArrives(c) ==
  /\ c.live /\ c.reply \in {"failed", "ORDER_ALREADY_EXISTS"}
  /\ calls' = calls \ {c}
  /\ ShowsError(c, c.reply)

\* The connection breaks; the request may have been served, or be served yet.
ConnectionBreaks(c) ==
  /\ c.live
  /\ calls' = (calls \ {c}) \cup (IF c.reply = "none" THEN {[c EXCEPT !.live = FALSE]} ELSE {})
  /\ ShowsError(c, "failed")

(***************************************************************************)
(* Moving on: from the order to the shop, back to an order from the        *)
(* history, and a relaunch, which keeps the cart and the catalog only.     *)
(***************************************************************************)
LeavesOrder ==
  /\ screen = "order"
  /\ screen' = "shop" /\ opened' = NoScreen
  /\ UNCHANGED <<shopVars, visit, drawn, calls, serverVars>>

OpensFromHistory ==
  /\ screen = "shop"
  /\ \E k \in OrdersOnFile : opened' = [order |-> k, asks |-> request[k]]
  /\ screen' = "order"
  /\ UNCHANGED <<shopVars, visit, drawn, calls, serverVars>>

Relaunches ==
  /\ calls' = {[c EXCEPT !.live = FALSE] : c \in {d \in calls : d.reply = "none"}}
  /\ screen' = "shop" /\ visit' = NoVisit /\ opened' = NoScreen
  /\ UNCHANGED <<shopVars, drawn, serverVars>>

\* The order goes on without the phone.  Bound: what lies beyond packed is
\* answered like packed.
OrderMoves(k) ==
  /\ \/ Orders!Confirm(k) \/ Orders!Fail({k}) \/ Orders!Cancel(k)
     \/ Orders!Advance(k) /\ pair[k][1] = "confirmed"
  /\ UNCHANGED <<shopVars, screen, visit, drawn, calls, request, by, opened>>

Next ==
  \/ EditsCart \/ LoadsCatalog \/ TurnsToCart
  \/ Mounts \/ LeavesCheckout \/ SavesAddress \/ Chooses \/ Submits \/ StartsNewCheckout
  \/ \E c \in calls : Serves(c) \/ OrderArrives(c) \/ ErrorArrives(c) \/ ConnectionBreaks(c)
  \/ LeavesOrder \/ OpensFromHistory \/ Relaunches
  \/ \E k \in Order : OrderMoves(k)

Spec == Init /\ [][Next]_vars

(***************************************************************************)
(* However often a checkout is submitted, retried after a lost answer, or  *)
(* served twice, one attempt makes one order.                              *)
(***************************************************************************)
OneOrderPerAttempt == \A j, k \in Order : by[j] = by[k] /\ by[j] # NoOrder => j = k

(***************************************************************************)
(* The order a checkout opens, having emptied the cart for it, is for the  *)
(* items, the address, the promo and the wallet choice its customer sent   *)
(* last, although all of them can change between two tries of one key.     *)
(***************************************************************************)
OpensWhatWasAsked == opened.order # NoOrder => request[opened.order] = opened.asks
=============================================================================
