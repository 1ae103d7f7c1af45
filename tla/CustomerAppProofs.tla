-------------------------- MODULE CustomerAppProofs --------------------------
(***************************************************************************)
(* Checkouts, for any number of keys, products, addresses and requests     *)
(* under way: what a customer gets is one order for each attempt, and the  *)
(* one they asked for.                                                     *)
(***************************************************************************)
EXTENDS CustomerApp, TLAPS

-----------------------------------------------------------------------------
(***************************************************************************)
(* Types.                                                                  *)
(***************************************************************************)
Request ==
  [items : Carts, address : Address \cup {NoAddress}, promo : Code \cup {NoCode}, wallet : BOOLEAN]

Visit ==
  [key : Order, attempt : Order, status : {"idle", "submitting", "error"},
   code : {"none", "failed", "ORDER_ALREADY_EXISTS"}, picked : Address \cup {NoAddress},
   promo : Code \cup {NoCode}, wallet : BOOLEAN]

CreateOrderCall ==
  [key : Order, attempt : Order, asks : Request,
   reply : {"none", "intent", "plain", "failed", "ORDER_ALREADY_EXISTS"}, live : BOOLEAN]

AppTypeOK ==
  /\ items \in Carts /\ saved \subseteq Address
  /\ visit \in Visit \cup {NoVisit}
  /\ screen = "checkout" => visit \in Visit
  /\ calls \subseteq CreateOrderCall
  /\ request \in [Order -> Request] /\ by \in [Order -> Order \cup {NoOrder}]
  /\ opened \in [order : Order \cup {NoOrder}, asks : Request]

\* The limits of a line hold after every tap.
LEMMA TapsStayInCarts ==
  ASSUME NEW c \in Carts, NEW p \in Product
  PROVE  Taps(c, p) \subseteq Carts /\ CartRowTaps(c, p) \subseteq Carts
<1>1. MaxQty \in Nat /\ \A n \in Int : Clamp(n) \in 0 .. MaxQty
  BY CartAssumption DEF Clamp
<1>2. \A n \in 0 .. MaxQty : [c EXCEPT ![p] = n] \in Carts
  BY DEF Carts
<1>3. c[p] \in 0 .. MaxQty
  BY DEF Carts
<1>4. /\ Clamp(c[p] + 1) \in 0 .. MaxQty /\ Clamp(c[p] - 1) \in 0 .. MaxQty
      /\ 0 \in 0 .. MaxQty
      /\ c[p] - 1 > 0 => c[p] - 1 \in 0 .. MaxQty
  BY <1>1, <1>3
<1>5. ~(c[p] - 1 <= 0) => c[p] - 1 > 0
  BY <1>1, <1>3
<1>6. /\ AddItem(c, p, 1) \in Carts /\ IncrementItem(c, p) \in Carts
      /\ DecrementItem(c, p) \in Carts /\ RemoveItem(c, p) \in Carts
      /\ SetItemQty(c, p, c[p] + 1) \in Carts /\ SetItemQty(c, p, c[p] - 1) \in Carts
  BY <1>2, <1>4, <1>5 DEF AddItem, IncrementItem, DecrementItem, RemoveItem, SetItemQty
<1> QED  BY <1>6 DEF Taps, CartRowTaps

\* What the checkout screen would send now.
LEMMA AsksType ==
  ASSUME AppTypeOK, visit \in Visit
  PROVE  Asks \in Request
<1>1. AddressId \in Address \cup {NoAddress}
  BY DEF AddressId, AppTypeOK, Visit
<1> QED  BY <1>1 DEF Asks, Request, AppTypeOK, Visit

-----------------------------------------------------------------------------
(***************************************************************************)
(* An attempt is named by the key it was begun with and keeps it; every    *)
(* good answer and every open order is about an order that is on file for  *)
(* what was asked.                                                         *)
(***************************************************************************)
KeysAreKept ==
  /\ screen = "checkout" => visit.key = visit.attempt
  /\ \A c \in calls : c.key = c.attempt
  /\ \A k \in Order : by[k] \in {k, NoOrder}

OnFile(k, asks) == by[k] # NoOrder /\ request[k] = asks

AnswersAreKept ==
  /\ \A c \in calls : c.reply \in {"intent", "plain"} => OnFile(c.key, c.asks)
  /\ opened.order # NoOrder => OnFile(opened.order, opened.asks)

AppInv == AppTypeOK /\ KeysAreKept /\ AnswersAreKept

\* An answer is given to one call, or nobody waits for it any more.
LEMMA AnswerKeeps ==
  ASSUME AppTypeOK, NEW c \in calls,
         NEW reply \in {"none", "intent", "plain", "failed", "ORDER_ALREADY_EXISTS"}, Answers(c, reply)
  PROVE  /\ calls' \subseteq CreateOrderCall
         /\ \A d \in calls' : \/ d \in calls
                              \/ /\ d.key = c.key /\ d.attempt = c.attempt
                                 /\ d.asks = c.asks /\ d.reply = reply
<1>1. c \in CreateOrderCall
  BY DEF AppTypeOK
<1>2. [c EXCEPT !.reply = reply] \in CreateOrderCall
  BY <1>1 DEF CreateOrderCall
<1>3. /\ [c EXCEPT !.reply = reply].key = c.key /\ [c EXCEPT !.reply = reply].attempt = c.attempt
      /\ [c EXCEPT !.reply = reply].asks = c.asks /\ [c EXCEPT !.reply = reply].reply = reply
  BY <1>1 DEF CreateOrderCall
<1> QED  BY <1>2, <1>3 DEF Answers, AppTypeOK

\* The server's part: an order is created once under its key, with what the
\* call asks for, and a good answer is about the order under the call's key.
LEMMA ServesKeeps ==
  ASSUME AppInv, NEW c \in calls, Serves(c)
  PROVE  AppInv'
<1>1. AppTypeOK /\ KeysAreKept /\ AnswersAreKept /\ c \in CreateOrderCall
  BY DEF AppInv, AppTypeOK
<1>2. UNCHANGED <<items, saved, screen, visit, opened>>
  BY DEF Serves, shopVars
<1>3. CASE Refuses(c)
  <2>1. Answers(c, "failed") /\ UNCHANGED <<request, by>>
    BY <1>3 DEF Refuses, serverVars
  <2>2. AppTypeOK'
    BY <1>1, <1>2, <2>1, AnswerKeeps DEF AppTypeOK
  <2>3. KeysAreKept' /\ AnswersAreKept'
    BY <1>1, <1>2, <2>1, AnswerKeeps DEF KeysAreKept, AnswersAreKept, OnFile
  <2> QED  BY <2>2, <2>3 DEF AppInv
<1>4. CASE Creates(c)
  <2>1. /\ c.key \in Order /\ by[c.key] = NoOrder /\ c.asks \in Request /\ c.attempt \in Order
        /\ request' = [request EXCEPT ![c.key] = c.asks]
        /\ by' = [by EXCEPT ![c.key] = c.attempt]
    BY <1>1, <1>4 DEF Creates, OrdersOnFile, CreateOrderCall
  <2>2. PICK reply \in {"intent", "plain", "failed"} : Answers(c, reply)
    BY <1>4 DEF Creates
  <2>3. \A k, asks : k \in Order /\ OnFile(k, asks) => OnFile(k, asks)'
    BY <1>1, <2>1 DEF OnFile, AppTypeOK
  <2>4. OnFile(c.key, c.asks)'
    BY <1>1, <2>1, CustomerAppAssumption DEF OnFile, AppTypeOK
  <2>5. AppTypeOK'
    BY <1>1, <1>2, <2>1, <2>2, AnswerKeeps DEF AppTypeOK
  <2>6. KeysAreKept'
    BY <1>1, <1>2, <2>1, <2>2, AnswerKeeps DEF KeysAreKept, AppTypeOK
  <2>7. \A d \in calls : d.key \in Order
    BY <1>1 DEF AppTypeOK, CreateOrderCall
  <2>8. opened.order # NoOrder => opened.order \in Order
    BY <1>1 DEF AppTypeOK
  <2>9. opened'.order = opened.order /\ opened'.asks = opened.asks
    BY <1>2
  <2>10. ASSUME NEW d \in calls', d.reply \in {"intent", "plain"} PROVE OnFile(d.key, d.asks)'
    <3>1. CASE d \in calls
      BY <1>1, <2>3, <2>7, <2>10, <3>1 DEF AnswersAreKept
    <3>2. CASE d.key = c.key /\ d.asks = c.asks
      BY <2>4, <3>2
    <3> QED  BY <1>1, <2>2, <3>1, <3>2, AnswerKeeps
  <2>11. AnswersAreKept'
    BY <1>1, <2>3, <2>8, <2>9, <2>10 DEF AnswersAreKept
  <2> QED  BY <2>5, <2>6, <2>11 DEF AppInv
<1>5. CASE TakesUp(c)
  <2>1. UNCHANGED <<request, by>> /\ by[c.key] # NoOrder
    BY <1>5 DEF TakesUp, serverVars, OrdersOnFile
  <2>2. PICK reply \in {"intent", "plain", "failed", "ORDER_ALREADY_EXISTS"} :
          Answers(c, reply) /\ (reply \in {"intent", "plain"} => request[c.key] = c.asks)
    BY <1>5 DEF TakesUp, SameRequest, ResumedAs
  <2>3. AppTypeOK'
    BY <1>1, <1>2, <2>1, <2>2, AnswerKeeps DEF AppTypeOK
  <2>4. KeysAreKept' /\ AnswersAreKept'
    BY <1>1, <1>2, <2>1, <2>2, AnswerKeeps DEF KeysAreKept, AnswersAreKept, OnFile
  <2> QED  BY <2>3, <2>4 DEF AppInv
<1> QED  BY <1>3, <1>4, <1>5 DEF Serves

\* The customer's part that sends nothing and is told nothing.
LEMMA UsesKeep ==
  ASSUME AppInv,
         \/ EditsCart \/ LoadsCatalog \/ TurnsToCart
         \/ Mounts \/ LeavesCheckout \/ SavesAddress \/ Chooses \/ StartsNewCheckout
         \/ LeavesOrder \/ OpensFromHistory
  PROVE  AppInv'
<1>1. AppTypeOK /\ KeysAreKept /\ AnswersAreKept
  BY DEF AppInv
<1>2. UNCHANGED <<calls, request, by>>
  BY DEF EditsCart, LoadsCatalog, TurnsToCart, Mounts, LeavesCheckout, SavesAddress, Chooses,
         StartsNewCheckout, LeavesOrder, OpensFromHistory, serverVars
<1>3. ASSUME UNCHANGED opened, AppTypeOK', screen' = "checkout" => visit'.key = visit'.attempt
      PROVE  AppInv'
  BY <1>1, <1>2, <1>3 DEF AppInv, KeysAreKept, AnswersAreKept, OnFile
<1>4. ASSUME items' \in Carts, saved' \subseteq Address, UNCHANGED <<visit, opened>>,
             screen' = "checkout" => screen = "checkout"
      PROVE  AppInv'
  <2>1. AppTypeOK'
    BY <1>1, <1>2, <1>4 DEF AppTypeOK
  <2> QED  BY <1>1, <1>3, <1>4, <2>1 DEF KeysAreKept
<1>5. CASE EditsCart
  <2>1. items' \in Carts
    BY <1>1, <1>5, TapsStayInCarts DEF EditsCart, AppTypeOK
  <2> QED  BY <1>1, <1>4, <1>5, <2>1 DEF EditsCart, AppTypeOK
<1>6. CASE LoadsCatalog \/ TurnsToCart \/ SavesAddress
  BY <1>1, <1>4, <1>6 DEF LoadsCatalog, TurnsToCart, SavesAddress, shopVars, AppTypeOK
<1>7. CASE Mounts
  <2>1. PICK k \in Order : visit' = NewVisit(k)
    BY <1>7 DEF Mounts
  <2>2. visit' \in Visit /\ visit'.key = visit'.attempt
    BY <2>1 DEF NewVisit, Visit
  <2>3. AppTypeOK'
    BY <1>1, <1>2, <1>7, <2>2 DEF Mounts, AppTypeOK, shopVars
  <2> QED  BY <1>3, <1>7, <2>2, <2>3 DEF Mounts
<1>8. CASE LeavesCheckout
  <2>1. AppTypeOK'
    BY <1>1, <1>2, <1>8 DEF LeavesCheckout, AppTypeOK, shopVars
  <2> QED  BY <1>3, <1>8, <2>1 DEF LeavesCheckout
<1>9. CASE Chooses
  <2>1. visit \in Visit /\ visit.key = visit.attempt
    BY <1>1, <1>9 DEF Chooses, AppTypeOK, KeysAreKept
  <2>2. saved \subseteq Address /\ UNCHANGED <<items, saved, screen, opened>>
    BY <1>1, <1>9 DEF Chooses, AppTypeOK, shopVars
  <2>3. \/ \E a \in Address : visit' = [visit EXCEPT !.picked = a]
        \/ \E c \in Code \cup {NoCode} : visit' = [visit EXCEPT !.promo = c]
        \/ visit' = [visit EXCEPT !.wallet = ~visit.wallet]
    BY <1>9, <2>2 DEF Chooses, PicksAddress, AppliesPromo, SwitchesWallet
  <2>4. visit' \in Visit /\ visit'.key = visit.key /\ visit'.attempt = visit.attempt
    BY <2>1, <2>3 DEF Visit
  <2>5. AppTypeOK'
    BY <1>1, <1>2, <2>2, <2>4 DEF AppTypeOK
  <2> QED  BY <1>3, <2>1, <2>2, <2>4, <2>5
<1>10. CASE StartsNewCheckout
  <2>1. PICK k \in Order :
          visit' = [visit EXCEPT !.key = k, !.attempt = k, !.status = "idle", !.code = "none"]
    BY <1>10 DEF StartsNewCheckout
  <2>2. visit \in Visit
    BY <1>1, <1>10 DEF StartsNewCheckout, AppTypeOK
  <2>3. visit' \in Visit /\ visit'.key = visit'.attempt
    BY <2>1, <2>2 DEF Visit
  <2>4. AppTypeOK'
    BY <1>1, <1>2, <1>10, <2>3 DEF StartsNewCheckout, AppTypeOK, shopVars
  <2> QED  BY <1>3, <1>10, <2>3, <2>4 DEF StartsNewCheckout
<1>11. CASE LeavesOrder \/ OpensFromHistory
  <2>1. UNCHANGED <<items, saved, visit>> /\ screen' # "checkout"
    BY <1>11 DEF LeavesOrder, OpensFromHistory, shopVars
  <2>2. Empty \in Carts
    BY CartAssumption DEF Empty, Carts
  <2>3. NoRequest \in Request
    BY <2>2 DEF NoRequest, Request
  <2>4. PICK k, asks : /\ opened' = [order |-> k, asks |-> asks]
                       /\ k \in Order \cup {NoOrder} /\ asks \in Request
                       /\ k # NoOrder => OnFile(k, asks)
    <3>1. CASE LeavesOrder
      BY <1>11, <2>3, <3>1 DEF LeavesOrder, NoScreen
    <3>2. CASE OpensFromHistory
      BY <1>1, <3>2 DEF OpensFromHistory, OrdersOnFile, OnFile, AppTypeOK
    <3> QED  BY <1>11, <3>1, <3>2
  <2>5. AppTypeOK'
    BY <1>1, <1>2, <2>1, <2>4 DEF AppTypeOK
  <2> QED
    BY <1>1, <1>2, <2>1, <2>4, <2>5 DEF AppInv, KeysAreKept, AnswersAreKept, OnFile
<1> QED  BY <1>5, <1>6, <1>7, <1>8, <1>9, <1>10, <1>11

\* A request carries the attempt's key, first or again.
LEMMA SubmitsKeeps ==
  ASSUME AppInv, Submits
  PROVE  AppInv'
<1>1. AppTypeOK /\ KeysAreKept /\ AnswersAreKept
  BY DEF AppInv
<1>2. visit \in Visit
  BY <1>1 DEF Submits, AppTypeOK
<1>3. PICK k \in Order : visit' = [visit EXCEPT !.key = k, !.status = "submitting", !.code = "none"]
  BY DEF Submits
<1>4. visit' \in Visit /\ visit'.attempt = visit.attempt /\ visit'.key = visit.key
  BY <1>2, <1>3 DEF Visit, Submits, AttemptsKey
<1>5. visit.key = visit.attempt
  BY <1>1 DEF KeysAreKept, Submits
<1> DEFINE c == [key |-> visit'.key, attempt |-> visit.attempt, asks |-> Asks,
                 reply |-> "none", live |-> TRUE]
<1>6. c \in CreateOrderCall /\ c.reply = "none" /\ c.key = visit.key /\ c.attempt = visit.attempt
  BY <1>1, <1>2, <1>4, AsksType DEF CreateOrderCall, Visit
<1>7. calls' = calls \cup {c} /\ UNCHANGED <<items, saved, screen, request, by, opened>>
  BY DEF Submits, shopVars, serverVars
<1>8. screen = "checkout"
  BY DEF Submits
<1> HIDE DEF c
<1>9. AppTypeOK'
  BY <1>1, <1>4, <1>6, <1>7 DEF AppTypeOK
<1>10. KeysAreKept'
  BY <1>1, <1>4, <1>5, <1>6, <1>7 DEF KeysAreKept
<1>11. AnswersAreKept'
  BY <1>1, <1>6, <1>7 DEF AnswersAreKept, OnFile
<1> QED  BY <1>9, <1>10, <1>11 DEF AppInv

\* The answers, good and bad, a lost connection, and a relaunch.
LEMMA AnswersKeep ==
  ASSUME AppInv,
         \/ \E c \in calls : OrderArrives(c) \/ ErrorArrives(c) \/ ConnectionBreaks(c)
         \/ Relaunches
  PROVE  AppInv'
<1>1. AppTypeOK /\ KeysAreKept /\ AnswersAreKept
  BY DEF AppInv
<1>2. Empty \in Carts /\ NoRequest \in Request
  BY CartAssumption DEF Empty, Carts, NoRequest, Request
<1>3. UNCHANGED <<saved, request, by>>
  BY DEF OrderArrives, ErrorArrives, ConnectionBreaks, Relaunches, ShowsError, shopVars, serverVars
<1>4. \A c \in calls : /\ c \in CreateOrderCall
                       /\ [c EXCEPT !.live = FALSE] \in CreateOrderCall
                       /\ [c EXCEPT !.live = FALSE].key = c.key
                       /\ [c EXCEPT !.live = FALSE].attempt = c.attempt
                       /\ [c EXCEPT !.live = FALSE].reply = c.reply
                       /\ [c EXCEPT !.live = FALSE].asks = c.asks
  BY <1>1 DEF AppTypeOK, CreateOrderCall
<1>5. \A d \in calls' : \E c \in calls : d = c \/ d = [c EXCEPT !.live = FALSE]
  <2>1. ASSUME NEW c \in calls, OrderArrives(c) \/ ErrorArrives(c) PROVE calls' \subseteq calls
    BY <2>1 DEF OrderArrives, ErrorArrives
  <2>2. ASSUME NEW c \in calls, ConnectionBreaks(c)
        PROVE  calls' \subseteq calls \cup {[c EXCEPT !.live = FALSE]}
    BY <2>2 DEF ConnectionBreaks
  <2>3. CASE Relaunches
    BY <2>3 DEF Relaunches
  <2> QED  BY <2>1, <2>2, <2>3
<1>6. /\ calls' \subseteq CreateOrderCall
      /\ \A d \in calls' : d.key = d.attempt
      /\ \A d \in calls' : d.reply \in {"intent", "plain"} => OnFile(d.key, d.asks)'
  <2>1. \A d \in calls' : \E c \in calls :
          /\ d \in CreateOrderCall /\ d.key = c.key /\ d.attempt = c.attempt
          /\ d.reply = c.reply /\ d.asks = c.asks
    BY <1>4, <1>5
  <2>2. \A k, asks : OnFile(k, asks)' <=> OnFile(k, asks)
    BY <1>3 DEF OnFile
  <2> QED  BY <1>1, <2>1, <2>2 DEF KeysAreKept, AnswersAreKept
<1>7. ASSUME items' \in Carts, visit' \in Visit \cup {NoVisit},
             screen' = "checkout" => visit' \in Visit /\ visit'.key = visit'.attempt,
             opened' \in [order : Order \cup {NoOrder}, asks : Request],
             opened'.order # NoOrder => OnFile(opened'.order, opened'.asks)
      PROVE  AppInv'
  <2>1. AppTypeOK'
    BY <1>1, <1>3, <1>6, <1>7 DEF AppTypeOK
  <2>2. KeysAreKept' /\ AnswersAreKept'
    BY <1>1, <1>3, <1>6, <1>7 DEF KeysAreKept, AnswersAreKept, OnFile
  <2> QED  BY <2>1, <2>2 DEF AppInv
<1>8. ASSUME NEW c \in calls, OrderArrives(c) PROVE AppInv'
  <2>1. /\ opened' = [order |-> c.key, asks |-> c.asks]
        /\ items' = Empty /\ screen' = "order" /\ visit' = NoVisit
        /\ OnFile(c.key, c.asks)
    BY <1>1, <1>8 DEF OrderArrives, AnswersAreKept
  <2>2. c.key \in Order /\ c.asks \in Request
    BY <1>4 DEF CreateOrderCall
  <2> QED  BY <1>2, <1>7, <2>1, <2>2
<1>9. ASSUME NEW c \in calls, NEW code \in {"failed", "ORDER_ALREADY_EXISTS"}, ShowsError(c, code)
      PROVE  AppInv'
  <2>1. UNCHANGED <<items, screen, opened>>
    BY <1>9 DEF ShowsError, shopVars
  <2> DEFINE v == [visit EXCEPT !.status = "error", !.code = code]
  <2>2. visit' = visit \/ (visit \in Visit /\ visit' = v)
    <3>1. visit' = visit \/ (visit # NoVisit /\ visit' = v)
      BY <1>9 DEF ShowsError
    <3> HIDE DEF v
    <3> QED  BY <1>1, <3>1 DEF AppTypeOK
  <2>3. /\ visit' \in Visit \cup {NoVisit}
        /\ screen = "checkout" => visit' \in Visit /\ visit'.key = visit'.attempt
    <3>1. CASE visit' = visit
      BY <1>1, <3>1 DEF AppTypeOK, KeysAreKept
    <3>2. CASE visit \in Visit /\ visit' = v
      <4>1. visit' \in Visit /\ visit'.key = visit.key /\ visit'.attempt = visit.attempt
        BY <3>2 DEF Visit
      <4> QED  BY <1>1, <4>1 DEF KeysAreKept
    <3> QED  BY <2>2, <3>1, <3>2
  <2> QED
    BY <1>1, <1>7, <2>1, <2>3 DEF AppTypeOK, AnswersAreKept
<1>10. ASSUME NEW c \in calls, ErrorArrives(c) \/ ConnectionBreaks(c) PROVE AppInv'
  <2>1. ShowsError(c, "failed") \/ ShowsError(c, "ORDER_ALREADY_EXISTS")
    BY <1>10 DEF ErrorArrives, ConnectionBreaks
  <2> QED  BY <1>9, <2>1
<1>11. CASE Relaunches
  <2>1. /\ UNCHANGED items /\ screen' = "shop" /\ visit' = NoVisit
        /\ opened' = [order |-> NoOrder, asks |-> NoRequest]
    BY <1>11 DEF Relaunches, shopVars, NoScreen
  <2> QED  BY <1>1, <1>2, <1>7, <2>1 DEF AppTypeOK
<1> QED  BY <1>8, <1>10, <1>11

-----------------------------------------------------------------------------
(***************************************************************************)
(* The invariant, and what follows from it.                                *)
(***************************************************************************)
LEMMA AppIsCorrect == Spec => []AppInv
<1>1. Init => AppInv
  <2> SUFFICES ASSUME Init PROVE AppInv
    OBVIOUS
  <2>1. Empty \in Carts /\ NoRequest \in Request
    BY CartAssumption DEF Empty, Carts, NoRequest, Request
  <2>2. AppTypeOK
    BY <2>1 DEF Init, AppTypeOK, NoScreen
  <2>3. KeysAreKept /\ AnswersAreKept
    BY DEF Init, KeysAreKept, AnswersAreKept, NoScreen
  <2> QED  BY <2>2, <2>3 DEF AppInv
<1>2. AppInv /\ [Next]_vars => AppInv'
  <2> SUFFICES ASSUME AppInv, [Next]_vars PROVE AppInv'
    OBVIOUS
  <2>1. CASE UNCHANGED <<items, saved, screen, visit, calls, request, by, opened>>
    BY <2>1 DEF AppInv, AppTypeOK, KeysAreKept, AnswersAreKept, OnFile
  <2>2. ASSUME NEW k \in Order, OrderMoves(k) PROVE AppInv'
    BY <2>1, <2>2 DEF OrderMoves, shopVars
  <2> QED
    BY <2>1, <2>2, UsesKeep, SubmitsKeeps, ServesKeeps, AnswersKeep
    DEF Next, vars, shopVars, serverVars
<1> QED  BY <1>1, <1>2, PTL DEF Spec

(* However often a checkout is tried, lost, or served twice, one attempt   *)
(* makes one order: an order is named by the key its attempt was begun     *)
(* with.                                                                   *)
THEOREM AttemptsMakeOneOrder == Spec => []OneOrderPerAttempt
<1>1. AppInv => OneOrderPerAttempt
  BY DEF AppInv, KeysAreKept, OneOrderPerAttempt
<1> QED  BY <1>1, AppIsCorrect, PTL

(* The order an answer opens is on file for what that request asked: the   *)
(* server takes an order up for an equal request only.                     *)
THEOREM OpensTheOrderAskedFor == Spec => []OpensWhatWasAsked
<1>1. AppInv => OpensWhatWasAsked
  BY DEF AppInv, AnswersAreKept, OnFile, OpensWhatWasAsked
<1> QED  BY <1>1, AppIsCorrect, PTL

(* The orders the app makes and sees move as OrderStateMachine has them,   *)
(* whatever is sent twice, served late or lost: the server's answers and   *)
(* the customer's taps are its steps or leave it alone.                    *)
THEOREM AppFollowsTheOrders == Spec => Orders!Spec
<1>1. Init => Orders!Init
  BY DEF Init
<1>2. AppInv /\ [Next]_vars => [Orders!Next]_pair
  <2> SUFFICES ASSUME AppInv, [Next]_vars, pair' # pair PROVE Orders!Next
    OBVIOUS
  <2>1. ASSUME NEW c \in calls, Serves(c) PROVE Orders!Next
    <3>1. c.key \in Order
      BY DEF AppInv, AppTypeOK, CreateOrderCall
    <3>2. Creates(c)
      BY <2>1 DEF Serves, Refuses, TakesUp, serverVars
    <3> QED  BY <3>1, <3>2 DEF Creates, Orders!Next
  <2>2. ASSUME NEW k \in Order, OrderMoves(k) PROVE Orders!Next
    <3>1. Orders!Confirm(k) \/ Orders!Fail({k}) \/ Orders!Cancel(k) \/ Orders!Advance(k)
      BY <2>2 DEF OrderMoves
    <3> QED  BY <3>1 DEF Orders!Next
  <2>3. ASSUME NEW c \in calls, OrderArrives(c) \/ ErrorArrives(c) \/ ConnectionBreaks(c)
        PROVE  pair' = pair
    BY <2>3 DEF OrderArrives, ErrorArrives, ConnectionBreaks, ShowsError, serverVars
  <2>4. CASE EditsCart \/ LoadsCatalog \/ TurnsToCart \/ LeavesOrder \/ OpensFromHistory \/ Relaunches
    BY <2>4 DEF EditsCart, LoadsCatalog, TurnsToCart, LeavesOrder, OpensFromHistory, Relaunches, serverVars
  <2>5. CASE Mounts \/ LeavesCheckout \/ SavesAddress \/ Chooses \/ Submits \/ StartsNewCheckout
    BY <2>5 DEF Mounts, LeavesCheckout, SavesAddress, Chooses, Submits, StartsNewCheckout, serverVars
  <2> QED  BY <2>1, <2>2, <2>3, <2>4, <2>5 DEF Next, vars, serverVars
<1> QED  BY <1>1, <1>2, AppIsCorrect, PTL DEF Spec, Orders!Spec
=============================================================================
