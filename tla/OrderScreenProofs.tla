--------------------------- MODULE OrderScreenProofs ---------------------------
(***************************************************************************)
(* The order screen's two reads, for any number of orders and polls: what  *)
(* is shown of a payment is never older than the status beside it.         *)
(*                                                                         *)
(* The payment is read last, and by then the order may have moved on.  The *)
(* invariant says where to: an end is final and its payment settled, and   *)
(* an order that has been paid for never shows a failed payment.           *)
(***************************************************************************)
EXTENDS OrderScreen, TLAPS

LivePair ==
  {<<"created", "pending">>, <<"payment_failed", "failed">>, <<"cancelled", "refunded">>}
  \cup (Orders!Underway \cup {"delivered"}) \X Orders!Paid

\* What the payment of an order can be once its row has read status s.
Since(s) ==
  CASE s = "created"        -> {"pending", "failed", "captured", "partially_refunded", "refunded"}
    [] s = "payment_failed" -> {"failed"}
    [] s = "cancelled"      -> {"refunded"}
    [] OTHER                -> {"captured", "partially_refunded", "refunded"}

PollInv ==
  /\ pair \in [Order -> LivePair]
  /\ DOMAIN shown = Order /\ DOMAIN fetch = Order /\ DOMAIN row = Order
  /\ \A k \in Order : fetch[k] = "payment" =>
       row[k] \in LivePair /\ pair[k][2] \in Since(row[k][1])
  /\ PaymentShownIsNoOlder

\* An order moves to a pair that may follow whatever was read of it before.
LEMMA MovesFollow ==
  ASSUME pair \in [Order -> LivePair], NEW k \in Order, OrderMoves(k)
  PROVE  /\ pair' \in [Order -> LivePair]
         /\ \A j \in Order, r \in LivePair : pair[j][2] \in Since(r[1]) => pair'[j][2] \in Since(r[1])
<1>1. ASSUME NEW from, NEW q \in LivePair, Orders!Goes(k, {from}, {q}),
             \A r \in LivePair : from[2] \in Since(r[1]) => q[2] \in Since(r[1])
      PROVE  /\ pair' \in [Order -> LivePair]
             /\ \A j \in Order, r \in LivePair :
                  pair[j][2] \in Since(r[1]) => pair'[j][2] \in Since(r[1])
  <2>1. pair[k] = from /\ pair' = [pair EXCEPT ![k] = q]
    BY <1>1 DEF Orders!Goes
  <2> QED  BY <1>1, <2>1
<1>2. \A r \in LivePair : r[1] \in {"created", "payment_failed", "cancelled", "confirmed", "packed",
                                    "assigned", "picked_up", "delivery_failed", "delivered"}
  BY DEF LivePair, Orders!Underway
<1>3. CASE Orders!Confirm(k)
  <2>1. Orders!Goes(k, {<<"created", "pending">>}, {<<"confirmed", "captured">>})
    BY <1>3 DEF Orders!Confirm
  <2>2. \A r \in LivePair : "pending" \in Since(r[1]) => "captured" \in Since(r[1])
    BY DEF Since
  <2> QED  BY <1>1, <2>1, <2>2 DEF LivePair, Orders!Underway, Orders!Paid
<1>4. CASE Orders!Fail({k})
  <2>1. Orders!Goes(k, {<<"created", "pending">>}, {<<"payment_failed", "failed">>})
    BY <1>4 DEF Orders!Fail, Orders!Goes
  <2>2. \A r \in LivePair : "pending" \in Since(r[1]) => "failed" \in Since(r[1])
    BY DEF Since
  <2> QED  BY <1>1, <2>1, <2>2 DEF LivePair
<1>5. CASE Orders!Advance(k)
  <2>1. PICK s, t \in Orders!Underway \cup {"delivered"}, m \in Orders!Paid :
          Orders!Goes(k, {<<s, m>>}, {<<t, m>>})
    BY <1>5 DEF Orders!Advance
  <2> QED  BY <1>1, <2>1 DEF LivePair
<1>6. CASE Orders!PayBackPart(k)
  <2>1. PICK s \in Orders!Underway \cup {"delivered"}, m \in Orders!Paid :
          Orders!Goes(k, {<<s, m>>}, {<<s, "partially_refunded">>})
    BY <1>6 DEF Orders!PayBackPart
  <2>2. \A r \in LivePair : m \in Since(r[1]) => "partially_refunded" \in Since(r[1])
    BY <1>2 DEF Since, Orders!Paid
  <2> QED  BY <1>1, <2>1, <2>2 DEF LivePair, Orders!Paid
<1>7. CASE Orders!Cancel(k)
  <2>1. /\ pair[k] \in {"confirmed", "assigned", "delivery_failed"} \X Orders!Paid
        /\ pair' = [pair EXCEPT ![k] = <<"cancelled", "refunded">>]
    BY <1>7 DEF Orders!Cancel, Orders!Goes
  <2>2. PICK s \in {"confirmed", "assigned", "delivery_failed"}, m \in Orders!Paid :
          pair[k] = <<s, m>>
    BY <2>1
  <2>3. \A r \in LivePair : m \in Since(r[1]) => "refunded" \in Since(r[1])
    BY <1>2 DEF Since, Orders!Paid
  <2>4. Orders!Goes(k, {<<s, m>>}, {<<"cancelled", "refunded">>})
    BY <2>1, <2>2 DEF Orders!Goes
  <2> QED  BY <1>1, <2>3, <2>4 DEF LivePair
<1> QED  BY <1>3, <1>4, <1>5, <1>6, <1>7 DEF OrderMoves

\* A poll that begins has read nothing yet.
LEMMA FetchBegins ==
  ASSUME PollInv, NEW x, StartsFetch(x), UNCHANGED <<pair, shown>>
  PROVE  PollInv'
<1>1. \A k \in Order : fetch'[k] = "payment" => fetch[k] = "payment" /\ row'[k] = row[k]
  BY DEF StartsFetch, PollInv
<1> QED  BY <1>1 DEF StartsFetch, PollInv, PaymentShownIsNoOlder, StatusShown

\* Nothing a poll keeps is touched.
LEMMA PollsStand ==
  ASSUME PollInv, UNCHANGED <<pair, shown, fetch, row>>
  PROVE  PollInv'
BY DEF PollInv, PaymentShownIsNoOlder, StatusShown

\* The second read, with the order where it is by then.
LEMMA PaymentReadFollows ==
  ASSUME PollInv, NEW k \in Order, ReadsPayment(k)
  PROVE  PollInv'
<1>1. PICK payment \in {pair[k][2], "pending"} : Shows(k, payment) /\ fetch[k] = "payment"
  BY DEF ReadsPayment, PaymentRead
<1>2. row[k] \in LivePair /\ pair[k][2] \in Since(row[k][1])
  BY <1>1 DEF PollInv
<1>3. PICK s : s = row[k][1]
  OBVIOUS
<1>4. /\ s \in {"created", "payment_failed", "cancelled", "confirmed", "packed",
               "assigned", "picked_up", "delivery_failed", "delivered"}
      /\ payment = "pending" \/ payment \in Since(s)
  BY <1>1, <1>2, <1>3 DEF LivePair, Orders!Underway
<1>5. /\ shown' = [shown EXCEPT ![k] = <<s, payment>>]
      /\ fetch' = [fetch EXCEPT ![k] = "idle"] /\ row' = [row EXCEPT ![k] = Nothing]
      /\ UNCHANGED pair
  BY <1>1, <1>3 DEF Shows, navVars, Orders!Underway
<1>6. \A j \in Order : fetch'[j] = "payment" => j # k /\ fetch[j] = "payment" /\ row'[j] = row[j]
  BY <1>5 DEF PollInv
<1>7. PaymentShownIsNoOlder'
  <2> SUFFICES ASSUME NEW j \in Order, shown'[j] # Nothing, shown'[j][2] # "pending"
               PROVE  CASE shown'[j][1] = "cancelled"      -> shown'[j][2] = "refunded"
                        [] shown'[j][1] = "payment_failed" -> shown'[j][2] = "failed"
                        [] OTHER -> shown'[j][2] # "failed" \/ shown'[j][1] = "created"
    BY DEF PaymentShownIsNoOlder, StatusShown
  <2>1. CASE j = k
    <3>1. shown'[j] = <<s, payment>> /\ payment \in Since(s)
      BY <1>4, <1>5, <2>1 DEF PollInv
    <3> QED  BY <1>4, <3>1 DEF Since
  <2>2. CASE j # k
    <3>1. shown'[j] = shown[j]
      BY <1>5, <2>2
    <3> QED  BY <3>1 DEF PollInv, PaymentShownIsNoOlder, StatusShown
  <2> QED  BY <2>1, <2>2
<1> QED  BY <1>5, <1>6, <1>7 DEF PollInv

\* One of the screen's steps, or one of the order's.
LEMMA PollStep ==
  ASSUME PollInv, [Next]_vars
  PROVE  PollInv'
<1>1. ASSUME NEW k \in Order, OpensScreen(k, TRUE) \/ OpensScreen(k, FALSE) PROVE PollInv'
  BY <1>1, FetchBegins, PollsStand DEF OpensScreen
<1>2. ASSUME NEW k \in Order, ReadsOrder(k) PROVE PollInv'
  <2>1. /\ fetch' = [fetch EXCEPT ![k] = "payment"] /\ row' = [row EXCEPT ![k] = pair[k]]
        /\ UNCHANGED <<pair, shown>>
    BY <1>2 DEF ReadsOrder
  <2>2. pair[k] \in LivePair /\ pair[k][2] \in Since(pair[k][1])
    BY DEF PollInv, LivePair, Since, Orders!Underway, Orders!Paid
  <2>3. \A j \in Order : fetch'[j] = "payment" =>
          row'[j] \in LivePair /\ pair'[j][2] \in Since(row'[j][1])
    BY <2>1, <2>2 DEF PollInv
  <2> QED  BY <2>1, <2>3 DEF PollInv, PaymentShownIsNoOlder, StatusShown
<1>3. ASSUME NEW k \in Order, FailsToRead(k) PROVE PollInv'
  <2>1. fetch' = [fetch EXCEPT ![k] = "idle"] /\ UNCHANGED <<pair, shown, row>>
    BY <1>3 DEF FailsToRead
  <2>2. \A j \in Order : fetch'[j] = "payment" => fetch[j] = "payment"
    BY <2>1 DEF PollInv
  <2> QED  BY <2>1, <2>2 DEF PollInv, PaymentShownIsNoOlder, StatusShown
<1>4. ASSUME NEW k \in Order, OrderMoves(k) PROVE PollInv'
  <2>1. UNCHANGED <<shown, fetch, row>>
    BY <1>4 DEF OrderMoves, screenVars
  <2> QED  BY <1>4, <2>1, MovesFollow DEF PollInv, PaymentShownIsNoOlder, StatusShown
<1>5. CASE ClosesScreen \/ Switches \/ OpensSheet \/ UNCHANGED vars
  BY <1>5, PollsStand DEF ClosesScreen, Switches, OpensSheet, vars, screenVars
<1>6. CASE Polls \/ Refetches \/ ClosesSheet
  BY <1>6, FetchBegins, PollsStand DEF Polls, Refetches, ClosesSheet
<1> QED  BY <1>1, <1>2, <1>3, <1>4, <1>5, <1>6, PaymentReadFollows DEF Next

-----------------------------------------------------------------------------
(* However the order moves between the two reads of a poll, and however    *)
(* polls fail, overlap or begin again: a cancelled order is not shown with *)
(* a payment still captured, nor a paid one with a failed payment.         *)
THEOREM PaymentIsShownInTime == Spec => []PaymentShownIsNoOlder
<1>1. Init => PollInv
  BY DEF Init, PollInv, LivePair, Orders!Underway, Orders!Paid, PaymentShownIsNoOlder
<1>2. PollInv /\ [Next]_vars => PollInv'
  BY PollStep
<1>3. PollInv => PaymentShownIsNoOlder
  BY DEF PollInv
<1> QED  BY <1>1, <1>2, <1>3, PTL DEF Spec
=============================================================================
