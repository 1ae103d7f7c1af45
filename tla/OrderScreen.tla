----------------------------- MODULE OrderScreen -----------------------------
(***************************************************************************)
(* The customer's order screen: an order opened after checkout or from the *)
(* history, polled while somebody may be looking, and the gateway's sheet  *)
(* it can open.  The order itself moves as OrderStateMachine says, which   *)
(* the order core implements.                                              *)
(*                                                                         *)
(* A poll reads the order row and then the payment, two requests between   *)
(* which the order moves on.  A failed first read fails the poll; a failed *)
(* second one passes for an order nothing has been paid for.               *)
(***************************************************************************)
CONSTANTS
  Order,
  NoOrder,  \* no order screen, or no sheet, is open
  Nothing   \* a query without data

VARIABLES
  pair,    \* the orders, as OrderStateMachine has them
  opened,  \* the order on screen
  intent,  \* the payment parameters came along with it
  shown,   \* [Order -> <<status, payment status>>]: the query's data
  stale,   \* orders whose last poll failed
  fetch,   \* [Order -> "idle", "order", "payment"]: the poll under way
  row,     \* [Order -> the pair at the moment a poll read the order row]
  active,  \* the app is in the foreground
  sheet,   \* the order the gateway's sheet is open for
  paid     \* orders paid for at the gateway

navVars    == <<opened, intent, active, sheet, paid>>
screenVars == <<navVars, shown, stale, fetch, row>>
vars       == <<pair, screenVars>>

Orders == INSTANCE OrderStateMachine

Terminal == {"delivered", "cancelled", "payment_failed"}

Init ==
  /\ pair \in [Order -> {<<"created", "pending">>, <<"confirmed", "captured">>}]
  /\ opened = NoOrder /\ intent = FALSE /\ active = TRUE /\ sheet = NoOrder /\ paid = {}
  /\ shown = [k \in Order |-> Nothing] /\ stale = {}
  /\ fetch = [k \in Order |-> "idle"] /\ row = [k \in Order |-> Nothing]

\* The status pill; a skeleton while there is no data.
StatusShown(k) == IF shown[k] = Nothing THEN "none" ELSE shown[k][1]

StartsFetch(k) ==
  /\ fetch' = [fetch EXCEPT ![k] = "order"]
  /\ row'   = [row EXCEPT ![k] = Nothing]

(***************************************************************************)
(* The screen is opened by the checkout, with payment parameters or        *)
(* without, or from the history, without.  Data of the last minute is      *)
(* shown as it is; a tapped notification has it read again.                *)
(***************************************************************************)
OpensScreen(k, withIntent) ==
  /\ opened # k /\ sheet = NoOrder
  /\ opened' = k /\ intent' = withIntent
  /\ \/ StartsFetch(k)
     \/ shown[k] # Nothing /\ UNCHANGED <<fetch, row>>
  /\ UNCHANGED <<pair, shown, stale, active, sheet, paid>>

ClosesScreen ==
  /\ opened # NoOrder /\ sheet = NoOrder
  /\ opened' = NoOrder /\ intent' = FALSE
  /\ UNCHANGED <<pair, shown, stale, fetch, row, active, sheet, paid>>

(***************************************************************************)
(* The poll interval asks the status on screen; without data it goes on.   *)
(***************************************************************************)
StopsAtAnyEnd == Terminal \cup {"delivery_failed"}  \* a fault

StopsPolling == Terminal

Polls ==
  /\ opened # NoOrder /\ active /\ fetch[opened] = "idle"
  /\ StatusShown(opened) \notin StopsPolling
  /\ StartsFetch(opened)
  /\ UNCHANGED <<pair, navVars, shown, stale>>

\* The buttons of the error page, of the stale banner, and "Check payment
\* status"; a fetch under way is dropped.
Refetches ==
  /\ opened # NoOrder
  /\ \/ opened \in stale
     \/ intent /\ StatusShown(opened) = "created"
  /\ StartsFetch(opened)
  /\ UNCHANGED <<pair, navVars, shown, stale>>

ReadsOrder(k) ==
  /\ fetch[k] = "order"
  /\ fetch' = [fetch EXCEPT ![k] = "payment"]
  /\ row'   = [row EXCEPT ![k] = pair[k]]
  /\ UNCHANGED <<pair, navVars, shown, stale>>

FailsToRead(k) ==
  /\ fetch[k] = "order"
  /\ fetch' = [fetch EXCEPT ![k] = "idle"]
  /\ stale' = stale \cup {k}
  /\ UNCHANGED <<pair, navVars, shown, row>>

Shows(k, payment) ==
  /\ shown' = [shown EXCEPT ![k] = <<row[k][1], payment>>]
  /\ fetch' = [fetch EXCEPT ![k] = "idle"]
  /\ row'   = [row EXCEPT ![k] = Nothing]
  /\ stale' = stale \ {k}
  /\ UNCHANGED <<pair, navVars>>

PaymentReadBefore(k) ==  \* a fault: the payment is the last poll's
  {IF shown[k] = Nothing THEN pair[k][2] ELSE shown[k][2], "pending"}

\* Its error is not looked at: then the payment passes for pending.
PaymentRead(k) == {pair[k][2], "pending"}

ReadsPayment(k) == fetch[k] = "payment" /\ \E payment \in PaymentRead(k) : Shows(k, payment)

Switches ==
  /\ active' = ~active
  /\ UNCHANGED <<pair, opened, intent, shown, stale, fetch, row, sheet, paid>>

(***************************************************************************)
(* The gateway's sheet, offered while the order on screen waits for its    *)
(* payment and the screen was given the parameters.  Whatever comes of it, *)
(* the order is only read again.                                           *)
(***************************************************************************)
OpensSheet ==
  /\ opened # NoOrder /\ intent /\ sheet = NoOrder
  /\ StatusShown(opened) = "created"
  /\ sheet' = opened
  /\ UNCHANGED <<pair, opened, intent, shown, stale, fetch, row, active, paid>>

ClosesSheet ==
  /\ sheet # NoOrder
  /\ sheet' = NoOrder
  /\ paid' \in {paid, paid \cup {sheet}}
  /\ \/ opened = sheet /\ StartsFetch(sheet)
     \/ opened # sheet /\ UNCHANGED <<fetch, row>>
  /\ UNCHANGED <<pair, opened, intent, shown, stale, active>>

(***************************************************************************)
(* The order moves on without the app.  Only a payment confirms it; the    *)
(* packers, runners and administrators who move it then do not read this   *)
(* screen.                                                                 *)
(***************************************************************************)
OrderMoves(k) ==
  /\ \/ k \in paid /\ Orders!Confirm(k)
     \/ Orders!Fail({k})
     \/ Orders!Advance(k) \/ Orders!PayBackPart(k) \/ Orders!Cancel(k)
  /\ UNCHANGED screenVars

Next ==
  \/ \E k \in Order : \/ \E withIntent \in BOOLEAN : OpensScreen(k, withIntent)
                      \/ ReadsOrder(k) \/ FailsToRead(k) \/ ReadsPayment(k)
                      \/ OrderMoves(k)
  \/ ClosesScreen \/ Polls \/ Refetches \/ Switches \/ OpensSheet \/ ClosesSheet

Spec == Init /\ [][Next]_vars

(***************************************************************************)
(* The poll timer runs, and a connection that is tried again and again     *)
(* works in the end.                                                       *)
(***************************************************************************)
FairSpec ==
  /\ Spec /\ WF_vars(Polls)
  /\ \A k \in Order : SF_vars(ReadsOrder(k)) /\ SF_vars(ReadsPayment(k))

(***************************************************************************)
(* The payment on screen is read no earlier than the status beside it:     *)
(* unless the read of the payment itself failed, a cancelled order shows   *)
(* its refund, a failed one its failure, and a paid one its capture.       *)
(***************************************************************************)
PaymentShownIsNoOlder ==
  \A k \in Order : shown[k] # Nothing /\ shown[k][2] # "pending" =>
    CASE StatusShown(k) = "cancelled"      -> shown[k][2] = "refunded"
      [] StatusShown(k) = "payment_failed" -> shown[k][2] = "failed"
      [] OTHER -> shown[k][2] # "failed" \/ StatusShown(k) = "created"

(***************************************************************************)
(* What an order has come to is shown in the end to a customer who keeps   *)
(* its screen open, whatever the app showed before and however many polls  *)
(* failed.                                                                 *)
(***************************************************************************)
EndIsShown ==
  \A k \in Order :
    (opened = k /\ pair[k][1] \in Terminal)
      ~> (opened # k \/ ~active \/ StatusShown(k) = pair[k][1])

(***************************************************************************)
(* A cancelled order on screen shows that its money went back.             *)
(***************************************************************************)
CancelledShowsItsRefund ==
  \A k \in Order : StatusShown(k) = "cancelled" => shown[k][2] = "refunded"
=============================================================================
