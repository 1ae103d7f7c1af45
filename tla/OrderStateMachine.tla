-------------------------- MODULE OrderStateMachine --------------------------
(***************************************************************************)
(* What the order core promises of one order to everyone who only sees its *)
(* two statuses (the apps, the notifications, the reports): where it goes, *)
(* and how its money stands while it is there.  The pair moves as one.     *)
(* OrderCore is shown to implement it.                                     *)
(***************************************************************************)
CONSTANT Order

VARIABLE pair  \* [Order -> <<order status, payment status>>]

Absent   == <<"absent", "pending">>
Paid     == {"captured", "partially_refunded"}
Underway == {"confirmed", "packed", "assigned", "picked_up", "delivery_failed"}

Goes(o, from, to) ==
  /\ pair[o] \in from
  /\ \E q \in to : pair' = [pair EXCEPT ![o] = q]

Place(o) == Goes(o, {Absent}, {<<"created", "pending">>, <<"confirmed", "captured">>})
Confirm(o) == Goes(o, {<<"created", "pending">>}, {<<"confirmed", "captured">>})

\* One sweep may fail several orders at once.
Fail(S) ==
  /\ S # {}
  /\ \A o \in S : pair[o] = <<"created", "pending">>
  /\ pair' = [o \in Order |-> IF o \in S THEN <<"payment_failed", "failed">> ELSE pair[o]]

\* Progress of the goods leaves the money alone.
Advance(o) ==
  \E s, t \in Underway \cup {"delivered"}, m \in Paid :
    /\ <<s, t>> \in { <<"confirmed", "packed">>, <<"packed", "assigned">>,
                      <<"assigned", "packed">>, <<"assigned", "picked_up">>,
                      <<"picked_up", "delivered">>, <<"picked_up", "delivery_failed">>,
                      <<"delivery_failed", "assigned">> }
    /\ Goes(o, {<<s, m>>}, {<<t, m>>})

\* Part of the money goes back; the goods stay where they are.
PayBackPart(o) ==
  \E s \in Underway \cup {"delivered"}, m \in Paid :
    Goes(o, {<<s, m>>}, {<<s, "partially_refunded">>})

\* All of it goes back, and with it the order, never after the bag has left.
Cancel(o) ==
  Goes(o, {"confirmed", "assigned", "delivery_failed"} \X Paid, {<<"cancelled", "refunded">>})

Init == pair = [o \in Order |-> Absent]

Next ==
  \/ \E o \in Order : Place(o) \/ Confirm(o) \/ Advance(o) \/ PayBackPart(o) \/ Cancel(o)
  \/ \E S \in SUBSET Order : Fail(S)

Spec == Init /\ [][Next]_pair
=============================================================================
