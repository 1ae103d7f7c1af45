----------------------------- MODULE OrderRules -----------------------------
(***************************************************************************)
(* The reference tables the database triggers read: which status an order  *)
(* may move to and who may ask for it, which status a payment may move to, *)
(* and which pairs of the two may stand at COMMIT.  They are data in the   *)
(* code (three tables and their INSERTs) and data here.                    *)
(***************************************************************************)

OrderStatus ==
  {"created", "confirmed", "packed", "assigned", "picked_up", "delivered",
   "payment_failed", "cancelled", "delivery_failed"}

PaymentStatus ==
  {"pending", "captured", "failed", "partially_refunded", "refunded"}

(***************************************************************************)
(* order_transition_rules: <<from_status, to_status, actor>>.              *)
(***************************************************************************)
OrderTransitionRules ==
  { <<"created",         "confirmed",       "system">>,
    <<"created",         "payment_failed",  "system">>,
    <<"created",         "cancelled",       "customer">>,
    <<"confirmed",       "packed",          "packer">>,
    <<"confirmed",       "cancelled",       "customer">>,
    <<"confirmed",       "cancelled",       "admin">>,
    <<"packed",          "assigned",        "runner">>,
    <<"assigned",        "packed",          "runner">>,
    <<"assigned",        "packed",          "system">>,
    <<"assigned",        "cancelled",       "admin">>,
    <<"assigned",        "picked_up",       "runner">>,
    <<"picked_up",       "delivered",       "runner">>,
    <<"picked_up",       "delivery_failed", "runner">>,
    <<"picked_up",       "delivery_failed", "admin">>,
    <<"delivery_failed", "assigned",        "admin">>,
    <<"delivery_failed", "cancelled",       "admin">> }

(***************************************************************************)
(* enforce_order_transition, for a caller without a client JWT (every RPC  *)
(* of the system): a row whose status does not change is let through, any  *)
(* other change must be some actor's rule.                                 *)
(***************************************************************************)
LegalOrderMove(from, to) ==
  from # to => \E actor \in {"system", "customer", "packer", "runner", "admin"} :
                 <<from, to, actor>> \in OrderTransitionRules

AdminMay(from, to) == <<from, to, "admin">> \in OrderTransitionRules

PaymentTransitionRules ==
  { <<"pending",            "captured">>,
    <<"pending",            "failed">>,
    <<"captured",           "refunded">>,
    <<"captured",           "partially_refunded">>,
    <<"partially_refunded", "refunded">>,
    <<"partially_refunded", "partially_refunded">> }

LegalPaymentMove(from, to) ==
  from # to => <<from, to>> \in PaymentTransitionRules

(***************************************************************************)
(* payment_order_consistency_rules: <<orders.status, payments.status>>.    *)
(***************************************************************************)
PaymentOrderConsistencyRules ==
  { <<"created",         "pending">>,
    <<"confirmed",       "captured">>, <<"confirmed",       "partially_refunded">>,
    <<"packed",          "captured">>, <<"packed",          "partially_refunded">>,
    <<"assigned",        "captured">>, <<"assigned",        "partially_refunded">>,
    <<"picked_up",       "captured">>, <<"picked_up",       "partially_refunded">>,
    <<"delivered",       "captured">>, <<"delivered",       "partially_refunded">>,
    <<"delivery_failed", "captured">>, <<"delivery_failed", "partially_refunded">>,
    <<"payment_failed",  "failed">>,   <<"payment_failed",  "captured">>,
    <<"payment_failed",  "refunded">>,
    <<"cancelled",       "failed">>,   <<"cancelled",       "refunded">>,
    <<"cancelled",       "partially_refunded">> }
=============================================================================
