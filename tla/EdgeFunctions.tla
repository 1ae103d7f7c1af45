---------------------------- MODULE EdgeFunctions ----------------------------
(***************************************************************************)
(* The Edge functions the staff apps call, as their callers see them.      *)
(*                                                                         *)
(* Every handler goes the same way: POST with a body of the right shape, a *)
(* valid token, a role it admits, then one rpc, which is one transaction.  *)
(* What the rpc raises with a code of its own is passed on: "refused".     *)
(* Anything else is "failed", also when the rpc committed and only its     *)
(* answer was lost.  An rpc that finds its work done answers "ok" again.   *)
(*                                                                         *)
(* The orders move as OrderStateMachine says.  Of the shop's settings (the *)
(* pause, a shelf count, a product) there is one value.                    *)
(***************************************************************************)
CONSTANTS
  Order,
  Me, Other, Nobody,  \* two runners, and orders.runner_id IS NULL
  Setting,
  Anything            \* the order of a call that is about none

VARIABLES
  pair,     \* the orders, as OrderStateMachine has them
  holder,   \* [Order -> who carries it]
  short,    \* orders with a line a stock-out has reconciled
  setting,
  calls,    \* requests under way
  acted     \* what calls have changed: the dialog or line, its key, the amount

serverVars == <<pair, holder, short, setting>>

Orders == INSTANCE OrderStateMachine

Runners == {Me, Other}
StatusOf(k) == pair[k][1]

(***************************************************************************)
(* What a function does to an order in which status; claimed or assigned,  *)
(* it is a runner's until it is back on the queue, whatever comes of it.   *)
(***************************************************************************)
ActsOn(fn, to) ==
  CASE fn \in {"mark_packed", "mark_stock_out"} -> {"confirmed"}
    [] fn = "claim_job" -> {"packed"}
    [] fn \in {"mark_picked_up", "release_job"} -> {"assigned"}
    [] fn \in {"verify_delivery_code", "mark_delivery_failed"} -> {"picked_up"}
    [] fn = "admin_reassign" -> {"assigned"} \cup (IF to = Nobody THEN {} ELSE {"delivery_failed"})
    [] fn = "admin_cancel_order" -> {"confirmed", "assigned", "delivery_failed"}
    [] OTHER -> Orders!Underway \cup {"delivered"}

HandedTo(k, r) == holder' = [holder EXCEPT ![k] = r]

MovesOn(k, to, r) ==
  /\ Orders!Advance(k) /\ pair'[k][1] = to
  /\ HandedTo(k, r)
  /\ UNCHANGED <<short, setting>>

Answers(c, reply) ==
  calls' = IF c.live THEN (calls \ {c}) \cup {[c EXCEPT !.reply = reply]} ELSE calls \ {c}

\* The gates, or the database, turn the call away; or it never got there.
Refuses(c) ==
  /\ \E reply \in {"refused", "failed"} : Answers(c, reply)
  /\ UNCHANGED <<serverVars, acted>>

Replays(c, reply) == Answers(c, reply) /\ UNCHANGED <<serverVars, acted>>

Commits(c) ==
  /\ \E reply \in {"ok", "failed"} : Answers(c, reply)
  /\ acted' = acted \cup {[of |-> c.of, key |-> c.key, amount |-> c.amount]}

Admits(c, fn, roles) == c.fn = fn /\ c.role \in roles

Acts(c) == StatusOf(c.order) \in ActsOn(c.fn, c.to)

(***************************************************************************)
(* The store's functions.  One stock-out per line pays; a line the wallet  *)
(* paid for leaves the payment as it is.                                   *)
(***************************************************************************)
MarkPacked(c) ==
  /\ Admits(c, "mark_packed", {"packer", "admin"})
  /\ \/ Acts(c) /\ MovesOn(c.order, "packed", Nobody) /\ Commits(c)
     \/ StatusOf(c.order) = "packed" /\ Replays(c, "ok")

MarkStockOut(c) ==
  /\ Admits(c, "mark_stock_out", {"packer", "admin"}) /\ Acts(c)
  /\ \/ /\ c.order \notin short
        /\ short' = short \cup {c.order}
        /\ Orders!PayBackPart(c.order) \/ UNCHANGED pair
        /\ UNCHANGED <<holder, setting>>
        /\ Commits(c)
     \/ c.order \in short /\ Replays(c, "ok")

(***************************************************************************)
(* The runner's functions, all but the claim for the order's own runner.   *)
(***************************************************************************)
ClaimJob(c) ==
  /\ Admits(c, "claim_job", {"runner"}) /\ Acts(c)
  /\ \A k \in Order : holder[k] = Me => StatusOf(k) \notin {"assigned", "picked_up"}
  /\ MovesOn(c.order, "assigned", Me) /\ Commits(c)

MarkPickedUp(c) ==
  /\ Admits(c, "mark_picked_up", {"runner", "admin"}) /\ holder[c.order] = Me
  /\ \/ Acts(c) /\ MovesOn(c.order, "picked_up", Me) /\ Commits(c)
     \/ StatusOf(c.order) = "picked_up" /\ Replays(c, "ok")

ReleaseJob(c) ==
  /\ Admits(c, "release_job", {"runner", "admin"}) /\ holder[c.order] = Me
  /\ Acts(c) /\ MovesOn(c.order, "packed", Nobody) /\ Commits(c)

\* A wrong guess, or one too many, is a value the rpc returns: the attempt
\* it has logged is committed.
WrongCodeOk == "ok"  \* a fault: only a raised error is an error

WrongCode == "refused"

VerifyDeliveryCode(c) ==
  /\ Admits(c, "verify_delivery_code", {"runner", "admin"}) /\ holder[c.order] = Me
  /\ \/ Acts(c) /\ MovesOn(c.order, "delivered", Me) /\ Commits(c)
     \/ StatusOf(c.order) = "delivered" /\ Replays(c, "ok")
     \/ Acts(c) /\ Replays(c, WrongCode)

MarkDeliveryFailed(c) ==
  /\ Admits(c, "mark_delivery_failed", {"runner", "admin"}) /\ holder[c.order] = Me
  /\ \/ Acts(c) /\ MovesOn(c.order, "delivery_failed", Me) /\ Commits(c)
     \/ StatusOf(c.order) = "delivery_failed" /\ Replays(c, "ok")

(***************************************************************************)
(* The administrator's.  Reassigning to nobody puts the order back on the  *)
(* queue.                                                                  *)
(***************************************************************************)
AdminReassign(c) ==
  /\ Admits(c, "admin_reassign", {"admin"}) /\ Acts(c)
  /\ \/ c.to = Nobody /\ MovesOn(c.order, "packed", Nobody) /\ Commits(c)
     \/ /\ c.to # Nobody /\ StatusOf(c.order) = "delivery_failed"
        /\ MovesOn(c.order, "assigned", c.to) /\ Commits(c)
     \/ /\ c.to \notin {Nobody, holder[c.order]} /\ StatusOf(c.order) = "assigned"
        /\ HandedTo(c.order, c.to) /\ UNCHANGED <<pair, short, setting>> /\ Commits(c)
     \/ /\ c.to = holder[c.order] /\ StatusOf(c.order) = "assigned"
        /\ Replays(c, "ok")

\* Of a cancelled order the holder, if any, stays on the row.
AdminCancelOrder(c) ==
  /\ Admits(c, "admin_cancel_order", {"admin"}) /\ Acts(c)
  /\ Orders!Cancel(c.order)
  /\ UNCHANGED <<holder, short, setting>>
  /\ Commits(c)

PaidUnder(c) == {a \in acted : a.key = c.key}

Refund(c) ==
  /\ Admits(c, "refund", {"admin"}) /\ Acts(c)
  /\ \/ /\ PaidUnder(c) = {}
        /\ \/ c.amount = "part" /\ Orders!PayBackPart(c.order)
           \/ c.amount = "whole" /\ Orders!Cancel(c.order)
        /\ UNCHANGED <<holder, short, setting>>
        /\ Commits(c)
     \/ \E a \in PaidUnder(c) :
          Replays(c, IF c.amount \in {a.amount, "whole"} THEN "ok" ELSE "failed")

\* set_service_pause, admin_adjust_inventory and admin_upsert_product write
\* what the form holds, over whatever is there.
Writes(c, fn) ==
  /\ Admits(c, fn, {"admin"})
  /\ setting' = c.to
  /\ UNCHANGED <<pair, holder, short>>
  /\ Commits(c)

SetServicePause(c)      == Writes(c, "set_service_pause")
AdminAdjustInventory(c) == Writes(c, "admin_adjust_inventory")
AdminUpsertProduct(c)   == Writes(c, "admin_upsert_product")

Handles(c) ==
  \/ Refuses(c)
  \/ MarkPacked(c) \/ MarkStockOut(c)
  \/ ClaimJob(c) \/ MarkPickedUp(c) \/ ReleaseJob(c) \/ VerifyDeliveryCode(c) \/ MarkDeliveryFailed(c)
  \/ AdminReassign(c) \/ AdminCancelOrder(c) \/ Refund(c)
  \/ SetServicePause(c) \/ AdminAdjustInventory(c) \/ AdminUpsertProduct(c)
=============================================================================
