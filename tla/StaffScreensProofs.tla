-------------------------- MODULE StaffScreensProofs --------------------------
(***************************************************************************)
(* The staff's pages, for any number of orders, dialogs, keys and calls    *)
(* under way: what is paid back once, what the phone reads again, and what *)
(* is done when the page says so.                                          *)
(***************************************************************************)
EXTENDS StaffScreens, TLAPS

-----------------------------------------------------------------------------
(***************************************************************************)
(* Types, as far as the arguments below need them.                         *)
(***************************************************************************)
DialogFn == {"refund", "admin_cancel_order", "admin_reassign"}
StoreFn  == {"mark_packed", "mark_stock_out"}
PhoneFn  == {"claim_job", "mark_picked_up", "release_job", "verify_delivery_code",
             "mark_delivery_failed"}
FormFn   == {"set_service_pause", "admin_adjust_inventory", "admin_upsert_product"}

CallRecord ==
  [fn : DialogFn \cup StoreFn \cup PhoneFn \cup FormFn, order : Order \cup {Anything},
   to : Runners \cup {Nobody} \cup Setting, amount : {"none", "part", "whole"},
   of : Nat \cup Order, key : Nat, role : {"admin", "packer", "runner"},
   reply : {"none", "ok", "refused", "failed"}, live : BOOLEAN]

DialogsFit ==
  \/ dialog = NoDialog
  \/ page \in Console \ FormPages /\ dialog \in [key : 1..drawn, order : Order, fn : DialogFn]

ScreenTypes ==
  /\ DOMAIN pair = Order
  /\ drawn \in Nat /\ DialogsFit
  /\ calls \subseteq CallRecord
  /\ \A c \in calls : c.fn \in FormFn \/ c.order \in Order

\* What a page offers for one of its orders.
LEMMA OffersOfAPage ==
  ASSUME NEW k \in Order, NEW o \in Offered(k)
  PROVE  /\ o.to \in Runners \cup {Nobody}
         /\ page \in Console  => page \notin FormPages /\ o.fn \in DialogFn
         /\ page = "packing"  => o.fn \in StoreFn
         /\ page = "phone"    => o.fn \in PhoneFn
<1> USE DEF Offer
<1>1. ASSUME NEW r, o \in OrderActions(r) \/ o \in FailureQueue(r) \/ o \in RunnerBoard(r)
                    \/ o \in RefundBoard(r)
      PROVE  o.fn \in DialogFn /\ o.to \in Runners \cup {Nobody}
  BY <1>1
  DEF OrderActions, FailureQueue, RunnerBoard, RefundBoard, ReassignsTo, SendsBack, Cancels, DialogFn
<1>2. ASSUME NEW r, o \in PackingActions(r) PROVE o.fn \in StoreFn /\ o.to = Nobody
  BY <1>2 DEF PackingActions, StoreFn
<1>3. ASSUME NEW r, o \in JobQueue(r) \/ o \in ActiveJob(r) PROVE o.fn \in PhoneFn /\ o.to = Nobody
  <2>1. CASE o \in JobQueue(r)
    BY <2>1 DEF JobQueue, PhoneFn
  <2>2. CASE o \in ActiveJob(r)
    <3>1. \E fn \in PhoneFn : o = [fn |-> fn, to |-> Nobody]
      BY <2>2 DEF ActiveJob, PhoneFn
    <3> QED  BY <3>1
  <2> QED  BY <1>3, <2>1, <2>2
<1>4. CASE page \in {"order", "failures", "runners", "refunds"}
  BY <1>1, <1>4 DEF Offered, FormPages
<1>5. CASE page = "packing"
  BY <1>2, <1>5 DEF Offered, Console, FormPages
<1>6. CASE page = "phone"
  <2>1. o \in JobQueue(seen[k]) \/ o \in ActiveJob(seen[k])
    BY <1>6 DEF Offered
  <2> QED  BY <1>3, <1>6, <2>1 DEF Console, FormPages
<1>7. CASE page \notin {"order", "failures", "runners", "refunds", "packing", "phone"}
  BY <1>7 DEF Offered
<1> QED  BY <1>4, <1>5, <1>6, <1>7

-----------------------------------------------------------------------------
(***************************************************************************)
(* The server.  A delivered or cancelled order stays what it is, whoever   *)
(* moves it.                                                               *)
(***************************************************************************)
EndsStand ==
  /\ DOMAIN pair' = Order
  /\ \A k \in Order : StatusOf(k) \in {"delivered", "cancelled"} => StatusOf(k)' = StatusOf(k)

\* The four ways an order moves, and none from an end to another status.
LEMMA EndsAreFinal ==
  ASSUME DOMAIN pair = Order, NEW x,
         \/ Orders!Advance(x)
         \/ Orders!PayBackPart(x)
         \/ Orders!Cancel(x)
         \/ UNCHANGED pair
  PROVE  EndsStand
<1>1. ASSUME NEW q, NEW p, pair[x] = p, pair' = [pair EXCEPT ![x] = q],
             p[1] \in {"delivered", "cancelled"} => q[1] = p[1]
      PROVE  EndsStand
  BY <1>1 DEF EndsStand, StatusOf
<1>2. CASE Orders!Advance(x)
  <2>1. PICK s, t \in Orders!Underway \cup {"delivered"}, m \in Orders!Paid :
          /\ <<s, t>> \in { <<"confirmed", "packed">>, <<"packed", "assigned">>,
                            <<"assigned", "packed">>, <<"assigned", "picked_up">>,
                            <<"picked_up", "delivered">>, <<"picked_up", "delivery_failed">>,
                            <<"delivery_failed", "assigned">> }
          /\ Orders!Goes(x, {<<s, m>>}, {<<t, m>>})
    BY <1>2 DEF Orders!Advance
  <2>2. s \notin {"delivered", "cancelled"}
    BY <2>1
  <2>3. pair[x] = <<s, m>> /\ pair' = [pair EXCEPT ![x] = <<t, m>>]
    BY <2>1 DEF Orders!Goes
  <2> QED  BY <1>1, <2>2, <2>3
<1>3. CASE Orders!PayBackPart(x)
  <2>1. PICK s, m : pair[x] = <<s, m>> /\ pair' = [pair EXCEPT ![x] = <<s, "partially_refunded">>]
    BY <1>3 DEF Orders!PayBackPart, Orders!Goes
  <2> QED  BY <1>1, <2>1
<1>4. CASE Orders!Cancel(x)
  <2>1. /\ pair[x] \in {"confirmed", "assigned", "delivery_failed"} \X Orders!Paid
        /\ pair' = [pair EXCEPT ![x] = <<"cancelled", "refunded">>]
    BY <1>4 DEF Orders!Cancel, Orders!Goes
  <2>2. pair[x][1] \notin {"delivered", "cancelled"}
    BY <2>1
  <2> QED  BY <1>1, <2>1, <2>2
<1>5. CASE UNCHANGED pair
  BY <1>5 DEF EndsStand, StatusOf
<1> QED  BY <1>2, <1>3, <1>4, <1>5

\* What an answer "ok" of the two functions that end an order stands for.
Happened(fn, k) ==
  /\ fn = "verify_delivery_code" => k \in Order /\ StatusOf(k) = "delivered"
  /\ fn = "admin_cancel_order"   => k \in Order /\ StatusOf(k) = "cancelled"

\* What a call changes, it changes once: a line that is short stays so, an
\* order is cancelled from another status.
Leaves(c) ==
  \/ acted' = acted
  \/ /\ acted' = acted \cup {[of |-> c.of, key |-> c.key, amount |-> c.amount]}
     /\ c.fn = "mark_stock_out" => c.order \notin short /\ c.order \in short'
     /\ c.fn = "admin_cancel_order" => StatusOf(c.order) # "cancelled" /\ Happened(c.fn, c.order)'

\* Every handler, as the pages see it.
LEMMA HandlersDo ==
  ASSUME DOMAIN pair = Order, NEW c \in CallRecord, c.fn \in FormFn \/ c.order \in Order,
         Handles(c)
  PROVE  /\ EndsStand /\ short \subseteq short' /\ Leaves(c)
         /\ \E reply \in {"ok", "refused", "failed"} :
              Answers(c, reply) /\ (reply = "ok" => Happened(c.fn, c.order)')
<1> DEFINE Replied == \E reply \in {"ok", "refused", "failed"} :
                        Answers(c, reply) /\ (reply = "ok" => Happened(c.fn, c.order)')
           Ends == {"verify_delivery_code", "admin_cancel_order"}
<1>1. ASSUME NEW reply \in {"ok", "refused", "failed"}, Answers(c, reply),
             reply # "ok" \/ Happened(c.fn, c.order)'
      PROVE  Replied
  BY <1>1
<1>2. ASSUME Commits(c), Happened(c.fn, c.order)' PROVE Replied
  BY <1>1, <1>2 DEF Commits
<1>3. ASSUME c.fn \notin Ends PROVE Happened(c.fn, c.order)'
  BY <1>3 DEF Happened
<1>4. ASSUME Commits(c), c.fn \notin {"mark_stock_out", "admin_cancel_order"} PROVE Leaves(c)
  BY <1>4 DEF Commits, Leaves
<1>5. ASSUME NEW reply, Replays(c, reply) PROVE Leaves(c) /\ UNCHANGED <<pair, short>>
  BY <1>5 DEF Replays, Leaves, serverVars
<1>6. ASSUME NEW t, NEW r, MovesOn(c.order, t, r)
      PROVE  EndsStand /\ UNCHANGED short /\ pair'[c.order][1] = t
  BY <1>6, EndsAreFinal DEF MovesOn
<1>7. ASSUME UNCHANGED pair PROVE EndsStand
  BY <1>7, EndsAreFinal
<1> HIDE DEF Replied
<1>8. CASE Refuses(c)
  <2>1. Leaves(c) /\ UNCHANGED <<pair, short>>
    BY <1>8 DEF Refuses, Leaves, serverVars
  <2>2. Replied
    BY <1>1, <1>8 DEF Refuses
  <2> QED  BY <1>7, <2>1, <2>2 DEF Replied
<1>9. CASE MarkPacked(c) \/ ClaimJob(c) \/ MarkPickedUp(c) \/ ReleaseJob(c) \/ MarkDeliveryFailed(c)
  <2>1. c.fn \notin Ends \cup {"mark_stock_out"}
    BY <1>9 DEF MarkPacked, ClaimJob, MarkPickedUp, ReleaseJob, MarkDeliveryFailed, Admits
  <2>2. \/ Commits(c) /\ \E t, r : MovesOn(c.order, t, r)
        \/ Replays(c, "ok")
    BY <1>9 DEF MarkPacked, ClaimJob, MarkPickedUp, ReleaseJob, MarkDeliveryFailed
  <2>3. Replied
    BY <1>1, <1>2, <1>3, <2>1, <2>2 DEF Replays
  <2> QED  BY <1>4, <1>5, <1>6, <1>7, <2>1, <2>2, <2>3 DEF Replied
<1>10. CASE MarkStockOut(c)
  <2>1. c.fn = "mark_stock_out" /\ c.order \in Order
    BY <1>10 DEF MarkStockOut, Admits, FormFn
  <2>2. CASE Replays(c, "ok")
    <3>1. Replied
      BY <1>1, <1>3, <2>1, <2>2 DEF Replays
    <3> QED  BY <1>5, <1>7, <2>2, <3>1 DEF Replied
  <2>3. CASE ~Replays(c, "ok")
    <3>1. /\ c.order \notin short /\ short' = short \cup {c.order}
          /\ Orders!PayBackPart(c.order) \/ UNCHANGED pair
          /\ Commits(c)
      BY <1>10, <2>3 DEF MarkStockOut
    <3>2. EndsStand
      BY <3>1, EndsAreFinal
    <3>3. Leaves(c)
      BY <2>1, <3>1 DEF Leaves, Commits
    <3>4. Replied
      BY <1>2, <1>3, <2>1, <3>1
    <3> QED  BY <3>1, <3>2, <3>3, <3>4 DEF Replied
  <2> QED  BY <2>2, <2>3
<1>11. CASE VerifyDeliveryCode(c)
  <2>1. c.fn = "verify_delivery_code" /\ c.order \in Order
    BY <1>11 DEF VerifyDeliveryCode, Admits, FormFn
  <2>2. CASE MovesOn(c.order, "delivered", Me) /\ Commits(c)
    <3>1. Happened(c.fn, c.order)'
      BY <1>6, <2>1, <2>2 DEF Happened, StatusOf
    <3> QED  BY <1>2, <1>4, <1>6, <2>1, <2>2, <3>1 DEF Replied
  <2>3. CASE StatusOf(c.order) = "delivered" /\ Replays(c, "ok")
    <3>1. Happened(c.fn, c.order)'
      BY <1>5, <2>1, <2>3 DEF Happened, StatusOf
    <3>2. Replied
      BY <1>1, <2>3, <3>1 DEF Replays
    <3> QED  BY <1>5, <1>7, <2>3, <3>2 DEF Replied
  <2>4. CASE Replays(c, "refused")
    <3>1. Replied
      BY <1>1, <2>4 DEF Replays
    <3> QED  BY <1>5, <1>7, <2>4, <3>1 DEF Replied
  <2> QED  BY <1>11, <2>2, <2>3, <2>4 DEF VerifyDeliveryCode, WrongCode
<1>12. CASE AdminReassign(c)
  <2>1. c.fn \notin Ends \cup {"mark_stock_out"}
    BY <1>12 DEF AdminReassign, Admits
  <2>2. \/ Commits(c) /\ \E t, r : MovesOn(c.order, t, r)
        \/ Commits(c) /\ UNCHANGED <<pair, short>>
        \/ Replays(c, "ok")
    BY <1>12 DEF AdminReassign
  <2>3. Replied
    BY <1>1, <1>2, <1>3, <2>1, <2>2 DEF Replays
  <2> QED  BY <1>4, <1>5, <1>6, <1>7, <2>1, <2>2, <2>3 DEF Replied
<1>13. CASE AdminCancelOrder(c)
  <2>1. /\ c.fn = "admin_cancel_order" /\ c.order \in Order
        /\ Orders!Cancel(c.order) /\ UNCHANGED short /\ Commits(c)
    BY <1>13 DEF AdminCancelOrder, Admits, FormFn
  <2>2. /\ pair[c.order] \in {"confirmed", "assigned", "delivery_failed"} \X Orders!Paid
        /\ pair' = [pair EXCEPT ![c.order] = <<"cancelled", "refunded">>]
    BY <2>1 DEF Orders!Cancel, Orders!Goes
  <2>3. StatusOf(c.order) # "cancelled" /\ Happened(c.fn, c.order)'
    BY <2>1, <2>2 DEF Happened, StatusOf
  <2>4. Leaves(c)
    BY <2>1, <2>3 DEF Leaves, Commits
  <2>5. Replied
    BY <1>2, <2>1, <2>3
  <2> QED  BY <2>1, <2>4, <2>5, EndsAreFinal DEF Replied
<1>14. CASE Refund(c)
  <2>1. c.fn \notin Ends \cup {"mark_stock_out"}
    BY <1>14 DEF Refund, Admits
  <2>2. \/ Commits(c) /\ UNCHANGED short /\ (Orders!PayBackPart(c.order) \/ Orders!Cancel(c.order))
        \/ \E reply \in {"ok", "failed"} : Replays(c, reply)
    BY <1>14 DEF Refund
  <2>3. Replied
    BY <1>1, <1>2, <1>3, <2>1, <2>2 DEF Replays
  <2>4. EndsStand
    BY <1>5, <1>7, <2>2, EndsAreFinal
  <2> QED  BY <1>4, <1>5, <2>1, <2>2, <2>3, <2>4 DEF Replied
<1>15. CASE SetServicePause(c) \/ AdminAdjustInventory(c) \/ AdminUpsertProduct(c)
  <2>1. c.fn \notin Ends \cup {"mark_stock_out"} /\ Commits(c) /\ UNCHANGED <<pair, short>>
    BY <1>15
    DEF SetServicePause, AdminAdjustInventory, AdminUpsertProduct, Writes, Admits
  <2>2. Replied
    BY <1>2, <1>3, <2>1
  <2> QED  BY <1>4, <1>7, <2>1, <2>2 DEF Replied
<1> QED
  BY <1>8, <1>9, <1>10, <1>11, <1>12, <1>13, <1>14, <1>15 DEF Handles

-----------------------------------------------------------------------------
(***************************************************************************)
(* The pages.  Every call a page holds is one it held before, about the    *)
(* same order and under the same key, or one it has just sent.             *)
(***************************************************************************)
Same(c, d) == d.fn = c.fn /\ d.order = c.order /\ d.of = c.of /\ d.key = c.key

\* How the key of a call comes from the dialog it was confirmed in.
KeyFits(fn, of, key) ==
  /\ fn \in DialogFn
  /\ fn = "refund" => key = of
  /\ fn = "admin_reassign" => key = 0

\* What a new call is about: the open dialog, the line of a stock-out, or
\* nothing that must change once only.
FromPage(c) ==
  c.of = 0 \/
  IF page \in Console
  THEN /\ dialog # NoDialog /\ c.of = dialog.key /\ c.fn = dialog.fn /\ c.order = dialog.order
       /\ KeyFits(c.fn, c.of, c.key)
  ELSE page = "packing" /\ c.fn = "mark_stock_out" /\ c.of = c.order

SentBy(c) ==
  /\ c \in CallRecord /\ (c.fn \in FormFn \/ c.order \in Order)
  /\ c.reply = "none" /\ c.live /\ FromPage(c)
  /\ page = "phone" => c.fn \notin busy
  /\ calls' = calls \cup {c} /\ busy' = busy \cup {c.fn} /\ notice' = Silence

\* The three ways a page sends a call.
LEMMA CallsAreSent ==
  ASSUME ScreenTypes, Confirms \/ Saves \/ Taps
  PROVE  /\ \E c : SentBy(c)
         /\ drawn' \in {drawn, drawn + 1}
         /\ UNCHANGED <<page, pair, short, acted, dialog, dataVars>>
<1>1. Role \in {"admin", "packer", "runner"}
  BY DEF Role
<1>2. ASSUME NEW fn, NEW k, NEW to, NEW amount, NEW of, NEW key,
             Sends(Call(fn, k, to, amount, of, key)),
             fn \in DialogFn \cup StoreFn \cup PhoneFn \cup FormFn,
             (fn \in FormFn /\ k = Anything) \/ k \in Order,
             to \in Runners \cup {Nobody} \cup Setting, amount \in {"none", "part", "whole"},
             of \in Nat \cup Order, key \in Nat,
             FromPage(Call(fn, k, to, amount, of, key)),
             page = "phone" => fn \notin busy
      PROVE  \E c : SentBy(c)
  <2>1. Call(fn, k, to, amount, of, key) \in CallRecord
    BY <1>1, <1>2 DEF Call, CallRecord
  <2> QED  BY <1>2, <2>1 DEF Sends, SentBy, Call
<1>3. CASE Confirms
  <2>1. /\ page \in Console \ FormPages /\ dialog \in [key : 1..drawn, order : Order, fn : DialogFn]
        /\ dialog # NoDialog /\ page # "phone"
    BY <1>3 DEF Confirms, ScreenTypes, DialogsFit, Console, FormPages
  <2>2. /\ dialog.key \in Nat /\ dialog.key # 0 /\ dialog.order \in Order /\ drawn \in Nat
        /\ dialog.fn \in DialogFn
    BY <2>1 DEF ScreenTypes
  <2>3. CASE dialog.fn = "refund"
    <3>1. PICK amount \in {"part", "whole"} :
            /\ Sends(Call("refund", dialog.order, Nobody, amount, dialog.key, dialog.key))
            /\ drawn' = drawn
      BY <1>3, <2>3 DEF Confirms, KeyOfTheDialog
    <3>2. FromPage(Call("refund", dialog.order, Nobody, amount, dialog.key, dialog.key))
      BY <2>1, <2>3 DEF FromPage, Call, KeyFits, DialogFn
    <3>3. \E c : SentBy(c)
      BY <1>2, <2>1, <2>2, <3>1, <3>2 DEF DialogFn
    <3> QED  BY <1>3, <3>1, <3>3 DEF Confirms, serverVars
  <2>4. CASE dialog.fn = "admin_cancel_order"
    <3>1. /\ drawn' = drawn + 1
          /\ Sends(Call("admin_cancel_order", dialog.order, Nobody, "whole", dialog.key, drawn'))
      BY <1>3, <2>4 DEF Confirms
    <3>2. FromPage(Call("admin_cancel_order", dialog.order, Nobody, "whole", dialog.key, drawn'))
      BY <2>1, <2>4 DEF FromPage, Call, KeyFits, DialogFn
    <3>3. drawn' \in Nat
      BY <2>2, <3>1
    <3>4. \E c : SentBy(c)
      BY <1>2, <2>1, <2>2, <3>1, <3>2, <3>3 DEF DialogFn
    <3> QED  BY <1>3, <3>1, <3>4 DEF Confirms, serverVars
  <2>5. CASE dialog.fn = "admin_reassign"
    <3>1. PICK o \in Offered(dialog.order) :
            /\ Sends(Call("admin_reassign", dialog.order, o.to, "none", dialog.key, 0))
            /\ drawn' = drawn
      BY <1>3, <2>5 DEF Confirms
    <3>2. FromPage(Call("admin_reassign", dialog.order, o.to, "none", dialog.key, 0))
      BY <2>1, <2>5 DEF FromPage, Call, KeyFits, DialogFn
    <3>3. o.to \in Runners \cup {Nobody}
      BY <2>2, OffersOfAPage
    <3>4. \E c : SentBy(c)
      BY <1>2, <2>1, <2>2, <3>1, <3>2, <3>3 DEF DialogFn
    <3> QED  BY <1>3, <3>1, <3>4 DEF Confirms, serverVars
  <2> QED  BY <2>2, <2>3, <2>4, <2>5 DEF DialogFn
<1>4. CASE Saves
  <2>1. PICK fn \in FormFn, to \in Setting : Sends(Call(fn, Anything, to, "none", 0, 0))
    BY <1>4 DEF Saves, ServiceControls, InventoryBoard, CatalogBoard, Offer, FormFn
  <2>2. FromPage(Call(fn, Anything, to, "none", 0, 0))
    BY DEF FromPage, Call
  <2>3. page # "phone"
    BY <1>4 DEF Saves
  <2>4. \E c : SentBy(c)
    BY <1>2, <2>1, <2>2, <2>3
  <2> QED  BY <1>4, <2>4 DEF Saves, serverVars
<1>5. CASE Taps
  <2>0. PICK k \in Order : \E o \in Offered(k) :
          /\ IF page = "phone" THEN o.fn \notin busy ELSE busy = {}
          /\ \/ /\ o.fn # "mark_stock_out" /\ Sends(Call(o.fn, k, Nobody, "none", 0, 0))
                /\ drawn' = drawn
             \/ /\ o.fn = "mark_stock_out" /\ drawn' = drawn + 1
                /\ Sends(Call(o.fn, k, Nobody, "none", k, drawn'))
    BY <1>5 DEF Taps
  <2>1. PICK o \in Offered(k) :
          /\ IF page = "phone" THEN o.fn \notin busy ELSE busy = {}
          /\ \/ /\ o.fn # "mark_stock_out" /\ Sends(Call(o.fn, k, Nobody, "none", 0, 0))
                /\ drawn' = drawn
             \/ /\ o.fn = "mark_stock_out" /\ drawn' = drawn + 1
                /\ Sends(Call(o.fn, k, Nobody, "none", k, drawn'))
    BY <2>0
  <2>2. page \in {"packing", "phone"} /\ page \notin Console /\ drawn \in Nat
    BY <1>5 DEF Taps, Console, FormPages, ScreenTypes
  <2>3. o.fn \in StoreFn \cup PhoneFn /\ (o.fn = "mark_stock_out" => page = "packing")
    BY <2>2, OffersOfAPage DEF PhoneFn
  <2>4. CASE o.fn # "mark_stock_out"
    <3>1. FromPage(Call(o.fn, k, Nobody, "none", 0, 0))
      BY DEF FromPage, Call
    <3>2. \E c : SentBy(c)
      BY <1>2, <2>1, <2>3, <2>4, <3>1
    <3> QED  BY <1>5, <2>1, <2>4, <3>2 DEF Taps, serverVars
  <2>5. CASE o.fn = "mark_stock_out"
    <3>1. FromPage(Call(o.fn, k, Nobody, "none", k, drawn'))
      BY <2>2, <2>3, <2>5 DEF FromPage, Call
    <3>2. drawn' \in Nat
      BY <2>1, <2>2, <2>5
    <3>3. \E c : SentBy(c)
      BY <1>2, <2>1, <2>3, <2>5, <3>1, <3>2
    <3> QED  BY <1>5, <2>1, <2>5, <3>3 DEF Taps, serverVars
  <2> QED  BY <2>4, <2>5
<1> QED  BY <1>3, <1>4, <1>5

\* The others' moves.
LEMMA OthersDo ==
  ASSUME ScreenTypes, OthersMove
  PROVE  EndsStand
<1>1. PICK k \in Order :
        Orders!Advance(k) \/ Orders!PayBackPart(k) \/ Orders!Cancel(k) \/ UNCHANGED pair
  BY DEF OthersMove
<1> QED  BY <1>1, EndsAreFinal DEF ScreenTypes

\* A call a page holds, after a step that did not send it.
Descends(c, d) ==
  /\ Same(c, d) /\ (d.live => c.live)
  /\ d.reply = "ok" => c.reply = "ok" \/ Happened(c.fn, c.order)'

CallsFit == calls \subseteq CallRecord /\ \A c \in calls : c.fn \in FormFn \/ c.order \in Order

CallsGoOn ==
  /\ CallsFit'
  /\ \A d \in calls' : (\E c \in calls : Descends(c, d)) \/ (FromPage(d) /\ d.reply = "none")

\* What a page says of a call is what the call was answered.
NoticeFits ==
  notice'.says = "done" =>
    \/ notice' = notice
    \/ \E c \in calls : c.reply = "ok" /\ notice'.fn = c.fn /\ notice'.order = c.order

LEMMA CallsAreKept ==
  ASSUME CallsFit, \A d \in calls' : \E c \in calls : d = c \/ d = [c EXCEPT !.live = FALSE]
  PROVE  CallsGoOn
<1> SUFFICES ASSUME NEW d \in calls'
             PROVE  /\ d \in CallRecord /\ (d.fn \in FormFn \/ d.order \in Order)
                    /\ \E c \in calls : Descends(c, d)
  BY DEF CallsGoOn, CallsFit
<1>1. PICK c \in calls : d = c \/ d = [c EXCEPT !.live = FALSE]
  OBVIOUS
<1>2. c \in CallRecord /\ (c.fn \in FormFn \/ c.order \in Order)
  BY DEF CallsFit
<1>3. d \in CallRecord /\ Same(c, d) /\ d.reply = c.reply /\ (d.live => c.live)
  BY <1>1, <1>2 DEF CallRecord, Same
<1> QED  BY <1>2, <1>3 DEF Descends, Same

\* What a step of a page can do to what the arguments below look at.
StepFits ==
  /\ page' = page /\ EndsStand /\ short \subseteq short'
  /\ drawn' \in {drawn, drawn + 1}
  /\ dialog' \in {dialog, NoDialog} \/ OpensDialog
  /\ CallsGoOn /\ NoticeFits
  /\ acted' = acted \/ \E c \in calls : Leaves(c)

LEMMA StepsFit ==
  ASSUME ScreenTypes, [Next]_vars
  PROVE  StepFits
<1> USE DEF serverVars
<1>1. DOMAIN pair = Order /\ CallsFit /\ drawn \in Nat
  BY DEF ScreenTypes, CallsFit
<1>2. ASSUME UNCHANGED calls PROVE CallsGoOn
  BY <1>1, <1>2, CallsAreKept
<1>3. ASSUME UNCHANGED pair PROVE EndsStand
  BY <1>1, <1>3, EndsAreFinal
<1>4. ASSUME notice' \in {notice, Silence} PROVE NoticeFits
  BY <1>4 DEF NoticeFits, Silence
<1>5. ASSUME UNCHANGED <<page, pair, short, acted, calls, drawn, dialog, notice>> PROVE StepFits
  BY <1>2, <1>3, <1>4, <1>5 DEF StepFits
<1>6. CASE Reads \/ ReadFails \/ Joins \/ Drops \/ HintArrives \/ OthersSave
  <2>1. UNCHANGED <<page, short, acted, calls, drawn, dialog, notice>>
    BY <1>6 DEF Reads, ReadFails, Joins, Drops, HintArrives, OthersSave, formVars
  <2>2. UNCHANGED pair
    BY <1>6 DEF Reads, ReadFails, Joins, Drops, HintArrives, OthersSave
  <2> QED  BY <1>5, <2>1, <2>2
<1>7. CASE UNCHANGED vars
  BY <1>5, <1>7 DEF vars, formVars
<1>8. CASE OthersMove
  <2>1. UNCHANGED <<page, short, acted, calls, drawn, dialog, notice>>
    BY <1>8 DEF OthersMove, formVars
  <2> QED  BY <1>2, <1>4, <1>8, <2>1, OthersDo DEF StepFits
<1>9. CASE OpensDialog
  <2>1. /\ UNCHANGED <<page, pair, short, acted, calls>>
        /\ drawn' = drawn + 1 /\ notice' = Silence
    BY <1>9 DEF OpensDialog
  <2> QED  BY <1>2, <1>3, <1>4, <1>9, <2>1 DEF StepFits
<1>10. CASE ClosesDialog
  <2>1. /\ UNCHANGED <<page, pair, short, acted, calls, drawn>>
        /\ dialog' = NoDialog /\ notice' = Silence
    BY <1>10 DEF ClosesDialog
  <2> QED  BY <1>2, <1>3, <1>4, <2>1 DEF StepFits
<1>11. CASE Confirms \/ Saves \/ Taps
  <2>1. PICK c : SentBy(c)
    BY <1>11, CallsAreSent
  <2>2. CallsGoOn
    <3>1. CallsFit'
      BY <1>1, <2>1 DEF SentBy, CallsFit
    <3>2. ASSUME NEW d \in calls' PROVE (\E e \in calls : Descends(e, d)) \/ (FromPage(d) /\ d.reply = "none")
      BY <2>1 DEF SentBy, Descends, Same
    <3> QED  BY <3>1, <3>2 DEF CallsGoOn
  <2>3. NoticeFits
    BY <1>4, <2>1 DEF SentBy
  <2> QED  BY <1>3, <1>11, <2>2, <2>3, CallsAreSent DEF StepFits
<1>12. ASSUME NEW c \in calls, Serves(c) PROVE StepFits
  <2>1. c \in CallRecord /\ (c.fn \in FormFn \/ c.order \in Order)
    BY <1>1 DEF CallsFit
  <2>2. Handles(c) /\ UNCHANGED <<page, dialog, drawn, notice>>
    BY <1>12 DEF Serves, formVars
  <2>3. /\ EndsStand /\ short \subseteq short' /\ Leaves(c)
        /\ \E reply \in {"ok", "refused", "failed"} :
             Answers(c, reply) /\ (reply = "ok" => Happened(c.fn, c.order)')
    BY <1>1, <2>1, <2>2, HandlersDo
  <2>4. PICK reply \in {"ok", "refused", "failed"} :
          Answers(c, reply) /\ (reply = "ok" => Happened(c.fn, c.order)')
    BY <2>3
  <2>5. ASSUME NEW d \in calls, d \in CallRecord PROVE Descends(d, d)
    BY DEF Descends, Same
  <2>6. LET d == [c EXCEPT !.reply = reply] IN d \in CallRecord /\ Descends(c, d) /\ d.fn = c.fn /\ d.order = c.order
    BY <2>1, <2>4 DEF CallRecord, Descends, Same
  <2>7. CallsGoOn
    <3>1. ASSUME NEW d \in calls'
          PROVE  /\ d \in CallRecord /\ (d.fn \in FormFn \/ d.order \in Order)
                 /\ \E e \in calls : Descends(e, d)
      <4>1. d \in calls \/ d = [c EXCEPT !.reply = reply]
        BY <2>4 DEF Answers
      <4> QED  BY <1>1, <2>1, <2>5, <2>6, <4>1 DEF CallsFit
    <3> QED  BY <3>1 DEF CallsGoOn, CallsFit
  <2> QED  BY <1>4, <2>2, <2>3, <2>7 DEF StepFits
<1>13. ASSUME NEW c \in calls, Done(c) \/ NotDone(c) \/ Breaks(c) PROVE StepFits
  <2>1. UNCHANGED <<page, pair, short, acted, drawn>> /\ dialog' \in {dialog, NoDialog}
    BY <1>13 DEF Done, NotDone, Breaks
  <2>2. CallsGoOn
    <3>1. \A d \in calls' : d \in calls \/ d = [c EXCEPT !.live = FALSE]
      <4>1. CASE Done(c) \/ NotDone(c)
        BY <4>1 DEF Done, NotDone, Settled
      <4>2. CASE Breaks(c)
        <5>1. calls' = (calls \ {c}) \cup (IF c.reply = "none" THEN {[c EXCEPT !.live = FALSE]} ELSE {})
          BY <4>2 DEF Breaks, Broken
        <5> QED  BY <5>1
      <4> QED  BY <1>13, <4>1, <4>2
    <3> QED  BY <1>1, <3>1, CallsAreKept
  <2>3. NoticeFits
    <3>1. CASE Done(c)
      BY <3>1 DEF Done, SaysOf, NoticeFits
    <3>2. CASE NotDone(c)
      BY <3>2 DEF NotDone, SaysOf, NoticeFits
    <3>3. CASE Breaks(c)
      <4>1. Catches(c)
        BY <3>3 DEF Breaks
      <4>2. notice' = notice \/ notice' = SaysOf(c, "nothing was changed")
        BY <4>1 DEF Catches
      <4>3. SaysOf(c, "nothing was changed").says # "done"
        BY DEF SaysOf
      <4> QED  BY <4>2, <4>3 DEF NoticeFits
    <3> QED  BY <1>13, <3>1, <3>2, <3>3
  <2> QED  BY <1>3, <2>1, <2>2, <2>3 DEF StepFits
<1>14. CASE Reloads
  <2>1. /\ UNCHANGED <<page, pair, short, acted, drawn>>
        /\ dialog' = NoDialog /\ notice' = Silence
        /\ \A d \in calls' : \E c \in calls : d = [c EXCEPT !.live = FALSE]
    BY <1>14 DEF Reloads
  <2>2. CallsGoOn
    BY <1>1, <2>1, CallsAreKept
  <2> QED  BY <1>3, <1>4, <2>1, <2>2 DEF StepFits
<1> QED
  BY <1>6, <1>7, <1>8, <1>9, <1>10, <1>11, <1>12, <1>13, <1>14 DEF Next

-----------------------------------------------------------------------------
(***************************************************************************)
(* Types hold.                                                             *)
(***************************************************************************)
LEMMA TypesHold == Spec => []ScreenTypes
<1>1. Init => ScreenTypes
  BY DEF Init, ScreenTypes, DialogsFit
<1>2. ScreenTypes /\ [Next]_vars => ScreenTypes'
  <2> SUFFICES ASSUME ScreenTypes, [Next]_vars PROVE ScreenTypes'
    OBVIOUS
  <2>1. StepFits
    BY StepsFit
  <2>2. DOMAIN pair' = Order /\ CallsFit' /\ drawn \in Nat /\ drawn' \in {drawn, drawn + 1} /\ page' = page
    BY <2>1 DEF StepFits, EndsStand, CallsGoOn, ScreenTypes
  <2>3. DialogsFit'
    <3>1. CASE OpensDialog
      <4>1. PICK k \in Order : \E o \in Offered(k) : dialog' = [key |-> drawn + 1, order |-> k, fn |-> o.fn]
        BY <3>1 DEF OpensDialog
      <4>2. PICK o \in Offered(k) : dialog' = [key |-> drawn + 1, order |-> k, fn |-> o.fn]
        BY <4>1
      <4>3. page \in Console \ FormPages /\ drawn' = drawn + 1 /\ drawn + 1 \in 1..drawn'
        BY <2>2, <3>1 DEF OpensDialog
      <4>4. o.fn \in DialogFn
        BY <4>3, OffersOfAPage
      <4> QED  BY <2>2, <4>2, <4>3, <4>4 DEF DialogsFit
    <3>2. CASE dialog' \in {dialog, NoDialog}
      <4>1. 1..drawn \subseteq 1..drawn'
        BY <2>2
      <4> QED  BY <2>2, <3>2, <4>1 DEF DialogsFit, ScreenTypes, NoDialog
    <3> QED  BY <2>1, <3>1, <3>2 DEF StepFits
  <2> QED  BY <2>2, <2>3 DEF ScreenTypes, CallsFit
<1> QED  BY <1>1, <1>2, PTL DEF Spec

-----------------------------------------------------------------------------
(***************************************************************************)
(* What is reported as done has happened: every answer "ok" a page holds   *)
(* is of something that has happened, and what ends an order stands.       *)
(***************************************************************************)
AnswersAreTrue ==
  /\ \A c \in calls : c.reply = "ok" => Happened(c.fn, c.order)
  /\ notice.says = "done" => Happened(notice.fn, notice.order)

\* Nobody undoes it, whatever the step.
LEMMA WhatHappenedStays ==
  ASSUME EndsStand, NEW fn, NEW k, Happened(fn, k)
  PROVE  Happened(fn, k)'
BY DEF EndsStand, Happened

\* "Delivered." and "Cancelled." on a page are true of the order they are
\* said of, for as long as the page says so: of every function that answers,
\* "ok" is given only once it is so, a refused code is not taken for one, and
\* nothing moves an order on from there.
THEOREM DoneHasHappened == Spec => []DoneIsDone
<1>1. Init => AnswersAreTrue
  BY DEF Init, AnswersAreTrue, Silence
<1>2. ScreenTypes /\ AnswersAreTrue /\ [Next]_vars => AnswersAreTrue'
  <2> SUFFICES ASSUME ScreenTypes, AnswersAreTrue, [Next]_vars PROVE AnswersAreTrue'
    OBVIOUS
  <2>1. StepFits
    BY StepsFit
  <2>2. EndsStand /\ CallsGoOn /\ NoticeFits
    BY <2>1 DEF StepFits
  <2>3. ASSUME NEW d \in calls', d.reply = "ok" PROVE Happened(d.fn, d.order)'
    <3>1. PICK c \in calls : Descends(c, d)
      BY <2>2, <2>3 DEF CallsGoOn
    <3>2. Happened(c.fn, c.order)'
      BY <2>2, <2>3, <3>1, WhatHappenedStays DEF Descends, AnswersAreTrue
    <3> QED  BY <3>1, <3>2 DEF Descends, Same
  <2>4. ASSUME NEW fn, NEW k, notice'.says = "done", notice'.fn = fn, notice'.order = k
        PROVE  Happened(fn, k)'
    <3>1. \/ notice' = notice
          \/ \E c \in calls : c.reply = "ok" /\ fn = c.fn /\ k = c.order
      BY <2>2, <2>4 DEF NoticeFits
    <3>2. Happened(fn, k)
      BY <2>4, <3>1 DEF AnswersAreTrue
    <3> QED  BY <2>2, <3>2, WhatHappenedStays
  <2>5. notice'.says = "done" => Happened(notice.fn, notice.order)'
    BY <2>4 DEF Happened
  <2> QED  BY <2>3, <2>5 DEF AnswersAreTrue, Happened
<1>3. AnswersAreTrue => DoneIsDone
  BY DEF AnswersAreTrue, DoneIsDone, Happened
<1> QED  BY <1>1, <1>2, <1>3, TypesHold, PTL DEF Spec

-----------------------------------------------------------------------------
(***************************************************************************)
(* The console.  The dialogs are numbered as they open; each was opened    *)
(* for one function and one order, and every call sent from it, and all    *)
(* that such a call has changed, is about these.                           *)
(***************************************************************************)
OpenedFor(n, fn, k) ==
  /\ dialog # NoDialog /\ dialog.key = n => dialog.fn = fn /\ dialog.order = k
  /\ \A c \in calls : c.of = n => c.fn = fn /\ c.order = k /\ KeyFits(fn, n, c.key)
  /\ \A a \in acted : a.of = n =>
       /\ KeyFits(fn, n, a.key)
       /\ fn = "admin_cancel_order" => k \in Order /\ StatusOf(k) = "cancelled"

ConsoleInv ==
  /\ dialog # NoDialog => dialog.key \in 1..drawn
  /\ \A c \in calls : c.of \in 0..drawn
  /\ \A a \in acted : a.of \in 0..drawn
  /\ \A n \in 1..drawn :
       \E fn \in DialogFn \cup {"none"}, k \in Order \cup {Anything} : OpenedFor(n, fn, k)

\* Elsewhere only the packing page declares something missing, once a line.
StoreInv ==
  /\ \A c \in calls : c.of # 0 => c.fn = "mark_stock_out" /\ c.of = c.order
  /\ \A a \in acted : a.of # 0 => a.of \in short

PayInv == PaysOncePerDialog /\ (IF page \in Console THEN ConsoleInv ELSE StoreInv)

LEMMA ConsoleStep ==
  ASSUME ScreenTypes, ScreenTypes', page \in Console, PaysOncePerDialog, ConsoleInv, StepFits
  PROVE  PaysOncePerDialog' /\ ConsoleInv'
<1>1. /\ drawn \in Nat /\ drawn' \in {drawn, drawn + 1}
      /\ 0..drawn \subseteq 0..drawn' /\ 1..drawn \subseteq 1..drawn' /\ drawn <= drawn'
      /\ drawn + 1 \notin 0..drawn /\ \A n \in 1..drawn : n # 0
      /\ \A n \in 1..drawn' : n \in 1..drawn \/ n = drawn + 1
  BY DEF ScreenTypes, StepFits
<1>2. dialog' # NoDialog => dialog'.key \in 1..drawn'
  BY DEF ScreenTypes, DialogsFit, NoDialog
<1>3. ASSUME NEW d \in calls'
      PROVE  (\E c \in calls : Same(c, d)) \/ FromPage(d)
  BY <1>3 DEF StepFits, CallsGoOn, Descends
<1>4. ASSUME NEW a \in acted', a \notin acted
      PROVE  \E c \in calls : /\ a.of = c.of /\ a.key = c.key
                              /\ c.fn = "admin_cancel_order" => /\ c.order \in Order
                                                                /\ StatusOf(c.order) # "cancelled"
                                                                /\ StatusOf(c.order)' = "cancelled"
  <2>1. PICK c \in calls : Leaves(c)
    BY <1>4 DEF StepFits
  <2>2. a = [of |-> c.of, key |-> c.key, amount |-> c.amount]
    BY <1>4, <2>1 DEF Leaves
  <2>3. c.fn = "admin_cancel_order" => /\ c.order \in Order
                                       /\ StatusOf(c.order) # "cancelled"
                                       /\ StatusOf(c.order)' = "cancelled"
    BY <1>4, <2>1 DEF Leaves, Happened
  <2> QED  BY <2>2, <2>3
<1>5. ASSUME NEW d \in calls' PROVE d.of \in 0..drawn
  <2>1. CASE \E c \in calls : Same(c, d)
    BY <2>1 DEF Same, ConsoleInv
  <2>2. CASE FromPage(d)
    BY <1>1, <2>2 DEF FromPage, ConsoleInv
  <2> QED  BY <1>3, <2>1, <2>2
<1>6. ASSUME NEW a \in acted' PROVE a.of \in 0..drawn
  BY <1>4 DEF ConsoleInv
<1>7. ASSUME NEW n \in 1..drawn, NEW fn, NEW k, OpenedFor(n, fn, k)
      PROVE  OpenedFor(n, fn, k)'
  <2>1. dialog' # NoDialog /\ dialog'.key = n => dialog'.fn = fn /\ dialog'.order = k
    <3>1. CASE OpensDialog
      BY <1>1, <3>1 DEF OpensDialog
    <3>2. CASE dialog' \in {dialog, NoDialog}
      BY <1>7, <3>2 DEF OpenedFor
    <3> QED  BY <3>1, <3>2 DEF StepFits
  <2>2. ASSUME NEW d \in calls', d.of = n PROVE d.fn = fn /\ d.order = k /\ KeyFits(fn, n, d.key)
    <3>1. CASE \E c \in calls : Same(c, d)
      BY <1>7, <2>2, <3>1 DEF Same, OpenedFor
    <3>2. CASE FromPage(d)
      BY <1>1, <1>7, <2>2, <3>2 DEF FromPage, OpenedFor
    <3> QED  BY <1>3, <3>1, <3>2
  <2>3. ASSUME NEW a \in acted', a.of = n
        PROVE  /\ KeyFits(fn, n, a.key)
               /\ fn = "admin_cancel_order" => k \in Order /\ StatusOf(k)' = "cancelled"
    <3>1. CASE a \in acted
      BY <1>7, <2>3, <3>1 DEF OpenedFor, StepFits, EndsStand
    <3>2. CASE a \notin acted
      <4>1. PICK c \in calls :
              /\ a.of = c.of /\ a.key = c.key
              /\ c.fn = "admin_cancel_order" => c.order \in Order /\ StatusOf(c.order)' = "cancelled"
        BY <1>4, <3>2
      <4>2. c.fn = fn /\ c.order = k /\ KeyFits(fn, n, c.key)
        BY <1>7, <2>3, <4>1 DEF OpenedFor
      <4> QED  BY <4>1, <4>2
    <3> QED  BY <3>1, <3>2
  <2> QED  BY <2>1, <2>2, <2>3 DEF OpenedFor, KeyFits
<1>8. ASSUME NEW n \in 1..drawn', n \notin 1..drawn
      PROVE  \E fn \in DialogFn \cup {"none"}, k \in Order \cup {Anything} : OpenedFor(n, fn, k)'
  <2>1. (\A d \in calls' : d.of # n) /\ (\A a \in acted' : a.of # n)
    BY <1>1, <1>5, <1>6, <1>8
  <2>2. PICK fn \in DialogFn \cup {"none"}, k \in Order \cup {Anything} :
          dialog'.fn = fn /\ dialog'.order = k
    BY DEF ScreenTypes, DialogsFit, NoDialog
  <2>3. OpenedFor(n, fn, k)'
    BY <2>1, <2>2 DEF OpenedFor
  <2> QED  BY <2>3
<1>9. PaysOncePerDialog'
  <2>1. ASSUME NEW a \in acted', NEW b \in acted', a.of = b.of, a.of # 0 PROVE a.key = b.key
    <3>1. a.of \in 1..drawn
      BY <1>1, <1>6, <2>1
    <3>2. PICK fn, k : OpenedFor(a.of, fn, k)
      BY <3>1 DEF ConsoleInv
    <3>3. OpenedFor(a.of, fn, k)'
      BY <1>7, <3>1, <3>2
    <3>4. KeyFits(fn, a.of, a.key) /\ KeyFits(fn, a.of, b.key)
      BY <2>1, <3>3 DEF OpenedFor
    <3>5. ASSUME fn = "admin_cancel_order", NEW x \in acted, NEW y \in acted', y \notin acted,
                 x.of = a.of, y.of = a.of
          PROVE  FALSE
      <4>1. PICK c \in calls : /\ y.of = c.of
                               /\ c.fn = "admin_cancel_order" => StatusOf(c.order) # "cancelled"
        BY <1>4, <3>5
      <4> QED  BY <3>2, <3>5, <4>1 DEF OpenedFor
    <3>6. ASSUME a \notin acted, b \notin acted PROVE a = b
      BY <3>6 DEF StepFits, Leaves
    <3> QED  BY <2>1, <3>4, <3>5, <3>6 DEF KeyFits, DialogFn, PaysOncePerDialog
  <2> QED  BY <2>1 DEF PaysOncePerDialog
<1>10. ASSUME NEW n \in 1..drawn'
       PROVE  \E fn \in DialogFn \cup {"none"}, k \in Order \cup {Anything} : OpenedFor(n, fn, k)'
  <2>1. CASE n \in 1..drawn
    BY <1>7, <2>1 DEF ConsoleInv
  <2>2. CASE n \notin 1..drawn
    BY <1>8, <2>2
  <2> QED  BY <2>1, <2>2
<1> QED  BY <1>1, <1>2, <1>5, <1>6, <1>9, <1>10 DEF ConsoleInv

LEMMA StoreStep ==
  ASSUME ScreenTypes, page \notin Console, PaysOncePerDialog, StoreInv, StepFits
  PROVE  PaysOncePerDialog' /\ StoreInv'
<1>1. ASSUME NEW d \in calls', d.of # 0 PROVE d.fn = "mark_stock_out" /\ d.of = d.order
  <2>1. CASE \E c \in calls : Same(c, d)
    BY <1>1, <2>1 DEF Same, StoreInv
  <2>2. CASE FromPage(d)
    BY <1>1, <2>2 DEF FromPage
  <2> QED  BY <2>1, <2>2 DEF StepFits, CallsGoOn, Descends
<1>2. CASE acted' = acted
  <2>1. PaysOncePerDialog'
    BY <1>2 DEF PaysOncePerDialog
  <2>2. \A a \in acted' : a.of # 0 => a.of \in short'
    BY <1>2 DEF StoreInv, StepFits
  <2> QED  BY <1>1, <2>1, <2>2 DEF StoreInv
<1>3. ASSUME NEW c \in calls, Leaves(c), acted' # acted PROVE PaysOncePerDialog' /\ StoreInv'
  <2>1. acted' = acted \cup {[of |-> c.of, key |-> c.key, amount |-> c.amount]}
    BY <1>3 DEF Leaves
  <2>2. c.of # 0 => c.of \notin short /\ c.of \in short'
    BY <1>3 DEF Leaves, StoreInv
  <2>3. PaysOncePerDialog'
    BY <2>1, <2>2 DEF PaysOncePerDialog, StoreInv
  <2>4. \A a \in acted' : a.of # 0 => a.of \in short'
    BY <2>1, <2>2 DEF StoreInv, StepFits
  <2> QED  BY <1>1, <2>3, <2>4 DEF StoreInv
<1> QED  BY <1>2, <1>3 DEF StepFits

\* Whatever a dialog or a missing line leads to, over lost answers, retries
\* and pages left with a call under way, goes back under one key: of a
\* refund the dialog's own, of a reassignment none, and a cancellation, which
\* draws a key on every click, takes effect once because the order is then
\* cancelled; a missing line because it is then short.
THEOREM PaidBackOnce == Spec => []PaysOncePerDialog
<1>1. Init => PayInv
  BY DEF Init, PayInv, PaysOncePerDialog, ConsoleInv, StoreInv, NoDialog
<1>2. ScreenTypes /\ ScreenTypes' /\ PayInv /\ [Next]_vars => PayInv'
  <2> SUFFICES ASSUME ScreenTypes, ScreenTypes', PayInv, [Next]_vars PROVE PayInv'
    OBVIOUS
  <2>1. StepFits /\ page' = page
    BY StepsFit DEF StepFits
  <2>2. CASE page \in Console
    BY <2>1, <2>2, ConsoleStep DEF PayInv, Console, FormPages
  <2>3. CASE page \notin Console
    BY <2>1, <2>3, StoreStep DEF PayInv, Console, FormPages
  <2> QED  BY <2>2, <2>3
<1>3. PayInv => PaysOncePerDialog
  BY DEF PayInv
<1> QED  BY <1>1, <1>2, <1>3, TypesHold, PTL DEF Spec

-----------------------------------------------------------------------------
(***************************************************************************)
(* The runner's phone.  A call it waits for keeps its button disabled, and *)
(* no function is called twice at a time; so there is a reason for every   *)
(* change the phone has not read.                                          *)
(***************************************************************************)
PhoneInv ==
  /\ \A c \in calls : c.live => c.fn \in busy
  /\ \A c, d \in calls : c.live /\ d.live /\ c.fn = d.fn => c = d
  /\ unread # {} => busy # {} \/ reading \/ failed

LEMMA PhoneStep ==
  ASSUME ScreenTypes, page = "phone", PhoneInv, [Next]_vars
  PROVE  PhoneInv'
<1>1. CASE Reads \/ ReadFails \/ Joins \/ HintArrives
  <2>1. UNCHANGED <<calls, busy>> /\ (unread' = {} \/ reading' \/ failed')
    BY <1>1 DEF Reads, ReadFails, Joins, CatchesUp, HintArrives, ReadsAgain, formVars
  <2> QED  BY <2>1 DEF PhoneInv
<1>2. CASE Drops \/ OpensDialog \/ ClosesDialog \/ OthersMove \/ OthersSave \/ UNCHANGED vars
  <2>1. UNCHANGED <<calls, busy, unread, reading, failed>>
    BY <1>2 DEF Drops, OpensDialog, ClosesDialog, OthersMove, OthersSave, dataVars, formVars, vars
  <2> QED  BY <2>1 DEF PhoneInv
<1>3. CASE Confirms \/ Saves \/ Taps
  <2>1. PICK c : SentBy(c)
    BY <1>3, CallsAreSent
  <2>2. UNCHANGED unread /\ c.fn \notin busy /\ calls' = calls \cup {c} /\ busy' = busy \cup {c.fn}
    BY <1>3, <2>1, CallsAreSent DEF SentBy, dataVars
  <2> QED  BY <2>2 DEF PhoneInv
<1>4. ASSUME NEW c \in calls, Serves(c) PROVE PhoneInv'
  <2>1. c \in CallRecord /\ (c.fn \in FormFn \/ c.order \in Order)
    BY DEF ScreenTypes
  <2>2. /\ Handles(c) /\ UNCHANGED <<busy, reading, failed>>
        /\ unread' = unread \cup {k \in Order : c.live /\ Row(k)' # Row(k)}
    BY <1>4 DEF Serves, formVars
  <2>3. PICK reply \in {"ok", "refused", "failed"} : Answers(c, reply)
    BY <2>1, <2>2, HandlersDo DEF ScreenTypes
  <2>4. CASE c.live
    <3>1. PICK d : /\ d = [c EXCEPT !.reply = reply]
                   /\ calls' = (calls \ {c}) \cup {d}
      BY <2>3, <2>4 DEF Answers
    <3>2. d.fn = c.fn /\ d.live
      BY <2>1, <2>4, <3>1 DEF CallRecord
    <3>3. c.fn \in busy
      BY <2>4 DEF PhoneInv
    <3>4. \A e \in calls' : e.live => e.fn \in busy'
      BY <2>2, <3>1, <3>2, <3>3 DEF PhoneInv
    <3>5. ASSUME NEW e \in calls', NEW f \in calls', e.live, f.live, e.fn = f.fn PROVE e = f
      <4>1. \A x \in calls \ {c} : x.live => x.fn # c.fn
        BY <2>4 DEF PhoneInv
      <4>2. (e \in calls \ {c} \/ e = d) /\ (f \in calls \ {c} \/ f = d)
        BY <3>1
      <4> QED  BY <3>2, <3>5, <4>1, <4>2 DEF PhoneInv
    <3> QED  BY <2>2, <3>3, <3>4, <3>5 DEF PhoneInv
  <2>5. CASE ~c.live
    <3>1. calls' = calls \ {c} /\ unread' = unread
      BY <2>2, <2>3, <2>5 DEF Answers
    <3> QED  BY <2>2, <3>1 DEF PhoneInv
  <2> QED  BY <2>4, <2>5
<1>5. ASSUME NEW c \in calls, Done(c) \/ NotDone(c) \/ Breaks(c) PROVE PhoneInv'
  <2>1. c.live /\ busy' = busy \ {c.fn} /\ reading'
    BY <1>5 DEF Done, NotDone, Breaks, Settled, Catches, ReadsOnSettled, ReadsAgain
  <2>2. \A d \in calls' : d.live => d \in calls \ {c}
    <3>1. CASE Done(c) \/ NotDone(c)
      BY <3>1 DEF Done, NotDone, Settled
    <3>2. CASE Breaks(c)
      <4>1. c \in CallRecord
        BY DEF ScreenTypes
      <4>2. ~[c EXCEPT !.live = FALSE].live
        BY <4>1 DEF CallRecord
      <4>3. calls' = (calls \ {c}) \cup (IF c.reply = "none" THEN {[c EXCEPT !.live = FALSE]} ELSE {})
        BY <3>2 DEF Breaks, Broken
      <4> QED  BY <4>2, <4>3
    <3> QED  BY <1>5, <3>1, <3>2
  <2> QED  BY <2>1, <2>2 DEF PhoneInv
<1>6. CASE Reloads
  <2>1. reading' /\ \A d \in calls' : \E c \in calls : d = [c EXCEPT !.live = FALSE]
    BY <1>6 DEF Reloads, ReadsAgain
  <2>2. ASSUME NEW d \in calls' PROVE ~d.live
    <3>1. PICK c \in calls : d = [c EXCEPT !.live = FALSE]
      BY <2>1
    <3>2. c \in CallRecord
      BY DEF ScreenTypes
    <3> QED  BY <3>1, <3>2 DEF CallRecord
  <2> QED  BY <2>1, <2>2 DEF PhoneInv
<1> QED  BY <1>1, <1>2, <1>3, <1>4, <1>5, <1>6 DEF Next

\* A phone at rest has read everything its own calls have changed: a call
\* that broke off or was answered with an error may have gone through, and
\* the phone asks for a read whatever the answer is.
THEOREM OwnChangesAreRead == Spec => []OwnCallsAreReread
<1> DEFINE Inv == page = "phone" => PhoneInv
<1>1. Init => Inv
  BY DEF Init, PhoneInv
<1>2. ScreenTypes /\ Inv /\ [Next]_vars => Inv'
  <2> SUFFICES ASSUME ScreenTypes, Inv, [Next]_vars PROVE Inv'
    OBVIOUS
  <2>1. page' = page
    BY StepsFit DEF StepFits
  <2> QED  BY <2>1, PhoneStep
<1>3. Inv => OwnCallsAreReread
  BY DEF PhoneInv, OwnCallsAreReread
<1> HIDE DEF Inv
<1> QED  BY <1>1, <1>2, <1>3, TypesHold, PTL DEF Spec

-----------------------------------------------------------------------------
(* Whatever the pages show when a button is pressed, how often it is       *)
(* pressed and in which order the calls are served, the functions move an  *)
(* order as OrderStateMachine has it or not at all.                        *)
THEOREM StaffFollowsTheOrders == Spec => [][Orders!Next]_pair
<1>1. ASSUME NEW k \in Order, Orders!Advance(k) \/ Orders!PayBackPart(k) \/ Orders!Cancel(k)
      PROVE  Orders!Next
  BY <1>1 DEF Orders!Next
<1>2. ASSUME NEW c, Handles(c), pair' # pair
      PROVE  c.fn \notin FormFn /\
             (Orders!Advance(c.order) \/ Orders!PayBackPart(c.order) \/ Orders!Cancel(c.order))
  <2>1. CASE MarkPacked(c) \/ ClaimJob(c) \/ MarkPickedUp(c) \/ ReleaseJob(c) \/ VerifyDeliveryCode(c)
             \/ MarkDeliveryFailed(c)
    BY <1>2, <2>1
    DEF MarkPacked, ClaimJob, MarkPickedUp, ReleaseJob, VerifyDeliveryCode, MarkDeliveryFailed,
        Admits, MovesOn, Replays, serverVars, FormFn
  <2>2. CASE MarkStockOut(c) \/ AdminCancelOrder(c) \/ Refund(c)
    BY <1>2, <2>2 DEF MarkStockOut, AdminCancelOrder, Refund, Admits, Replays, serverVars, FormFn
  <2>3. CASE AdminReassign(c)
    BY <1>2, <2>3 DEF AdminReassign, Admits, MovesOn, Replays, serverVars, FormFn
  <2>4. CASE Refuses(c) \/ SetServicePause(c) \/ AdminAdjustInventory(c) \/ AdminUpsertProduct(c)
    BY <1>2, <2>4
    DEF Refuses, SetServicePause, AdminAdjustInventory, AdminUpsertProduct, Writes, serverVars
  <2> QED  BY <1>2, <2>1, <2>2, <2>3, <2>4 DEF Handles
<1>3. ScreenTypes /\ [Next]_vars => [Orders!Next]_pair
  <2> SUFFICES ASSUME ScreenTypes, [Next]_vars, pair' # pair PROVE Orders!Next
    OBVIOUS
  <2>1. ASSUME NEW c \in calls, Serves(c) PROVE Orders!Next
    <3>1. c.fn \in FormFn \/ c.order \in Order
      BY DEF ScreenTypes
    <3> QED  BY <1>1, <1>2, <2>1, <3>1 DEF Serves
  <2>2. CASE OthersMove
    <3>1. PICK k \in Order : Orders!Advance(k) \/ Orders!PayBackPart(k) \/ Orders!Cancel(k)
      BY <2>2 DEF OthersMove
    <3> QED  BY <1>1, <3>1
  <2>3. ASSUME NEW c \in calls, Done(c) \/ NotDone(c) \/ Breaks(c) PROVE pair' = pair
    BY <2>3 DEF Done, NotDone, Breaks, serverVars
  <2>4. CASE Reads \/ ReadFails \/ Joins \/ Drops \/ HintArrives \/ Reloads \/ OthersSave
    BY <2>4 DEF Reads, ReadFails, Joins, Drops, HintArrives, Reloads, OthersSave, serverVars
  <2>5. CASE OpensDialog \/ ClosesDialog \/ Confirms \/ Saves \/ Taps
    BY <2>5 DEF OpensDialog, ClosesDialog, Confirms, Saves, Taps, serverVars
  <2> QED  BY <2>1, <2>2, <2>3, <2>4, <2>5 DEF Next, vars, serverVars
<1> QED  BY <1>3, TypesHold, PTL DEF Spec
=============================================================================
