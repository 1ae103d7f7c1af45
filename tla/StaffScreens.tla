---------------------------- MODULE StaffScreens ----------------------------
(***************************************************************************)
(* One staff member's screen: a page of the console or of the store app,   *)
(* or the runner's phone.  It shows what it last read of the database,     *)
(* reads again when Realtime hints at a change, and acts through the Edge  *)
(* functions over a connection that can break at any time.                 *)
(*                                                                         *)
(* A hint carries nothing and is sent for a row the reader may still see.  *)
(* A read that is overtaken by another is dropped, so the one that counts  *)
(* is a single step.                                                       *)
(***************************************************************************)
EXTENDS EdgeFunctions, Naturals, FiniteSets

CONSTANTS
  Page,     \* the pages a run looks at
  Hidden,   \* a row the page does not show
  MaxKeys,  \* bound: [Page -> dialogs opened and idempotency keys drawn]
  MaxCalls, \* bound: [Page -> calls under way]
  MaxMoves  \* bound: moves of the other people

VARIABLES
  page,
  seen,     \* [Order -> what the page shows of it, or Hidden]
  form,     \* the setting a form was filled with
  reading,  \* a read has been asked for
  failed,   \* the last one did not get through
  live,     \* the channel is subscribed
  hint,     \* a hint is under way, the quarter-second it is held back included
  dialog,   \* the open dialog of a console page
  busy,     \* functions whose buttons are disabled
  notice,   \* what the page says about the last call
  drawn,    \* keys drawn
  unread,   \* history: orders a call has changed since the last read
  moves     \* moves of the other people

dataVars == <<seen, form, reading, failed, unread>>
liveVars == <<live, hint>>
formVars == <<dialog, busy, notice, drawn>>
vars     == <<serverVars, calls, acted, page, dataVars, liveVars, formVars, moves>>

FormPages == {"settings", "inventory", "catalog"}
Console   == {"orders", "order", "failures", "runners", "refunds"} \cup FormPages
Role ==
  CASE page \in Console -> "admin" [] page = "phone" -> "runner" [] OTHER -> "packer"

NoDialog == [key |-> 0, order |-> Anything, fn |-> "none"]
Silence  == [says |-> "nothing", fn |-> "none", order |-> Anything, of |-> 0]

Row(k) == [status |-> StatusOf(k), paid |-> pair[k][2], holder |-> holder[k], short |-> k \in short]

(***************************************************************************)
(* orders_select, the row level policy: of which rows the reader is told.  *)
(***************************************************************************)
Readable(r) ==
  CASE Role = "admin"  -> TRUE
    [] Role = "packer" -> r.status \in {"confirmed", "packed"}
    [] Role = "runner" -> r.status = "packed" \/ r.holder = Me

(***************************************************************************)
(* The query behind each page.                                             *)
(***************************************************************************)
OnOrdersPage(r)    == TRUE
OnOrderDetail(r)   == TRUE
OnFailuresPage(r)  == r.status = "delivery_failed"
OnRunnersPage(r)   == r.status \in {"assigned", "picked_up"}
OnRefundsPage(r)   == r.paid = "captured"
OnPackingQueue(r)  == r.status = "confirmed"
OnPackingDetail(r) == TRUE
OnPhone(r)         == \/ r.status = "packed" /\ r.holder = Nobody
                      \/ r.status \in {"assigned", "picked_up"}

Listed(r) ==
  /\ Readable(r)
  /\ CASE page = "orders"   -> OnOrdersPage(r)
       [] page = "order"    -> OnOrderDetail(r)
       [] page = "failures" -> OnFailuresPage(r)
       [] page = "runners"  -> OnRunnersPage(r)
       [] page = "refunds"  -> OnRefundsPage(r)
       [] page = "queue"    -> OnPackingQueue(r)
       [] page = "packing"  -> OnPackingDetail(r)
       [] page = "phone"    -> OnPhone(r)
       [] OTHER -> FALSE

Rendered(k) == IF Listed(Row(k)) THEN Row(k) ELSE Hidden

\* The pages that subscribe to changes of orders.
HasChannel == page \notin {"refunds", "packing", "inventory", "catalog"}

Init ==
  /\ page \in Page
  /\ pair \in [Order -> {"confirmed", "assigned", "picked_up"} \X {"captured"}]
  /\ holder \in [Order -> {Me, Nobody}]  \* bound: Other comes later
  /\ \A k \in Order : (holder[k] = Nobody) <=> (StatusOf(k) = "confirmed")
  /\ short = {} /\ setting \in Setting /\ moves = 0
  /\ calls = {} /\ acted = {}
  /\ seen = [k \in Order |-> Hidden] /\ form = setting
  /\ reading = TRUE /\ failed = FALSE /\ unread = {}
  /\ live = FALSE /\ hint = FALSE
  /\ dialog = NoDialog /\ busy = {} /\ notice = Silence /\ drawn = 0

(***************************************************************************)
(* Realtime and the reads it asks for.                                     *)
(***************************************************************************)
ReadsAgain == reading' = TRUE /\ UNCHANGED <<seen, form, failed, unread>>

Reads ==
  /\ reading
  /\ seen' = [k \in Order |-> Rendered(k)] /\ form' = setting
  /\ reading' = FALSE /\ failed' = FALSE /\ unread' = {}
  /\ UNCHANGED <<serverVars, calls, acted, page, liveVars, formVars, moves>>

ReadFails ==
  /\ reading
  /\ reading' = FALSE /\ failed' = TRUE
  /\ UNCHANGED <<serverVars, calls, acted, page, seen, form, unread, liveVars, formVars, moves>>

JoinsAndWaits == UNCHANGED dataVars  \* a fault: what was missed is not made up for

CatchesUp == ReadsAgain

Joins ==
  /\ HasChannel /\ ~live
  /\ live' = TRUE
  /\ CatchesUp
  /\ UNCHANGED <<serverVars, calls, acted, page, hint, formVars, moves>>

Drops ==
  /\ live
  /\ live' = FALSE /\ hint' \in {hint, FALSE}
  /\ UNCHANGED <<serverVars, calls, acted, page, dataVars, formVars, moves>>

HintArrives ==
  /\ hint
  /\ hint' = FALSE
  /\ ReadsAgain
  /\ UNCHANGED <<serverVars, calls, acted, page, live, formVars, moves>>

Notifies ==
  hint' = (hint \/ (live /\ \E k \in Order : Row(k)' # Row(k) /\ Readable(Row(k)')))

(***************************************************************************)
(* What a page offers to do with a row it shows, as the function called    *)
(* and the runner or the amount it is given.                               *)
(***************************************************************************)
Offer(fn, to) == [fn |-> fn, to |-> to]

ReassignsTo(r) == {Offer("admin_reassign", to) : to \in Runners \ {r.holder}}
SendsBack(r)   == IF r.status = "assigned" THEN {Offer("admin_reassign", Nobody)} ELSE {}
Cancels        == {Offer("admin_cancel_order", Nobody)}

OrderActions(r) ==
  UNION { IF r.status \in {"delivery_failed", "assigned", "picked_up"}
          THEN ReassignsTo(r) \cup SendsBack(r) ELSE {},
          IF r.status \in {"confirmed", "assigned", "delivery_failed"} THEN Cancels ELSE {} }

FailureQueue(r) == {Offer("admin_reassign", to) : to \in Runners} \cup Cancels

RunnerBoard(r) == ReassignsTo(r) \cup SendsBack(r)

RefundBoard(r) == {Offer("refund", Nobody)}

PackingActions(r) ==
  IF r.status = "packed" THEN {}
  ELSE {Offer("mark_packed", Nobody)} \cup
       (IF r.short THEN {} ELSE {Offer("mark_stock_out", Nobody)})

HasJob == \E k \in Order : seen[k] # Hidden /\ seen[k].holder = Me

\* The forms: the pause and the queue depth of a store, the count on a shelf,
\* a product.
ServiceControls == {Offer("set_service_pause", v) : v \in Setting}
InventoryBoard  == {Offer("admin_adjust_inventory", v) : v \in Setting}
CatalogBoard    == {Offer("admin_upsert_product", v) : v \in Setting}

JobQueue(r) ==
  IF r.status = "packed" /\ ~HasJob THEN {Offer("claim_job", Nobody)} ELSE {}

ActiveJob(r) ==
  CASE r.status = "assigned"  -> {Offer(fn, Nobody) : fn \in {"mark_picked_up", "release_job"}}
    [] r.status = "picked_up" ->
         {Offer(fn, Nobody) : fn \in {"verify_delivery_code", "mark_delivery_failed"}}
    [] OTHER -> {}

Offered(k) ==
  IF seen[k] = Hidden THEN {}
  ELSE CASE page = "order"    -> OrderActions(seen[k])
         [] page = "failures" -> FailureQueue(seen[k])
         [] page = "runners"  -> RunnerBoard(seen[k])
         [] page = "refunds"  -> RefundBoard(seen[k])
         [] page = "packing"  -> PackingActions(seen[k])
         [] page = "phone"    -> JobQueue(seen[k]) \cup ActiveJob(seen[k])
         [] OTHER -> {}

(***************************************************************************)
(* A call.  of is what must change once only: the dialog, or the line of a *)
(* stock-out.                                                              *)
(***************************************************************************)
Call(fn, k, to, amount, of, key) ==
  [fn |-> fn, order |-> k, to |-> to, amount |-> amount, of |-> of, key |-> key,
   role |-> Role, reply |-> "none", live |-> TRUE]

Sends(c) ==
  /\ Cardinality(calls) < MaxCalls[page]
  /\ calls' = calls \cup {c}
  /\ busy'  = busy \cup {c.fn}
  /\ notice' = Silence

\* A console page asks in a dialog first.  The refund's key is drawn as the
\* dialog opens, the cancellation's on every click.
OpensDialog ==
  /\ page \in Console \ FormPages /\ dialog = NoDialog /\ drawn < MaxKeys[page]
  /\ \E k \in Order : \E o \in Offered(k) :
       dialog' = [key |-> drawn + 1, order |-> k, fn |-> o.fn]
  /\ drawn' = drawn + 1
  /\ notice' = Silence
  /\ UNCHANGED <<serverVars, calls, acted, page, dataVars, liveVars, busy, moves>>

ClosesDialog ==
  /\ dialog # NoDialog /\ busy = {}
  /\ dialog' = NoDialog /\ notice' = Silence
  /\ UNCHANGED <<serverVars, calls, acted, page, dataVars, liveVars, busy, drawn, moves>>

KeyPerClick == drawn' = drawn + 1  \* a fault

KeyOfTheDialog == drawn' = drawn

Confirms ==
  /\ dialog # NoDialog /\ busy = {}
  /\ LET k == dialog.order IN
     \/ /\ dialog.fn = "refund"
        /\ KeyOfTheDialog
        /\ \E amount \in {"part", "whole"} :
             Sends(Call("refund", k, Nobody, amount, dialog.key,
                        IF drawn' = drawn THEN dialog.key ELSE drawn'))
     \/ /\ dialog.fn = "admin_cancel_order"
        /\ drawn < MaxKeys[page] /\ drawn' = drawn + 1
        /\ Sends(Call("admin_cancel_order", k, Nobody, "whole", dialog.key, drawn'))
     \/ /\ dialog.fn = "admin_reassign" /\ drawn' = drawn
        /\ \E o \in {o \in Offered(k) : o.fn = "admin_reassign"} :
             Sends(Call("admin_reassign", k, o.to, "none", dialog.key, 0))
  /\ UNCHANGED <<serverVars, acted, page, dataVars, liveVars, dialog, moves>>

Saves ==
  /\ busy = {}
  /\ \/ page = "settings"  /\ \E o \in ServiceControls : Sends(Call(o.fn, Anything, o.to, "none", 0, 0))
     \/ page = "inventory" /\ \E o \in InventoryBoard : Sends(Call(o.fn, Anything, o.to, "none", 0, 0))
     \/ page = "catalog"   /\ \E o \in CatalogBoard : Sends(Call(o.fn, Anything, o.to, "none", 0, 0))
  /\ UNCHANGED <<serverVars, acted, page, dataVars, liveVars, dialog, drawn, moves>>

\* The store's buttons are disabled together, the runner's one by one.
Taps ==
  /\ page \in {"packing", "phone"}
  /\ \E k \in Order : \E o \in Offered(k) :
       /\ IF page = "phone" THEN o.fn \notin busy ELSE busy = {}
       /\ \/ o.fn # "mark_stock_out" /\ Sends(Call(o.fn, k, Nobody, "none", 0, 0)) /\ drawn' = drawn
          \/ /\ o.fn = "mark_stock_out" /\ drawn < MaxKeys[page] /\ drawn' = drawn + 1
             /\ Sends(Call(o.fn, k, Nobody, "none", k, drawn'))
  /\ UNCHANGED <<serverVars, acted, page, dataVars, liveVars, dialog, moves>>

Serves(c) ==
  /\ c.reply = "none"
  /\ Handles(c)
  /\ unread' = unread \cup {k \in Order : c.live /\ Row(k)' # Row(k)}
  /\ Notifies
  /\ UNCHANGED <<page, seen, form, reading, failed, live, formVars, moves>>

(***************************************************************************)
(* The answer, if the page that asked is still there.  The phone reads     *)
(* again whatever the answer is, the others after a good one only.         *)
(***************************************************************************)
SaysOf(c, what) == [says |-> what, fn |-> c.fn, order |-> c.order, of |-> c.of]

Settled(c) == calls' = calls \ {c} /\ busy' = busy \ {c.fn}

Done(c) ==
  /\ c.live /\ c.reply = "ok"
  /\ Settled(c)
  /\ dialog' = NoDialog
  /\ notice' = SaysOf(c, "done")
  /\ ReadsAgain
  /\ UNCHANGED <<serverVars, acted, page, liveVars, drawn, moves>>

ReadsOnSuccess == UNCHANGED dataVars  \* a fault: onSuccess for onSettled

ReadsOnSettled == IF page = "phone" THEN ReadsAgain ELSE UNCHANGED dataVars

\* Codes the page has a sentence of their own for are "refused"; for all
\* others it says that nothing was changed.
NotDone(c) ==
  /\ c.live /\ c.reply \in {"refused", "failed"}
  /\ Settled(c)
  /\ notice' = SaysOf(c, IF c.reply = "failed" THEN "nothing was changed" ELSE "refused")
  /\ ReadsOnSettled
  /\ UNCHANGED <<serverVars, acted, page, liveVars, dialog, drawn, moves>>

(***************************************************************************)
(* The connection breaks, before or after the call was served.  The        *)
(* console catches it, the phone takes it for an error; the packing page   *)
(* does neither, and its buttons stay as they are.                         *)
(***************************************************************************)
Broken(c) == (calls \ {c}) \cup (IF c.reply = "none" THEN {[c EXCEPT !.live = FALSE]} ELSE {})

NobodyCatches(c) == UNCHANGED <<busy, notice>>  \* a fault on every other page

Catches(c) ==
  IF page = "packing" THEN UNCHANGED <<busy, notice>>
  ELSE busy' = busy \ {c.fn} /\ notice' = SaysOf(c, "nothing was changed")

Breaks(c) ==
  /\ c.live
  /\ calls' = Broken(c)
  /\ Catches(c)
  /\ ReadsOnSettled
  /\ UNCHANGED <<serverVars, acted, page, liveVars, dialog, drawn, moves>>

\* The page is left and opened again.
Reloads ==
  /\ calls' = {[c EXCEPT !.live = FALSE] : c \in {d \in calls : d.reply = "none"}}
  /\ busy' = {} /\ dialog' = NoDialog /\ notice' = Silence
  /\ ReadsAgain
  /\ live' = FALSE /\ hint' = FALSE
  /\ UNCHANGED <<serverVars, acted, page, drawn, moves>>

(***************************************************************************)
(* Everybody else.  Bound: while a form is open the orders stand still.    *)
(***************************************************************************)
CarriedBy(s) ==
  CASE s = "packed" -> {Nobody} [] s = "assigned" -> Runners [] OTHER -> {}

OthersMove ==
  /\ page \notin FormPages /\ moves < MaxMoves
  /\ moves' = moves + 1
  /\ \E k \in Order :
       \/ /\ Orders!Advance(k)
          /\ \E r \in IF CarriedBy(pair'[k][1]) = {} THEN {holder[k]} ELSE CarriedBy(pair'[k][1]) :
               HandedTo(k, r)
       \/ (Orders!PayBackPart(k) \/ Orders!Cancel(k)) /\ UNCHANGED holder
       \/ /\ StatusOf(k) = "assigned"
          /\ \E r \in Runners \ {holder[k]} : HandedTo(k, r)
          /\ UNCHANGED pair
  /\ UNCHANGED <<short, setting, calls, acted, page, dataVars, live, formVars>>
  /\ Notifies

OthersSave ==
  /\ page \in FormPages
  /\ setting' \in Setting
  /\ UNCHANGED <<pair, holder, short, calls, acted, page, dataVars, liveVars, formVars, moves>>

Next ==
  \/ Reads \/ ReadFails \/ Joins \/ Drops \/ HintArrives
  \/ OpensDialog \/ ClosesDialog \/ Confirms \/ Saves \/ Taps
  \/ \E c \in calls : Serves(c) \/ Done(c) \/ NotDone(c) \/ Breaks(c)
  \/ Reloads \/ OthersMove \/ OthersSave

Spec == Init /\ [][Next]_vars

(***************************************************************************)
(* A read that was asked for ends one way or the other, a hint is passed   *)
(* on, a lost channel is joined again, and a call is answered or breaks.   *)
(***************************************************************************)
Settles == \E c \in calls : Done(c) \/ NotDone(c) \/ Breaks(c)

FairSpec ==
  /\ Spec
  /\ WF_vars(Reads \/ ReadFails) /\ WF_vars(Joins) /\ WF_vars(HintArrives)
  /\ WF_vars(Settles)

(***************************************************************************)
(* A dialog that stays open over lost and refused answers, and a line that *)
(* is declared missing again and again, are paid back once.                *)
(***************************************************************************)
PaysOncePerDialog ==
  \A a, b \in acted : a.of = b.of /\ a.of # 0 => a.key = b.key

(***************************************************************************)
(* The runner's phone, at rest, shows what its own calls have changed,     *)
(* also when it was told that they failed.                                 *)
(***************************************************************************)
OwnCallsAreReread ==
  page = "phone" /\ busy = {} /\ ~reading /\ ~failed => unread = {}

(***************************************************************************)
(* A delivery or a cancellation that is reported as done has happened and  *)
(* is not undone, although a wrong code is answered with a value.          *)
(***************************************************************************)
DoneIsDone ==
  /\ notice.says = "done" /\ notice.fn = "verify_delivery_code"
       => StatusOf(notice.order) = "delivered"
  /\ notice.says = "done" /\ notice.fn = "admin_cancel_order"
       => StatusOf(notice.order) = "cancelled"

(***************************************************************************)
(* Whatever hints are lost while the channel is down, a page that has one  *)
(* comes back to showing every row its reader may see as it is, or reports *)
(* that it cannot.                                                         *)
(***************************************************************************)
ScreenCatchesUp ==
  []<>(HasChannel => \/ failed
                     \/ \A k \in Order : Readable(Row(k)) => seen[k] = Rendered(k))

(***************************************************************************)
(* No call leaves its button disabled for good, the packing page's aside.  *)
(***************************************************************************)
ButtonsComeBack == page # "packing" /\ busy # {} ~> busy = {}

(***************************************************************************)
(* A page that shows its orders as they are offers nothing the server is   *)
(* sure to refuse.                                                         *)
(***************************************************************************)
OffersCanSucceed ==
  \A k \in Order : seen[k] = Rendered(k) =>
    \A o \in Offered(k) : StatusOf(k) \in ActsOn(o.fn, o.to)

(***************************************************************************)
(* Of a call that is said to have changed nothing, nothing is changed.     *)
(***************************************************************************)
NothingWasChanged ==
  notice.says = "nothing was changed" /\ notice.of # 0
    => \A a \in acted : a.of # notice.of
=============================================================================
