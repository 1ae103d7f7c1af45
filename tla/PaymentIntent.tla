--------------------------- MODULE PaymentIntent ---------------------------
(***************************************************************************)
(* How an order gets its gateway reference: create_order's pre-check and   *)
(* its Phases B and C, called any number of times with one idempotency     *)
(* key, while the customer pays through the references handed out, the     *)
(* gateway reports what happened, and the reservation expires.             *)
(*                                                                         *)
(* One order the gateway has a share in, and its payments row; rows of     *)
(* other orders share nothing with it.  What Phase A writes besides the    *)
(* two rows is in Checkout, what a webhook writes besides their status is  *)
(* in Payments.                                                            *)
(***************************************************************************)
EXTENDS Naturals

CONSTANTS
  Request,     \* invocations of the function under way at one time
  Ref,         \* references the gateway may issue
  NoRef,       \* a null gateway_order_ref
  MaxPersists  \* attempts of Phase C

ASSUME IntentAssumption == NoRef \notin Ref /\ MaxPersists \in Nat \ {0}

VARIABLES
  order,     \* orders.status
  ref,       \* payments.gateway_order_ref
  claim,     \* the age of gateway_intent_requested_at: "none", "fresh", "stale"
  refunds,   \* wallet credits for late captures
  spent,     \* webhook_events
  at,        \* where each invocation is
  held,      \* the reference its gateway call returned
  tries,     \* attempts of Phase C it has made
  issued,    \* references the gateway has returned
  offered,   \* references whose checkout parameters a client was sent
  sent,      \* events the gateway has to report
  overran    \* history: a claim has gone stale under a live invocation

rowVars  == <<order, ref, claim, refunds, spent>>
callVars == <<at, held, tries>>
vars     == <<rowVars, callVars, issued, offered, sent, overran>>

Kind  == {"payment.captured", "order.paid", "payment.failed"}
Event == Kind \X Ref

\* Invocations that claimed the right to call the gateway and are not done.
UnderWay == {r \in Request : at[r] \in {"calling", "persisting"}}

Init ==
  /\ order = "absent" /\ ref = NoRef /\ claim = "none"
  /\ refunds = 0 /\ spent = {}
  /\ at = [r \in Request |-> "idle"]
  /\ held = [r \in Request |-> NoRef]
  /\ tries = [r \in Request |-> 0]
  /\ issued = {} /\ offered = {} /\ sent = {} /\ overran = FALSE

(***************************************************************************)
(* An invocation moves on, replies without checkout parameters, or replies *)
(* with those of f.                                                        *)
(***************************************************************************)
Goes(r, place) == at' = [at EXCEPT ![r] = place]

Replies(r) ==
  /\ at'    = [at EXCEPT ![r] = "idle"]
  /\ held'  = [held EXCEPT ![r] = NoRef]
  /\ tries' = [tries EXCEPT ![r] = 0]

Offers(r, f) == Replies(r) /\ offered' = offered \cup {f}

(***************************************************************************)
(* The pre-check by idempotency key.  Without an order Phase A comes next; *)
(* the call that loses its race fetches the row again.                     *)
(***************************************************************************)
LookUp(r) ==
  /\ at[r] = "idle" /\ order = "absent"
  /\ Goes(r, "inserting")
  /\ UNCHANGED <<rowVars, held, tries, issued, offered, sent, overran>>

PhaseA(r) ==
  /\ at[r] = "inserting"
  /\ \/ order = "absent" /\ order' = "created" /\ Goes(r, "claiming")
        /\ UNCHANGED <<held, tries>>
     \/ order = "absent" /\ order' = order /\ Replies(r)  \* rejected: nothing was written
     \/ order # "absent" /\ order' = order /\ Goes(r, "refetching")
        /\ UNCHANGED <<held, tries>>
  /\ UNCHANGED <<ref, claim, refunds, spent, issued, offered, sent, overran>>

Resume(r) ==
  /\ at[r] \in {"idle", "refetching"} /\ order # "absent"
  /\ \/ order # "created" /\ Replies(r) /\ offered' = offered
     \/ order = "created" /\ ref # NoRef /\ Offers(r, ref)
     \/ order = "created" /\ ref = NoRef /\ claim = "fresh" /\ Replies(r) /\ offered' = offered
     \/ /\ order = "created" /\ ref = NoRef /\ claim # "fresh"
        /\ Goes(r, "claiming") /\ UNCHANGED <<held, tries, offered>>
  /\ UNCHANGED <<rowVars, issued, sent, overran>>

(***************************************************************************)
(* claim_payment_intent, on the row as it is now.  It does not ask whether *)
(* the order still waits.                                                  *)
(***************************************************************************)
ClaimableWhateverIsOnFile == claim # "fresh"  \* a fault: the recorded reference is not looked at
ClaimableOverALease == ref = NoRef            \* a fault: the marker's age is not looked at

Claimable == ref = NoRef /\ claim # "fresh"

ClaimIntent(r) ==
  /\ at[r] = "claiming"
  /\ \/ Claimable /\ claim' = "fresh" /\ Goes(r, "calling")
        /\ UNCHANGED <<held, tries, offered>>
     \/ ~Claimable /\ ref # NoRef /\ Offers(r, ref) /\ claim' = claim
     \/ ~Claimable /\ ref = NoRef /\ Replies(r) /\ UNCHANGED <<claim, offered>>
  /\ UNCHANGED <<order, ref, refunds, spent, issued, sent, overran>>

(***************************************************************************)
(* The gateway call, with no transaction open.  A call that fails may have *)
(* made a gateway order too; its reference is in nobody's hands.           *)
(***************************************************************************)
GatewayAnswers(r) ==
  /\ at[r] = "calling"
  /\ \E f \in Ref \ issued : /\ issued' = issued \cup {f}
                             /\ held' = [held EXCEPT ![r] = f]
  /\ Goes(r, "persisting")
  /\ UNCHANGED <<rowVars, tries, offered, sent, overran>>

GatewayFails(r) ==
  /\ at[r] = "calling"
  /\ Replies(r)
  /\ UNCHANGED <<rowVars, issued, offered, sent, overran>>

(***************************************************************************)
(* Phase C.  persist_gateway_ref overwrites whatever is on file.  An       *)
(* attempt that reports an error may have been committed all the same.     *)
(***************************************************************************)
RecordsWhileWaiting(f) == ref' = IF order = "created" THEN f ELSE ref  \* a fault

Records(f) == ref' = f

OneMoreAttempt(r) == tries[r] < MaxPersists  \* a fault

AttemptsLeft(r) == tries[r] + 1 < MaxPersists

Persist(r) ==
  /\ at[r] = "persisting"
  /\ Records(held[r])
  /\ Offers(r, held[r])
  /\ UNCHANGED <<order, claim, refunds, spent, issued, sent, overran>>

PersistFails(r) ==
  /\ at[r] = "persisting"
  /\ Records(held[r]) \/ ref' = ref
  /\ \/ AttemptsLeft(r) /\ tries' = [tries EXCEPT ![r] = @ + 1] /\ UNCHANGED <<at, held>>
     \/ ~AttemptsLeft(r) /\ Replies(r)
  /\ UNCHANGED <<order, claim, refunds, spent, issued, offered, sent, overran>>

\* The platform ends an invocation; its claim stays.
Dies(r) ==
  /\ at[r] # "idle"
  /\ Replies(r)
  /\ UNCHANGED <<rowVars, issued, offered, sent, overran>>

\* Sixty seconds pass over the marker.
LeaseRunsOut ==
  /\ claim = "fresh"
  /\ claim' = "stale"
  /\ overran' = (overran \/ UnderWay # {})
  /\ UNCHANGED <<order, ref, refunds, spent, callVars, issued, offered, sent>>

(***************************************************************************)
(* The customer at the gateway's checkout, which needs the parameters of a *)
(* reference.  A payment is reported twice, as payment.captured and as     *)
(* order.paid, each with an event id of its own.                           *)
(***************************************************************************)
Pays(f) ==
  /\ f \in offered /\ <<"payment.captured", f>> \notin sent
  /\ sent' = sent \cup {<<"payment.captured", f>>, <<"order.paid", f>>}
  /\ UNCHANGED <<rowVars, callVars, issued, offered, overran>>

Declines(f) ==
  /\ f \in offered /\ <<"payment.failed", f>> \notin sent
  /\ sent' = sent \cup {<<"payment.failed", f>>}
  /\ UNCHANGED <<rowVars, callVars, issued, offered, overran>>

(***************************************************************************)
(* One event, in any order, at the webhook.  Its id is spent before its    *)
(* reference is looked up, so an event for a reference that is not on file *)
(* is never looked at again.                                               *)
(***************************************************************************)
CreditedOrNot == TRUE  \* a fault: a second report of one payment is credited too

NotYetCredited == refunds = 0

Captures(e) == e[1] # "payment.failed"

Settles(e) ==
  \/ order = "created" /\ Captures(e) /\ order' = "confirmed" /\ refunds' = refunds
  \/ order = "created" /\ ~Captures(e) /\ order' = "payment_failed" /\ refunds' = refunds
  \/ order = "payment_failed" /\ Captures(e) /\ NotYetCredited
     /\ order' = order /\ refunds' = refunds + 1

Acts(e) ==
  /\ e[2] = ref
  /\ \/ order = "created"
     \/ order = "payment_failed" /\ Captures(e) /\ NotYetCredited

Deliver(e) ==
  /\ e \in sent \ spent
  /\ spent' = spent \cup {e}
  /\ \/ Acts(e) /\ Settles(e)
     \/ ~Acts(e) /\ UNCHANGED <<order, refunds>>
  /\ UNCHANGED <<ref, claim, callVars, issued, offered, sent, overran>>

\* expire_stale_reservations reaches the order.
Expires ==
  /\ order = "created"
  /\ order' = "payment_failed"
  /\ UNCHANGED <<ref, claim, refunds, spent, callVars, issued, offered, sent, overran>>

CreateOrder(r) ==
  \/ LookUp(r) \/ PhaseA(r) \/ Resume(r) \/ ClaimIntent(r)
  \/ GatewayAnswers(r) \/ GatewayFails(r) \/ Persist(r) \/ PersistFails(r) \/ Dies(r)

Next ==
  \/ \E r \in Request : CreateOrder(r)
  \/ \E f \in Ref : Pays(f) \/ Declines(f)
  \/ \E e \in Event : Deliver(e)
  \/ LeaseRunsOut \/ Expires

Spec == Init /\ [][Next]_vars

\* The gateway repeats an event until it is acknowledged.
FairSpec == Spec /\ \A e \in Event : WF_vars(Deliver(e))

(***************************************************************************)
(* Types of the variables; an invocation in Phase C holds a reference.     *)
(***************************************************************************)
TypeOK ==
  /\ order \in {"absent", "created", "confirmed", "payment_failed"}
  /\ ref \in Ref \cup {NoRef}
  /\ claim \in {"none", "fresh", "stale"}
  /\ refunds \in Nat
  /\ spent \subseteq Event /\ sent \subseteq Event
  /\ at \in [Request -> {"idle", "inserting", "refetching", "claiming", "calling",
                         "persisting"}]
  /\ held \in [Request -> Ref \cup {NoRef}]
  /\ \A r \in Request : at[r] = "persisting" => held[r] \in Ref
  /\ tries \in [Request -> 0 .. MaxPersists - 1]
  /\ issued \subseteq Ref /\ offered \subseteq Ref
  /\ overran \in BOOLEAN

(***************************************************************************)
(* Unless an invocation has outlived its claim, only one is between the    *)
(* claim and the end of Phase C: retries and duplicates of create_order    *)
(* never have two gateway calls under way.                                 *)
(***************************************************************************)
OneCallAtATime == overran \/ \A r, s \in UnderWay : r = s

(***************************************************************************)
(* Unless an invocation has outlived its claim, every reference a customer *)
(* was sent to pay is the one on file, whatever was retried, lost or       *)
(* expired since, so that the webhook finds the order of every capture.    *)
(***************************************************************************)
OfferedRefIsOnFile == overran \/ \A f \in offered : f = ref

(***************************************************************************)
(* One order is settled once: either confirmed or credited back, not both, *)
(* the credit not twice although each payment is reported twice, and       *)
(* neither of them without a capture.                                      *)
(***************************************************************************)
SettledOnce ==
  /\ refunds <= 1
  /\ refunds > 0 => order = "payment_failed"
  /\ refunds > 0 \/ order = "confirmed" => \E f \in Ref : <<"payment.captured", f>> \in sent

(***************************************************************************)
(* Money the customer has paid is never forgotten: a capture is answered   *)
(* by a confirmed order or by a credit, also when the order expired while  *)
(* its reference was being set up.                                         *)
(***************************************************************************)
CaptureIsAnswered ==
  \A f \in Ref : <<"payment.captured", f>> \in sent
                   ~> (order = "confirmed" \/ refunds > 0 \/ overran)
=============================================================================
