------------------------------ MODULE Delivery ------------------------------
(***************************************************************************)
(* The runner's side of an order: claim, pick up, release, deliver with    *)
(* the customer's code, fail, and the administrator's reassignment.        *)
(* Everything but the claim locks the order row first and is one step; a   *)
(* claim looks at the runner's other orders before it locks its own.       *)
(***************************************************************************)
EXTENDS OrderTables

CONSTANTS
  Admin,       \* an administrator, as an actor
  Claim,       \* concurrent claim_job invocations
  NoClaim,     \* the value of an idle one
  Code,        \* delivery codes
  NoCode,      \* delivery_code_hash IS NULL, or no order_delivery_codes row
  MaxAttempts  \* guesses per 15 minutes (5 in the code)

ASSUME DeliveryAssumption ==
  /\ MaxAttempts \in Nat \ {0}
  /\ NoCode \notin Code
  /\ Admin \notin Runner /\ Admin # NoRunner

VARIABLES
  online,    \* runners.is_online
  claim,     \* the runner and order of each claim past its unlocked checks
  code,      \* order_delivery_codes.code, what the customer is shown
  hash,      \* orders.delivery_code_hash, what a guess is compared with
  attempts,  \* delivery_code_attempt events of the last 15 minutes
  earned,    \* runner_earnings.runner_id
  actor      \* actor of the order's last delivery audit row

deliveryVars == <<online, claim, code, hash, attempts, earned, actor>>
unmoved      == <<paymentVars, paymentStatus, payable, applied, packedAt, short,
                  stockVars, walletVars>>

DeliveryInit ==
  /\ online   = {}
  /\ claim    = [k \in Claim |-> NoClaim]
  /\ code     = [o \in Order |-> NoCode]
  /\ hash     = [o \in Order |-> NoCode]
  /\ attempts = [o \in Order |-> 0]
  /\ earned   = [o \in Order |-> NoRunner]
  /\ actor    = [o \in Order |-> NoRunner]

LiveJobsOf(r) == {o \in Order : status[o] \in LiveJob /\ runner[o] = r}

\* assert_runner_actor and the ownership check that follows it.
MayActOn(a, o) == a = Admin \/ a = runner[o]

\* A fresh code for the customer and its hash for the comparison.
MintPlaintextOnly(o) ==  \* a fault: a reassigned order keeps its old hash
  \E v \in Code : /\ code' = [code EXCEPT ![o] = v]
                  /\ hash' = [hash EXCEPT ![o] = IF @ = NoCode THEN v ELSE @]

MintCode(o) ==
  \E v \in Code : /\ code' = [code EXCEPT ![o] = v]
                  /\ hash' = [hash EXCEPT ![o] = v]

WipePlaintextOnly(o) ==  \* a fault: the hash outlives the assignment
  /\ code' = [code EXCEPT ![o] = NoCode]
  /\ UNCHANGED hash

WipeCode(o) ==
  /\ code' = [code EXCEPT ![o] = NoCode]
  /\ hash' = [hash EXCEPT ![o] = NoCode]

GoOnline(r)  == /\ online' = online \cup {r}
                /\ UNCHANGED <<tableVars, claim, code, hash, attempts, earned, actor>>
GoOffline(r) == /\ online' = online \ {r}
                /\ UNCHANGED <<tableVars, claim, code, hash, attempts, earned, actor>>

(***************************************************************************)
(* process_claim_job.  The first half runs without locks; the second is    *)
(* the SKIP LOCKED row lock and the update, which the partial unique index *)
(* on runner_id rejects when the runner took another job in between.       *)
(***************************************************************************)
BeginClaim(k, r, o) ==
  /\ claim[k] = NoClaim
  /\ status[o] # "absent"
  /\ r \in online
  /\ LiveJobsOf(r) = {}
  /\ claim' = [claim EXCEPT ![k] = <<r, o>>]
  /\ UNCHANGED <<tableVars, online, code, hash, attempts, earned, actor>>

NoIndex(r, o) == TRUE  \* a fault: only the unlocked check is left

OneLiveJobIndex(r, o) == LiveJobsOf(r) \ {o} = {}

AssignTo(r, o) ==
  /\ OneLiveJobIndex(r, o)
  /\ status' = [status EXCEPT ![o] = "assigned"]
  /\ runner' = [runner EXCEPT ![o] = r]
  /\ MintCode(o)
  /\ UNCHANGED <<unmoved, online, attempts, earned>>
  /\ Commits(o)

StillLooksFree(o) == status[o] \in {"packed", "assigned"}  \* a fault: not rechecked

Claimable(o) == status[o] = "packed"

FinishClaim(k) ==
  LET r == claim[k][1]
      o == claim[k][2]
  IN
  /\ claim[k] # NoClaim
  /\ Claimable(o)
  /\ AssignTo(r, o)
  /\ actor' = [actor EXCEPT ![o] = r]
  /\ claim' = [claim EXCEPT ![k] = NoClaim]

LoseClaim(k) ==
  /\ claim[k] # NoClaim
  /\ claim' = [claim EXCEPT ![k] = NoClaim]
  /\ UNCHANGED <<tableVars, online, code, hash, attempts, earned, actor>>

MarkPickedUp(a, o) ==
  /\ MayActOn(a, o)
  /\ status[o] = "assigned"
  /\ status' = [status EXCEPT ![o] = "picked_up"]
  /\ actor'  = [actor EXCEPT ![o] = a]
  /\ UNCHANGED <<unmoved, runner, online, claim, code, hash, attempts, earned>>
  /\ Commits(o)

(***************************************************************************)
(* process_release_job, and admin_reassign without a runner.  The trigger  *)
(* clears runner_id.                                                       *)
(***************************************************************************)
ReleaseJob(a, o) ==
  /\ MayActOn(a, o)
  /\ status[o] = "assigned"
  /\ status' = [status EXCEPT ![o] = "packed"]
  /\ runner' = [runner EXCEPT ![o] = NoRunner]
  /\ WipeCode(o)
  /\ actor'  = [actor EXCEPT ![o] = a]
  /\ UNCHANGED <<unmoved, online, claim, attempts, earned>>
  /\ Commits(o)

(***************************************************************************)
(* process_verify_delivery_code.  A guess is logged before it is compared; *)
(* a wrong status raises and takes the log entry back with it.  A replay   *)
(* on a delivered order logs an attempt and nothing else.                  *)
(***************************************************************************)
LogAnyAttempt(o) == attempts' = [attempts EXCEPT ![o] = @ + 1]  \* a fault: no limit

LogAttempt(o) ==
  /\ attempts[o] < MaxAttempts
  /\ attempts' = [attempts EXCEPT ![o] = @ + 1]

RightGuess(o, guess) == hash[o] # NoCode /\ guess = hash[o]

CreditsActor(a, o) ==  \* a fault: whoever entered the code is paid
  earned' = [earned EXCEPT ![o] = IF @ = NoRunner /\ a # Admin THEN a ELSE @]

CreditsRunner(a, o) ==
  earned' = [earned EXCEPT ![o] = IF @ = NoRunner THEN runner[o] ELSE @]

Deliver(a, o, guess) ==
  /\ MayActOn(a, o)
  /\ LogAttempt(o)
  /\ status[o] = "picked_up"
  /\ RightGuess(o, guess)
  /\ status' = [status EXCEPT ![o] = "delivered"]
  /\ CreditsRunner(a, o)
  /\ code'   = [code EXCEPT ![o] = NoCode]
  /\ actor'  = [actor EXCEPT ![o] = a]
  /\ UNCHANGED <<unmoved, runner, online, claim, hash>>
  /\ Commits(o)

SpendGuess(a, o, guess) ==
  /\ MayActOn(a, o)
  /\ LogAttempt(o)
  /\ \/ status[o] = "delivered"
     \/ status[o] = "picked_up" /\ ~RightGuess(o, guess)
  /\ UNCHANGED <<tableVars, online, claim, code, hash, earned, actor>>

AttemptsLapse(o) ==
  /\ attempts[o] > 0
  /\ attempts' = [attempts EXCEPT ![o] = @ - 1]
  /\ UNCHANGED <<tableVars, online, claim, code, hash, earned, actor>>

\* process_mark_delivery_failed: runner_id stays, the code does not.
MarkDeliveryFailed(a, o) ==
  /\ MayActOn(a, o)
  /\ status[o] = "picked_up"
  /\ status' = [status EXCEPT ![o] = "delivery_failed"]
  /\ WipeCode(o)
  /\ actor'  = [actor EXCEPT ![o] = a]
  /\ UNCHANGED <<unmoved, runner, online, claim, attempts, earned>>
  /\ Commits(o)

(***************************************************************************)
(* process_admin_reassign to a named runner: a swap, or a new attempt      *)
(* after a failed delivery.  The named runner need not be online.          *)
(***************************************************************************)
Reassign(o, r) ==
  /\ status[o] \in {"assigned", "delivery_failed"}
  /\ ~(status[o] = "assigned" /\ runner[o] = r)
  /\ AssignTo(r, o)
  /\ actor' = [actor EXCEPT ![o] = Admin]
  /\ UNCHANGED claim

DeliveryNext ==
  \/ \E r \in Runner : GoOnline(r) \/ GoOffline(r)
  \/ \E k \in Claim : \/ \E r \in Runner, o \in Order : BeginClaim(k, r, o)
                      \/ FinishClaim(k)
                      \/ LoseClaim(k)
  \/ \E o \in Order : \/ \E a \in Runner \cup {Admin} :
                           \/ MarkPickedUp(a, o)
                           \/ ReleaseJob(a, o)
                           \/ MarkDeliveryFailed(a, o)
                           \/ \E g \in Code : Deliver(a, o, g) \/ SpendGuess(a, o, g)
                      \/ AttemptsLapse(o)
                      \/ \E r \in Runner : Reassign(o, r)
=============================================================================
