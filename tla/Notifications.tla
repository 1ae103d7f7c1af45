---------------------------- MODULE Notifications ----------------------------
(***************************************************************************)
(* Push notifications: the trigger that turns a status change of an order  *)
(* into a row of notification_outbox, the dispatchers the scheduler starts *)
(* every minute, the provider, and the devices, which register a token for *)
(* whoever is signed in on them.                                           *)
(*                                                                         *)
(* A dispatcher claims the rows that are due, posts one message per row    *)
(* and device of its owner, and marks the rows by the provider's tickets,  *)
(* one at a time.  A claim is a lease of sixty seconds, which a dispatcher *)
(* can outlive and which outlives one that crashes.                        *)
(***************************************************************************)
EXTENDS AppSession  \* a Device is a push token

CONSTANTS
  Event,        \* the events of one customer's orders, one row each
  Customer,     \* the owner of the rows
  Start,        \* a bound: <<devices somebody uses, devices the customer signed out on before>>
  Dispatcher,
  MaxAttempts   \* 5 in the code

ASSUME NotificationsAssumption ==
  /\ Customer \in Person /\ MaxAttempts \in Nat \ {0}
  /\ Start \subseteq (SUBSET Device) \X (SUBSET Device)

VARIABLES
  inUse,     \* the devices somebody uses, which does not change
  row,       \* [Event -> its row]
  owner,     \* push_tokens: [Device -> who it is registered to, or Nobody]
  knows,     \* devices whose app remembers having registered
  asking,    \* register_push_token calls under way
  batch,     \* [Dispatcher -> the messages it has claimed, not yet posted]
  tickets,   \* [Dispatcher -> messages it has tickets for, not yet marked]
  accepted,  \* history: [Event \X Device -> messages the provider took]
  givenBack  \* history: [Event \X Device -> claims on its row that another device's failure ended]

pushVars   == <<owner, knows, asking, inUse>>
deviceVars == <<sessionVars, pushVars>>
history    == <<accepted, givenBack>>
vars       == <<row, deviceVars, batch, tickets, history>>

NoRow  == [status |-> "absent", attempts |-> 0, lease |-> "free", sent |-> FALSE, lapses |-> 0]

Init ==
  /\ row = [e \in Event |-> NoRow]
  /\ SessionInit
  /\ \E s \in Start : /\ inUse = s[1]
                      /\ owner = [t \in Device |-> IF t \in s[2] THEN Customer ELSE Nobody]
  /\ knows = {} /\ asking = {}
  /\ batch = [d \in Dispatcher |-> {}] /\ tickets = [d \in Dispatcher |-> {}]
  /\ accepted = [m \in Event \X Device |-> 0] /\ givenBack = [m \in Event \X Device |-> 0]

(***************************************************************************)
(* The trigger.  A status an order comes back to has its row already.      *)
(***************************************************************************)
EnqueueOrderNotification(e) ==
  /\ row' = [row EXCEPT ![e].status = "pending"]
  /\ UNCHANGED <<deviceVars, batch, tickets, history>>

(***************************************************************************)
(* The device.  Whenever the app shows another area, and when it starts,   *)
(* it registers its token for whoever is signed in; a call that is served  *)
(* late finds another one signed in.  The end of a session forgets the     *)
(* token; the delete that goes with it is made without a session, and      *)
(* finds no row it may delete.                                             *)
(***************************************************************************)
AsksToRegister(t) ==
  /\ session[t] # Nobody /\ role[t] # Loading
  /\ knows' = knows \cup {t}
  /\ asking' = asking \cup {<<t, session[t]>>}
  /\ UNCHANGED <<row, sessionVars, owner, inUse, batch, tickets, history>>

RegisterPushToken(t, p) ==
  /\ <<t, p>> \in asking
  /\ asking' = asking \ {<<t, p>>}
  /\ owner' \in {owner, [owner EXCEPT ![t] = p]}  \* refused, or moved to the caller
  /\ UNCHANGED <<row, sessionVars, knows, inUse, batch, tickets, history>>

MayDelete(t, as) == owner[t] = as  \* push_tokens_delete

ForgetsToken(t) ==
  /\ SignsOut(t) \/ IsRefused(t)
  /\ knows' = knows \ {t}
  /\ owner' = IF t \in knows /\ MayDelete(t, session'[t]) THEN [owner EXCEPT ![t] = Nobody] ELSE owner
  /\ UNCHANGED <<row, asking, inUse, batch, tickets, history>>

Relaunches(t) ==
  /\ Starts(t)
  /\ knows' = knows \ {t}
  /\ UNCHANGED <<row, owner, asking, inUse, batch, tickets, history>>

NothingElse == UNCHANGED <<row, pushVars, batch, tickets, history>>

UsesApp(t) ==
  /\ \/ \E f \in {"welcome", "phone", "password"} : TurnsTo(t, f)
     \/ Refreshes(t) \/ SavesPassword(t)
     \/ \E p \in Person : \/ SendsCode(t, p) \/ VerifiesCode(t, p) \/ SignsInWithPassword(t, p)
                          \/ ClaimsArrive(t, p) \/ ClaimsFail(t, p)
  /\ NothingElse

(***************************************************************************)
(* claim_notification_batch.                                               *)
(***************************************************************************)
Devices == {t \in Device : owner[t] = Customer}

FreeOnly(e) == row[e].lease = "free"  \* a fault: a claim is never given up

NoLease(e) == TRUE  \* a fault: claims are not looked at

LeaseIsOver(e) == row[e].lease \in {"free", "lapsed"}

Due(e) ==
  /\ row[e].status = "pending" /\ ~row[e].sent /\ row[e].attempts < MaxAttempts
  /\ LeaseIsOver(e)
  /\ Devices # {}

ClaimNotificationBatch(d) ==
  /\ batch[d] = {} /\ tickets[d] = {}
  /\ \E e \in Event : Due(e)
  /\ row' = [e \in Event |->
       IF Due(e) THEN [row[e] EXCEPT !.attempts = @ + 1, !.lease = "held"] ELSE row[e]]
  /\ batch' = [batch EXCEPT ![d] = {e \in Event : Due(e)} \X Devices]
  /\ UNCHANGED <<deviceVars, tickets, history>>

Lapses(e) ==
  /\ row[e].lease = "held" /\ ~row[e].sent
  /\ row' = [row EXCEPT ![e] = [row[e] EXCEPT !.lease = "lapsed", !.lapses = @ + 1]]
  /\ UNCHANGED <<deviceVars, batch, tickets, history>>

(***************************************************************************)
(* One request to the provider: each message gets a ticket, or the whole   *)
(* of it is turned away, or the answer never comes.                        *)
(***************************************************************************)
Taken(M) == accepted' = [m \in Event \X Device |-> accepted[m] + (IF m \in M THEN 1 ELSE 0)]

Posts(d) ==
  /\ batch[d] # {}
  /\ batch' = [batch EXCEPT ![d] = {}]
  /\ \E answer \in [batch[d] -> {"ok", "DeviceNotRegistered", "error"}] :
       /\ Taken({m \in batch[d] : answer[m] = "ok"})
       /\ tickets' \in {tickets, [tickets EXCEPT ![d] = {<<m, answer[m]>> : m \in batch[d]}]}
  /\ UNCHANGED <<row, deviceVars, givenBack>>

Crashes(d) ==
  /\ batch[d] # {} \/ tickets[d] # {}
  /\ batch' = [batch EXCEPT ![d] = {}] /\ tickets' = [tickets EXCEPT ![d] = {}]
  /\ UNCHANGED <<row, deviceVars, history>>

(***************************************************************************)
(* mark_notification_sent.  A failure gives the claim back, and takes      *)
(* nothing back that another dispatcher has recorded.  A token the         *)
(* provider does not know any more is deleted first.                       *)
(***************************************************************************)
MarkedAsFailed(r) == [r EXCEPT !.lease = "free", !.sent = FALSE]  \* a fault

Failed(r) == [r EXCEPT !.lease = "free"]

Sent(r) == [r EXCEPT !.sent = TRUE]

MarksAnything(ticket) == ticket # "DeviceNotRegistered"  \* a fault

Accepts(ticket) == ticket = "ok"

\* What the failure of one device's message means for the row's other devices.
GivesBack(m) ==
  givenBack' = [n \in Event \X Device |->
    givenBack[n] + (IF n[1] = m[1] /\ n # m /\ row[m[1]].lease = "held" THEN 1 ELSE 0)]

MarkNotificationSent(d) ==
  /\ \E t \in tickets[d] :
       LET e == t[1][1] IN
       /\ tickets' = [tickets EXCEPT ![d] = @ \ {t}]
       /\ row' = [row EXCEPT ![e] = IF Accepts(t[2]) THEN Sent(@) ELSE Failed(@)]
       /\ owner' = IF t[2] = "DeviceNotRegistered" THEN [owner EXCEPT ![t[1][2]] = Nobody] ELSE owner
       /\ IF Accepts(t[2]) THEN UNCHANGED givenBack ELSE GivesBack(t[1])
  /\ UNCHANGED <<sessionVars, knows, asking, inUse, batch, accepted>>

Next ==
  \/ \E e \in Event : EnqueueOrderNotification(e) \/ Lapses(e)
  \/ \E t \in inUse : \/ UsesApp(t) \/ Relaunches(t) \/ AsksToRegister(t) \/ ForgetsToken(t)
                      \/ \E p \in Person : RegisterPushToken(t, p)
  \/ \E d \in Dispatcher :
       ClaimNotificationBatch(d) \/ Posts(d) \/ Crashes(d) \/ MarkNotificationSent(d)

Spec == Init /\ [][Next]_vars

(***************************************************************************)
(* The scheduler starts a dispatcher every minute, a dispatcher finishes   *)
(* or crashes, and time passes.  A session is refreshed before it ends,    *)
(* and a claims read that is repeated again and again succeeds once.       *)
(***************************************************************************)
FairSpec ==
  /\ Spec
  /\ \A e \in Event : WF_vars(Lapses(e))
  /\ \A d \in Dispatcher :
       /\ WF_vars(ClaimNotificationBatch(d))
       /\ WF_vars(Posts(d) \/ Crashes(d) \/ MarkNotificationSent(d))
  /\ \A t \in UNION {s[1] : s \in Start} :
       /\ WF_vars(Refreshes(t) /\ NothingElse)
       /\ SF_vars((\E p \in Person : ClaimsArrive(t, p)) /\ NothingElse)

(***************************************************************************)
(* A device gets a notification again only if a claim on its row was lost  *)
(* in between, once for each: the lease ran out on the dispatcher, or the  *)
(* failure of another of the customer's devices gave the claim back.  The  *)
(* device's own failures, crashes, sign-ins, several dispatchers at once   *)
(* and an order that comes back to a status repeat nothing.                *)
(***************************************************************************)
AgainOnlyAfterALostClaim ==
  \A e \in Event, t \in Device :
    accepted[<<e, t>>] <= 1 + row[e].lapses + givenBack[<<e, t>>]

(***************************************************************************)
(* What a claim is said to do, keep others away until its holder "is       *)
(* certainly gone".  True of a customer with one device only.              *)
(***************************************************************************)
AgainOnlyAfterALapse ==
  \A e \in Event, t \in Device : accepted[<<e, t>>] <= 1 + row[e].lapses

(***************************************************************************)
(* A row that is marked as sent has been taken by the provider, and stays  *)
(* marked although a dispatcher that outlived its lease fails later.       *)
(***************************************************************************)
SentMeansTaken ==
  \A e \in Event : row[e].sent => \E t \in Device : accepted[<<e, t>>] > 0

SentStays == [][\A e \in Event : row[e].sent => row'[e].sent]_vars

(***************************************************************************)
(* What has happened to an order is told, or all attempts are used up,     *)
(* unless its customer has no device or keeps losing it.                   *)
(***************************************************************************)
EventIsSettled ==
  \A e \in Event :
    (row[e].status = "pending") ~> (row[e].sent \/ row[e].attempts = MaxAttempts \/ Devices = {})

(***************************************************************************)
(* A device nobody is signed in on is nobody's.                            *)
(***************************************************************************)
DroppedOnSignOut ==
  \A t \in Device : session[t] = Nobody /\ ~(\E p \in Person : <<t, p>> \in asking) => owner[t] = Nobody
=============================================================================
