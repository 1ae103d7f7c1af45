----------------------------- MODULE StaffAccess -----------------------------
(***************************************************************************)
(* Who may do what.  staff_roles is the authority; the token hook copies a *)
(* person's role into every token it mints, and a token keeps that role    *)
(* until it is refreshed.  The console gates its pages on the token;       *)
(* assign_staff_role and settle_runner_earnings look at the token first    *)
(* and at staff_roles again in their transaction, without a lock.          *)
(***************************************************************************)
EXTENDS Naturals, FiniteSets

CONSTANTS
  Person,
  Founder,   \* the administrator the shop starts with
  Job,       \* delivered orders with earnings
  Granted,   \* bound: the roles that are given
  MaxCalls   \* bound: calls under way

Role == {"customer", "packer", "runner", "admin"}  \* "customer" is no row

ASSUME StaffAccessAssumption == Founder \in Person /\ Granted \subseteq Role

VARIABLES
  staffRole,  \* [Person -> Role]
  runners,    \* people with a runners row
  token,      \* [Person -> the role claim of the browser's token, or "none"]
  users,      \* people with the console's users page open
  calls,      \* calls of the two functions under way
  settled,    \* jobs whose earnings are marked as paid out
  crossed     \* history: an administrator was demoted in the middle of a call

roleVars  == <<staffRole, runners, settled, crossed>>
vars      == <<roleVars, token, users, calls>>

Init ==
  /\ staffRole = [p \in Person |-> IF p = Founder THEN "admin" ELSE "customer"]
  /\ runners = {} /\ settled = {} /\ crossed = FALSE
  /\ token = [p \in Person |-> "none"] /\ users = {} /\ calls = {}

CustomAccessTokenHook(p) == staffRole[p]

(***************************************************************************)
(* The browser.  A code by SMS signs in; the session is refreshed before   *)
(* it ends; the gate of every console page reads the claim.                *)
(***************************************************************************)
SignsIn(p) ==
  /\ token' = [token EXCEPT ![p] = CustomAccessTokenHook(p)]
  /\ UNCHANGED <<roleVars, users, calls>>

RequireAdmin(p) == token[p] = "admin"

OpensUsers(p) ==
  /\ users' = IF RequireAdmin(p) THEN users \cup {p} ELSE users \ {p}
  /\ UNCHANGED <<roleVars, token, calls>>

(***************************************************************************)
(* A call.  admin is history: its sender has been an administrator at some *)
(* moment since it was sent.                                               *)
(***************************************************************************)
Call(fn, p, of, to) ==
  [fn |-> fn, by |-> p, of |-> of, to |-> to, claim |-> token[p], step |-> "sent",
   admin |-> staffRole[p] = "admin"]

Sends(c) ==
  /\ Cardinality(calls) < MaxCalls
  /\ calls' = calls \cup {c}
  /\ UNCHANGED <<roleVars, token, users>>

\* The dialog does not offer one's own account; the function may be asked.
Saves(p) ==
  /\ p \in users
  /\ \E q \in Person, to \in Granted : Sends(Call("assign_staff_role", p, q, to))

\* No page does this yet, but the function is deployed.
Settles(p) ==
  /\ token[p] # "none"
  /\ \E jobs \in SUBSET Job : Sends(Call("settle_runner_earnings", p, jobs, "none"))

\* Anything can fail at any point, and leaves nothing behind.
Fails(c) ==
  /\ calls' = calls \ {c}
  /\ UNCHANGED <<roleVars, token, users>>

VerifyCaller(c) == c.claim

RoleOfTheToken(c) == c.claim  \* a fault: the gate's word is taken for it

ActorRole(c) == staffRole[c.by]

OwnRole(c) == TRUE  \* a fault: nothing keeps administrators from demoting themselves

NotOwnRole(c) == c.of = c.by => c.to = "admin"

ChecksActor(c) ==
  /\ c.step = "sent" /\ VerifyCaller(c) = "admin" /\ ActorRole(c) = "admin"
  /\ c.fn = "assign_staff_role" => NotOwnRole(c)
  /\ calls' = (calls \ {c}) \cup {[c EXCEPT !.step = "checked"]}
  /\ UNCHANGED <<roleVars, token, users>>

(***************************************************************************)
(* The write.  Granting a role replaces the row, revoking deletes it; a    *)
(* runner gets a runners row the first time and keeps it ever after.       *)
(***************************************************************************)
NoRunnersRow(c) == runners' = runners  \* a fault

AddsRunnersRow(c) == runners' = IF c.to = "runner" THEN runners \cup {c.of} ELSE runners

AssignsStaffRole(c) ==
  /\ c.fn = "assign_staff_role" /\ c.step = "checked"
  /\ staffRole' = [staffRole EXCEPT ![c.of] = c.to]
  /\ AddsRunnersRow(c)
  /\ crossed' = (crossed \/ (c.to # "admin" /\ \E d \in calls \ {c} : d.by = c.of /\ d.step = "checked"))
  /\ calls' = {[d EXCEPT !.admin = @ \/ staffRole'[d.by] = "admin"] : d \in calls \ {c}}
  /\ UNCHANGED <<token, users, settled>>

SettlesEarnings(c) ==
  /\ c.fn = "settle_runner_earnings" /\ c.step = "checked"
  /\ settled' = settled \cup c.of
  /\ calls' = calls \ {c}
  /\ UNCHANGED <<staffRole, runners, crossed, token, users>>

Next ==
  \/ \E p \in Person : SignsIn(p) \/ OpensUsers(p) \/ Saves(p) \/ Settles(p)
  \/ \E c \in calls : \/ Fails(c) \/ ChecksActor(c) \/ AssignsStaffRole(c) \/ SettlesEarnings(c)

Spec == Init /\ [][Next]_vars

(***************************************************************************)
(* A role is changed, and earnings are marked as paid out, only for        *)
(* somebody who has been an administrator since the call was sent,         *)
(* whatever their token still says.                                        *)
(***************************************************************************)
OnlyAdminsAct ==
  [][staffRole' # staffRole \/ settled' # settled =>
       \E c \in calls \ calls' : c.admin /\ c.step = "checked"]_vars

(***************************************************************************)
(* The shop runs out of administrators only if one is demoted between the  *)
(* check and the write of a call of theirs.                                *)
(***************************************************************************)
SomebodyIsAdmin == (\E p \in Person : staffRole[p] = "admin") \/ crossed

(***************************************************************************)
(* Who is a runner can be given an order, also after being something else  *)
(* in between: orders.runner_id needs the runners row.                     *)
(***************************************************************************)
RunnersAreAssignable == \A p \in Person : staffRole[p] = "runner" => p \in runners
=============================================================================
