-------------------------- MODULE StaffAccessProofs --------------------------
(***************************************************************************)
(* Who may do what, for any number of people, calls and jobs: the three    *)
(* properties of StaffAccess hold of its specification.                    *)
(***************************************************************************)
EXTENDS StaffAccess, TLAPS

CallOf ==
  [fn : {"assign_staff_role", "settle_runner_earnings"}, by : Person,
   of : Person \cup SUBSET Job, to : Role \cup {"none"}, claim : Role \cup {"none"},
   step : {"sent", "checked"}, admin : BOOLEAN]

AccessTypeOK ==
  /\ staffRole \in [Person -> Role]
  /\ token \in [Person -> Role \cup {"none"}]
  /\ calls \subseteq CallOf
  /\ \A c \in calls : c.fn = "assign_staff_role" => c.of \in Person /\ c.to \in Role

LEMMA AccessType == Spec => []AccessTypeOK
<1>1. Init => AccessTypeOK
  BY StaffAccessAssumption DEF Init, AccessTypeOK, Role
<1>2. AccessTypeOK /\ [Next]_vars => AccessTypeOK'
  <2> SUFFICES ASSUME AccessTypeOK, [Next]_vars PROVE AccessTypeOK'
    OBVIOUS
  <2> USE DEF AccessTypeOK
  <2>1. ASSUME NEW p \in Person, SignsIn(p) PROVE AccessTypeOK'
    BY <2>1 DEF SignsIn, CustomAccessTokenHook, roleVars
  <2>2. ASSUME NEW p \in Person, OpensUsers(p) PROVE AccessTypeOK'
    BY <2>2 DEF OpensUsers, roleVars
  <2>3. ASSUME NEW p \in Person, Saves(p) PROVE AccessTypeOK'
    <3>1. PICK q \in Person, to \in Granted : Sends(Call("assign_staff_role", p, q, to))
      BY <2>3 DEF Saves
    <3>2. Call("assign_staff_role", p, q, to) \in CallOf
      BY StaffAccessAssumption DEF Call, CallOf
    <3>3. QED
      BY <3>1, <3>2, StaffAccessAssumption DEF Sends, Call, roleVars
  <2>4. ASSUME NEW p \in Person, Settles(p) PROVE AccessTypeOK'
    <3>1. PICK jobs \in SUBSET Job : Sends(Call("settle_runner_earnings", p, jobs, "none"))
      BY <2>4 DEF Settles
    <3>2. Call("settle_runner_earnings", p, jobs, "none") \in CallOf
      BY DEF Call, CallOf
    <3>3. QED
      BY <3>1, <3>2 DEF Sends, Call, roleVars
  <2>5. ASSUME NEW c \in calls, Fails(c) PROVE AccessTypeOK'
    BY <2>5 DEF Fails, roleVars
  <2>6. ASSUME NEW c \in calls, ChecksActor(c) PROVE AccessTypeOK'
    <3>1. [c EXCEPT !.step = "checked"] \in CallOf
      BY DEF CallOf
    <3>2. QED
      BY <2>6, <3>1 DEF ChecksActor, roleVars, CallOf
  <2>7. ASSUME NEW c \in calls, AssignsStaffRole(c) PROVE AccessTypeOK'
    <3>1. c.of \in Person /\ c.to \in Role
      BY <2>7 DEF AssignsStaffRole
    <3>2. ASSUME NEW d \in calls, NEW b \in BOOLEAN PROVE [d EXCEPT !.admin = b] \in CallOf
      BY DEF CallOf
    <3>3. staffRole' \in [Person -> Role] /\ token' = token
      BY <2>7, <3>1 DEF AssignsStaffRole
    <3>4. calls' = {[d EXCEPT !.admin = @ \/ staffRole'[d.by] = "admin"] : d \in calls \ {c}}
      BY <2>7 DEF AssignsStaffRole
    <3>5. ASSUME NEW e \in calls'
          PROVE  e \in CallOf /\ (e.fn = "assign_staff_role" => e.of \in Person /\ e.to \in Role)
      <4>1. PICK d \in calls : e = [d EXCEPT !.admin = d.admin \/ staffRole'[d.by] = "admin"]
        BY <3>4
      <4>2. d \in CallOf
        OBVIOUS
      <4>3. (d.admin \/ staffRole'[d.by] = "admin") \in BOOLEAN
        OBVIOUS
      <4>4. e \in CallOf
        BY <4>1, <4>3, <3>2
      <4>5. e.fn = d.fn /\ e.of = d.of /\ e.to = d.to
        BY <4>1, <4>2 DEF CallOf
      <4>6. QED
        BY <4>4, <4>5
    <3>6. QED
      BY <3>3, <3>5
  <2>8. ASSUME NEW c \in calls, SettlesEarnings(c) PROVE AccessTypeOK'
    BY <2>8 DEF SettlesEarnings
  <2>9. CASE UNCHANGED vars
    BY <2>9 DEF vars, roleVars
  <2>10. QED
    BY <2>1, <2>2, <2>3, <2>4, <2>5, <2>6, <2>7, <2>8, <2>9 DEF Next
<1>3. QED
  BY <1>1, <1>2, PTL DEF Spec

(***************************************************************************)
(* Who is a runner has a runners row: the row is added with the role and   *)
(* never taken away.                                                       *)
(***************************************************************************)
THEOREM EveryRunnerIsAssignable == Spec => []RunnersAreAssignable
<1>1. Init => RunnersAreAssignable
  BY DEF Init, RunnersAreAssignable
<1>2. AccessTypeOK /\ RunnersAreAssignable /\ [Next]_vars => RunnersAreAssignable'
  <2> SUFFICES ASSUME AccessTypeOK, RunnersAreAssignable, [Next]_vars PROVE RunnersAreAssignable'
    OBVIOUS
  <2> USE DEF RunnersAreAssignable
  <2>1. CASE UNCHANGED <<staffRole, runners>>
    BY <2>1
  <2>2. ASSUME NEW c \in calls, AssignsStaffRole(c) PROVE RunnersAreAssignable'
    BY <2>2 DEF AssignsStaffRole, AddsRunnersRow, AccessTypeOK
  <2>3. QED
    BY <2>1, <2>2 DEF Next, SignsIn, OpensUsers, Saves, Settles, Sends, Fails, ChecksActor,
       SettlesEarnings, roleVars, vars
<1>3. QED
  BY <1>1, <1>2, AccessType, PTL DEF Spec

(***************************************************************************)
(* A call knows whether its sender is an administrator, and one that has   *)
(* passed the check was sent by somebody who was.                          *)
(***************************************************************************)
SendersAreKnown ==
  \A c \in calls : /\ staffRole[c.by] = "admin" => c.admin
                   /\ c.step = "checked" => c.admin

LEMMA SendersStayKnown == Spec => []SendersAreKnown
<1>1. Init => SendersAreKnown
  BY DEF Init, SendersAreKnown
<1>2. AccessTypeOK /\ SendersAreKnown /\ [Next]_vars => SendersAreKnown'
  <2> SUFFICES ASSUME AccessTypeOK, SendersAreKnown, [Next]_vars PROVE SendersAreKnown'
    OBVIOUS
  <2> USE DEF SendersAreKnown
  <2>1. CASE UNCHANGED <<staffRole, calls>>
    BY <2>1
  <2>2. CASE staffRole' = staffRole /\ calls' \subseteq calls
    BY <2>2
  <2>3. ASSUME NEW p \in Person, Saves(p) \/ Settles(p) PROVE SendersAreKnown'
    <3>1. PICK fn, of, to : Sends(Call(fn, p, of, to))
      BY <2>3 DEF Saves, Settles
    <3> DEFINE c == Call(fn, p, of, to)
    <3>2. staffRole' = staffRole /\ calls' = calls \cup {c}
      BY <3>1 DEF Sends, roleVars
    <3>3. c.by = p /\ c.step = "sent" /\ c.admin = (staffRole[p] = "admin")
      BY DEF Call
    <3> HIDE DEF c
    <3>4. QED
      BY <3>2, <3>3
  <2>4. ASSUME NEW c \in calls, ChecksActor(c) PROVE SendersAreKnown'
    <3>1. c.admin /\ c \in CallOf
      BY <2>4 DEF ChecksActor, ActorRole, AccessTypeOK
    <3>2. [c EXCEPT !.step = "checked"].admin = c.admin
      BY <3>1 DEF CallOf
    <3>3. staffRole' = staffRole /\ calls' = (calls \ {c}) \cup {[c EXCEPT !.step = "checked"]}
      BY <2>4 DEF ChecksActor, roleVars
    <3>4. QED
      BY <3>1, <3>2, <3>3
  <2>5. ASSUME NEW c \in calls, AssignsStaffRole(c) PROVE SendersAreKnown'
    <3> SUFFICES ASSUME NEW e \in calls'
                 PROVE  /\ staffRole'[e.by] = "admin" => e.admin
                        /\ e.step = "checked" => e.admin
      OBVIOUS
    <3>1. PICK d \in calls : e = [d EXCEPT !.admin = d.admin \/ staffRole'[d.by] = "admin"]
      BY <2>5 DEF AssignsStaffRole
    <3>2. d \in CallOf
      BY DEF AccessTypeOK
    <3>3. e.by = d.by /\ e.step = d.step /\ e.admin = (d.admin \/ staffRole'[d.by] = "admin")
      BY <3>1, <3>2 DEF CallOf
    <3>4. QED
      BY <3>3
  <2>6. QED
    BY <2>1, <2>2, <2>3, <2>4, <2>5 DEF Next, SignsIn, OpensUsers, Fails, SettlesEarnings,
       roleVars, vars
<1>3. QED
  BY <1>1, <1>2, AccessType, PTL DEF Spec

(***************************************************************************)
(* Neither a role nor a settlement is written for somebody who was no      *)
(* administrator at any moment of the call, whatever their token says:     *)
(* the functions ask staff_roles again.                                    *)
(***************************************************************************)
THEOREM OldTokensChangeNothing == Spec => OnlyAdminsAct
<1> DEFINE A == staffRole' # staffRole \/ settled' # settled =>
                  \E c \in calls \ calls' : c.admin /\ c.step = "checked"
<1>1. AccessTypeOK /\ SendersAreKnown /\ [Next]_vars => [A]_vars
  <2> SUFFICES ASSUME AccessTypeOK, SendersAreKnown, Next PROVE A
    OBVIOUS
  <2>1. CASE UNCHANGED <<staffRole, settled>>
    BY <2>1
  <2>2. ASSUME NEW c \in calls, AssignsStaffRole(c) PROVE A
    <3>1. c.step = "checked" /\ c.admin
      BY <2>2 DEF AssignsStaffRole, SendersAreKnown
    <3>2. ASSUME c \in calls' PROVE FALSE
      <4>1. PICK d \in calls \ {c} : c = [d EXCEPT !.admin = d.admin \/ staffRole'[d.by] = "admin"]
        BY <3>2, <2>2 DEF AssignsStaffRole
      <4>2. d \in CallOf
        BY DEF AccessTypeOK
      <4>3. d.step = "checked" /\ d.admin = TRUE
        BY <4>1, <4>2, <3>1 DEF CallOf, SendersAreKnown
      <4>4. [d EXCEPT !.admin = d.admin \/ staffRole'[d.by] = "admin"] = d
        BY <4>2, <4>3 DEF CallOf
      <4>5. QED
        BY <4>1, <4>4
    <3>3. QED
      BY <3>1, <3>2
  <2>3. ASSUME NEW c \in calls, SettlesEarnings(c) PROVE A
    BY <2>3 DEF SettlesEarnings, SendersAreKnown
  <2>4. QED
    BY <2>1, <2>2, <2>3 DEF Next, SignsIn, OpensUsers, Saves, Settles, Sends, Fails, ChecksActor,
       roleVars
<1>2. QED
  BY <1>1, AccessType, SendersStayKnown, PTL DEF Spec, OnlyAdminsAct

(***************************************************************************)
(* A demotion that passed its check is of somebody else than its sender,   *)
(* who is still an administrator unless demoted since.                     *)
(***************************************************************************)
Demotes(c) == c.fn = "assign_staff_role" /\ c.step = "checked" /\ c.to # "admin"

DemotersRemain ==
  \A c \in calls : Demotes(c) => c.of # c.by /\ (staffRole[c.by] = "admin" \/ crossed)

(***************************************************************************)
(* An administrator is left unless two of their calls crossed: whoever     *)
(* demotes another keeps their own role.                                   *)
(***************************************************************************)
THEOREM TheLastAdminStays == Spec => []SomebodyIsAdmin
<1> USE DEF SomebodyIsAdmin, DemotersRemain
<1>1. Init => SomebodyIsAdmin /\ DemotersRemain
  BY StaffAccessAssumption DEF Init
<1>2. AccessTypeOK /\ SomebodyIsAdmin /\ DemotersRemain /\ [Next]_vars
        => (SomebodyIsAdmin /\ DemotersRemain)'
  <2> SUFFICES ASSUME AccessTypeOK, SomebodyIsAdmin, DemotersRemain, [Next]_vars
               PROVE  (SomebodyIsAdmin /\ DemotersRemain)'
    OBVIOUS
  <2>1. CASE UNCHANGED <<staffRole, crossed>> /\ calls' \subseteq calls
    BY <2>1 DEF Demotes
  <2>2. ASSUME NEW p \in Person, Saves(p) \/ Settles(p) PROVE (SomebodyIsAdmin /\ DemotersRemain)'
    BY <2>2 DEF Saves, Settles, Sends, Call, Demotes, roleVars
  <2>3. ASSUME NEW c \in calls, ChecksActor(c) PROVE (SomebodyIsAdmin /\ DemotersRemain)'
    <3> DEFINE e == [c EXCEPT !.step = "checked"]
    <3>1. UNCHANGED <<staffRole, crossed>> /\ calls' = (calls \ {c}) \cup {e}
      BY <2>3 DEF ChecksActor, roleVars
    <3>2. e.fn = c.fn /\ e.by = c.by /\ e.of = c.of /\ e.to = c.to
      BY DEF AccessTypeOK, CallOf
    <3>3. Demotes(e) => e.of # e.by /\ staffRole[e.by] = "admin"
      BY <2>3, <3>2 DEF ChecksActor, ActorRole, NotOwnRole, Demotes
    <3> HIDE DEF e
    <3>4. QED
      BY <3>1, <3>3 DEF Demotes
  <2>4. ASSUME NEW c \in calls, AssignsStaffRole(c) PROVE (SomebodyIsAdmin /\ DemotersRemain)'
    <3>1. c \in CallOf /\ c.of \in Person /\ c.by \in Person
      BY <2>4 DEF AssignsStaffRole, AccessTypeOK, CallOf
    <3>2. /\ staffRole' = [staffRole EXCEPT ![c.of] = c.to]
          /\ crossed' = (crossed \/ (c.to # "admin" /\ \E d \in calls \ {c} : d.by = c.of /\ d.step = "checked"))
      BY <2>4 DEF AssignsStaffRole
    <3>3. c.to # "admin" => Demotes(c)
      BY <2>4 DEF AssignsStaffRole, Demotes
    <3>4. \A q \in Person : q # c.of => staffRole'[q] = staffRole[q]
      BY <3>2 DEF AccessTypeOK
    <3>5. staffRole'[c.of] = c.to
      BY <3>1, <3>2 DEF AccessTypeOK
    <3>6. SomebodyIsAdmin'
      <4>1. CASE c.to = "admin"
        BY <4>1, <3>1, <3>5
      <4>2. CASE c.to # "admin"
        BY <4>2, <3>1, <3>2, <3>3, <3>4
      <4>3. QED
        BY <4>1, <4>2
    <3>7. ASSUME NEW e \in calls', Demotes(e)
          PROVE  e.of # e.by /\ (staffRole'[e.by] = "admin" \/ crossed')
      <4>1. PICK d \in calls \ {c} : e = [d EXCEPT !.admin = d.admin \/ staffRole'[d.by] = "admin"]
        BY <2>4 DEF AssignsStaffRole
      <4>2. d \in CallOf
        BY DEF AccessTypeOK
      <4>3. e.fn = d.fn /\ e.by = d.by /\ e.of = d.of /\ e.to = d.to /\ e.step = d.step
        BY <4>1, <4>2 DEF CallOf
      <4>4. d.by \in Person /\ Demotes(d)
        BY <3>7, <4>2, <4>3 DEF CallOf, Demotes
      <4>5. CASE d.by = c.of
        BY <4>3, <4>4, <4>5, <3>2, <3>5 DEF Demotes
      <4>6. CASE d.by # c.of
        BY <4>3, <4>4, <4>6, <3>2, <3>4
      <4>7. QED
        BY <4>5, <4>6
    <3>8. QED
      BY <3>6, <3>7 DEF Demotes
  <2>5. QED
    BY <2>1, <2>2, <2>3, <2>4 DEF Next, SignsIn, OpensUsers, Fails, SettlesEarnings, roleVars, vars
<1>3. QED
  BY <1>1, <1>2, AccessType, PTL DEF Spec
=============================================================================
