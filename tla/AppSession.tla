----------------------------- MODULE AppSession -----------------------------
(***************************************************************************)
(* Signing in to the customer and runner app.  The auth library holds the  *)
(* session, stores it on the device, refreshes it and reports each change; *)
(* AuthProvider answers every report by having the token's claims verified *)
(* and shows the area of whatever role the last answer names.  The answers *)
(* come in any order, also after the session they were asked for is gone.  *)
(***************************************************************************)
EXTENDS Naturals, FiniteSets

CONSTANTS
  Device,
  Person,
  Runners, Staff,   \* persons whose role claim is not "customer"
  Nobody, Loading

ASSUME AppSessionAssumption == Runners \subseteq Person /\ Staff \subseteq Person \ Runners

VARIABLES
  session,  \* [Device -> who the auth library has a session of, or Nobody]
  role,     \* [Device -> whose role AuthProvider has, Nobody or Loading]
  claims,   \* reads of the claims under way: <<device, whose token>>
  form      \* [Device -> the screen of the sign-in area; a person: their code is awaited]

sessionVars == <<session, role, claims, form>>

SessionInit ==
  /\ session = [t \in Device |-> Nobody] /\ role = [t \in Device |-> Nobody]
  /\ claims = {} /\ form = [t \in Device |-> "welcome"]

(***************************************************************************)
(* Where resolveRouteAccess sends a role, and so the area a device is in.  *)
(***************************************************************************)
DestinationFor(r) ==
  CASE r = Loading -> "loading"
    [] r = Nobody  -> "auth"
    [] r \in Runners -> "runner"
    [] r \in Staff   -> "unsupported"
    [] OTHER -> "customer"

Area(t) == DestinationFor(role[t])

(***************************************************************************)
(* The sign-in area.  Codes and passwords can be wrong and requests fail,  *)
(* which changes nothing; a failed claims read brings one here with the    *)
(* session still there.                                                    *)
(***************************************************************************)
TurnsTo(t, f) ==
  /\ Area(t) = "auth"
  /\ <<form[t], f>> \in {<<"welcome", "phone">>, <<"welcome", "password">>, <<"password", "phone">>,
                         <<"phone", "welcome">>, <<"password", "welcome">>}
  /\ form' = [form EXCEPT ![t] = f]
  /\ UNCHANGED <<session, role, claims>>

SendsCode(t, p) ==
  /\ Area(t) = "auth" /\ form[t] = "phone"
  /\ form' = [form EXCEPT ![t] = p]
  /\ UNCHANGED <<session, role, claims>>

ReadsOnlyAtTheStart(t, p) ==  \* a fault: later reports of the auth library are not answered
  claims' = IF role[t] = Loading THEN claims \cup {<<t, p>>} ELSE claims

ReadsClaims(t, p) == claims' = claims \cup {<<t, p>>}

SessionBegins(t, p) ==
  /\ session' = [session EXCEPT ![t] = p]
  /\ ReadsClaims(t, p)
  /\ UNCHANGED <<role, form>>

VerifiesCode(t, p) == Area(t) = "auth" /\ form[t] = p /\ SessionBegins(t, p)

SignsInWithPassword(t, p) == Area(t) = "auth" /\ form[t] = "password" /\ SessionBegins(t, p)

(***************************************************************************)
(* Inside.  A refreshed token and a new password are reported like a new   *)
(* session.                                                                *)
(***************************************************************************)
Refreshes(t) == session[t] # Nobody /\ SessionBegins(t, session[t])

SavesPassword(t) == Area(t) = "customer" /\ Refreshes(t)

ClaimsArrive(t, p) ==
  /\ <<t, p>> \in claims
  /\ claims' = claims \ {<<t, p>>}
  /\ role' = [role EXCEPT ![t] = p]
  /\ form' = [form EXCEPT ![t] = "welcome"]
  /\ UNCHANGED session

ClaimsFail(t, p) ==
  /\ <<t, p>> \in claims
  /\ claims' = claims \ {<<t, p>>}
  /\ role' = [role EXCEPT ![t] = Nobody]
  /\ UNCHANGED <<session, form>>

SessionEnds(t) ==
  /\ session' = [session EXCEPT ![t] = Nobody]
  /\ role' = [role EXCEPT ![t] = Nobody]
  /\ UNCHANGED <<claims, form>>

SignsOut(t) == role[t] \in Person /\ SessionEnds(t)

\* The refresh token was revoked or has expired.
IsRefused(t) == session[t] # Nobody /\ SessionEnds(t)

(***************************************************************************)
(* The app is started again, perhaps after a crash.  The session is two    *)
(* records, a key and what it encrypts, written one after the other: a     *)
(* crash between them leaves none that can be read.                        *)
(***************************************************************************)
Stored(t) == {session[t], Nobody}

Starts(t) ==
  \E p \in Stored(t) :
    /\ session' = [session EXCEPT ![t] = p]
    /\ role' = [role EXCEPT ![t] = IF p = Nobody THEN Nobody ELSE Loading]
    /\ claims' = {c \in claims : c[1] # t} \cup (IF p = Nobody THEN {} ELSE {<<t, p>>})
    /\ form' = [form EXCEPT ![t] = "welcome"]

(***************************************************************************)
(* While nobody signs out or is refused, the app comes back to the area of *)
(* the person who is signed in, whatever reads fail or come late.          *)
(***************************************************************************)
AreaFollowsSession ==
  \A t \in Device, p \in Person : <>[](session[t] = p) => []<>(role[t] = p)

(***************************************************************************)
(* "Null when there is no authenticated session": true of the role only    *)
(* while no claims are read.                                               *)
(***************************************************************************)
NoRoleWithoutSession == \A t \in Device : session[t] = Nobody => role[t] \notin Person
=============================================================================
