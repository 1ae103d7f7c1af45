---------------------------- MODULE IntentProofs ----------------------------
(***************************************************************************)
(* Proofs about PaymentIntent for every number of invocations, references  *)
(* and attempts.                                                           *)
(***************************************************************************)
EXTENDS PaymentIntent, TLAPS

(***************************************************************************)
(* The typing invariant of the payment intent.                             *)
(***************************************************************************)
THEOREM IntentTypeCorrect == Spec => []TypeOK
<1>1. Init => TypeOK
  <2>1. 0 \in 0 .. MaxPersists - 1
    BY IntentAssumption
  <2>2. Init => /\ at \in [Request -> {"idle", "inserting", "refetching", "claiming", "calling",
                                     "persisting"}]
                /\ \A r \in Request : at[r] # "persisting"
                /\ held \in [Request -> Ref \cup {NoRef}]
    BY DEF Init
  <2>3. Init => tries \in [Request -> 0 .. MaxPersists - 1]
    BY <2>1 DEF Init
  <2>4. Init => refunds \in Nat
    BY DEF Init
  <2>5. Init => /\ order \in {"absent", "created", "confirmed", "payment_failed"}
                /\ claim \in {"none", "fresh", "stale"} /\ ref \in Ref \cup {NoRef}
                /\ spent \subseteq Event /\ sent \subseteq Event
                /\ issued \subseteq Ref /\ offered \subseteq Ref /\ overran \in BOOLEAN
    BY Zenon DEF Init
  <2>6. QED
    BY <2>2, <2>3, <2>4, <2>5 DEF TypeOK
<1>2. TypeOK /\ [Next]_vars => TypeOK'
  <2> SUFFICES ASSUME TypeOK, [Next]_vars PROVE TypeOK'
    OBVIOUS
  <2> USE IntentAssumption DEF TypeOK
  <2>1. ASSUME NEW r \in Request, LookUp(r) PROVE TypeOK'
    BY <2>1 DEF LookUp, Goes, rowVars
  <2>2. ASSUME NEW r \in Request, PhaseA(r) PROVE TypeOK'
    BY <2>2 DEF PhaseA, Goes, Replies
  <2>3. ASSUME NEW r \in Request, Resume(r) PROVE TypeOK'
    BY <2>3 DEF Resume, Goes, Replies, Offers, rowVars
  <2>4. ASSUME NEW r \in Request, ClaimIntent(r) PROVE TypeOK'
    BY <2>4 DEF ClaimIntent, Goes, Replies, Offers
  <2>5. ASSUME NEW r \in Request, GatewayAnswers(r) PROVE TypeOK'
    BY <2>5 DEF GatewayAnswers, Goes, rowVars
  <2>6. ASSUME NEW r \in Request, GatewayFails(r) \/ Dies(r) PROVE TypeOK'
    BY <2>6 DEF GatewayFails, Dies, Replies, rowVars
  <2>7. ASSUME NEW r \in Request, Persist(r) PROVE TypeOK'
    BY <2>7 DEF Persist, Records, Offers, Replies
  <2>8. ASSUME NEW r \in Request, PersistFails(r) PROVE TypeOK'
    BY <2>8 DEF PersistFails, AttemptsLeft, Records, Replies
  <2>9. ASSUME NEW f \in Ref, Pays(f) \/ Declines(f) PROVE TypeOK'
    BY <2>9 DEF Pays, Declines, rowVars, callVars, Event, Kind
  <2>10. ASSUME NEW e \in Event, Deliver(e) PROVE TypeOK'
    BY <2>10 DEF Deliver, Settles, callVars
  <2>11. CASE LeaseRunsOut
    BY <2>11 DEF LeaseRunsOut, callVars
  <2>12. CASE Expires
    BY <2>12 DEF Expires, callVars
  <2>13. CASE UNCHANGED vars
    BY <2>13 DEF vars, rowVars, callVars
  <2>14. QED
    BY <2>1, <2>2, <2>3, <2>4, <2>5, <2>6, <2>7, <2>8, <2>9, <2>10, <2>11, <2>12, <2>13
    DEF Next, CreateOrder
<1>3. QED
  BY <1>1, <1>2, PTL DEF Spec

-----------------------------------------------------------------------------
(***************************************************************************)
(* Why one reference is enough.  Until a claim is overrun, whoever is      *)
(* under way is alone and its claim is fresh; while its gateway call runs  *)
(* nothing is on file, and in Phase C nothing but its own reference may    *)
(* be: there is no other reference a client could have been sent.          *)
(***************************************************************************)
ClaimIsHeld == UnderWay # {} => claim = "fresh"

NothingElseOnFile ==
  \A r \in Request : /\ at[r] = "calling" => ref = NoRef
                     /\ at[r] = "persisting" => ref \in {NoRef, held[r]}

IntentInv ==
  overran \/ /\ \A r, s \in UnderWay : r = s
             /\ ClaimIsHeld
             /\ NothingElseOnFile
             /\ \A f \in offered : f = ref

\* Steps that leave the invocations under way, the file and the offers as they are.
LEMMA QuietStep ==
  ASSUME IntentInv, UnderWay' \subseteq UnderWay,
         \A r \in UnderWay' : at'[r] = at[r] /\ held'[r] = held[r],
         claim' = claim, ref' = ref, overran' = overran,
         offered' \subseteq offered \cup {ref}
  PROVE  IntentInv'
BY DEF IntentInv, ClaimIsHeld, NothingElseOnFile, UnderWay

LEMMA ReplyEndsTheCall ==
  ASSUME TypeOK, NEW r \in Request, Replies(r)
  PROVE  /\ UnderWay' = UnderWay \ {r}
         /\ \A s \in UnderWay' : at'[s] = at[s] /\ held'[s] = held[s]
BY DEF TypeOK, Replies, UnderWay

\* A reply that records nothing and offers at most the reference on file.
LEMMA ReplyKeepsIntent ==
  ASSUME TypeOK, IntentInv, NEW r \in Request, Replies(r),
         claim' = claim, ref' = ref, overran' = overran,
         offered' \subseteq offered \cup {ref}
  PROVE  IntentInv'
<1>1. UnderWay' \subseteq UnderWay
  BY ReplyEndsTheCall
<1>2. \A s \in UnderWay' : at'[s] = at[s] /\ held'[s] = held[s]
  BY ReplyEndsTheCall
<1>3. QED
  BY <1>1, <1>2, QuietStep

\* A claim is granted to nobody while another one is fresh.
LEMMA ClaimKeepsIntent ==
  ASSUME TypeOK, IntentInv, NEW r \in Request, ClaimIntent(r)
  PROVE  IntentInv'
<1>1. CASE Claimable /\ claim' = "fresh" /\ Goes(r, "calling")
          /\ UNCHANGED <<held, tries, offered>>
  <2>1. overran \/ UnderWay = {}
    BY <1>1 DEF IntentInv, ClaimIsHeld, Claimable
  <2>2. UnderWay' = UnderWay \cup {r}
    BY <1>1 DEF Goes, UnderWay, TypeOK
  <2>3. ref' = NoRef /\ ref = NoRef /\ overran' = overran
    BY <1>1 DEF ClaimIntent, Claimable
  <2>4. UnderWay = {} => NothingElseOnFile'
    BY <1>1, <2>3 DEF NothingElseOnFile, UnderWay, Goes, TypeOK
  <2>5. QED
    BY <1>1, <2>1, <2>2, <2>3, <2>4 DEF IntentInv, ClaimIsHeld
<1>2. CASE ~Claimable /\ ref # NoRef /\ Offers(r, ref) /\ claim' = claim
  <2>1. Replies(r) /\ offered' \subseteq offered \cup {ref}
    BY <1>2 DEF Offers
  <2>2. claim' = claim /\ ref' = ref /\ overran' = overran
    BY <1>2 DEF ClaimIntent
  <2>3. QED
    BY <2>1, <2>2, ReplyKeepsIntent
<1>3. CASE ~Claimable /\ ref = NoRef /\ Replies(r) /\ UNCHANGED <<claim, offered>>
  <2>1. Replies(r) /\ offered' \subseteq offered \cup {ref}
    BY <1>3
  <2>2. claim' = claim /\ ref' = ref /\ overran' = overran
    BY <1>3 DEF ClaimIntent
  <2>3. QED
    BY <2>1, <2>2, ReplyKeepsIntent
<1>4. QED
  BY <1>1, <1>2, <1>3 DEF ClaimIntent

\* What Phase C writes is what the file and the client then have.
LEMMA PhaseCKeepsIntent ==
  ASSUME TypeOK, IntentInv, NEW r \in Request, Persist(r) \/ PersistFails(r)
  PROVE  IntentInv'
<1> USE DEF IntentInv
<1>1. at[r] = "persisting" /\ held[r] \in Ref /\ r \in UnderWay
  BY DEF Persist, PersistFails, TypeOK, UnderWay
<1>2. claim' = claim /\ overran' = overran /\ ref' \in {ref, held[r]}
  BY DEF Persist, PersistFails, Records
<1>3. \/ overran
      \/ offered \subseteq {held[r]} /\ UnderWay = {r} /\ ref \in {NoRef, held[r]}
  <2>1. overran \/ (UnderWay = {r} /\ ref \in {NoRef, held[r]})
    BY <1>1 DEF NothingElseOnFile, UnderWay
  <2>2. NoRef \notin offered
    BY IntentAssumption DEF TypeOK
  <2>3. overran \/ offered \subseteq {held[r]}
    <3>1. overran \/ offered \subseteq {ref}
      OBVIOUS
    <3>2. QED
      BY <2>1, <2>2, <3>1
  <2>4. QED
    BY <2>1, <2>3
<1>4. CASE Persist(r)
  <2>1. UnderWay' = UnderWay \ {r} /\ offered' = offered \cup {held[r]} /\ ref' = held[r]
    BY <1>4, ReplyEndsTheCall DEF Persist, Offers, Records
  <2>2. overran \/ UnderWay' = {}
    BY <2>1, <1>3
  <2>3. UnderWay' = {} => ClaimIsHeld' /\ NothingElseOnFile'
    BY DEF ClaimIsHeld, NothingElseOnFile, UnderWay
  <2>4. QED
    BY <1>2, <1>3, <2>1, <2>2, <2>3
<1>5. CASE PersistFails(r)
  <2>1. offered' = offered
    BY <1>5 DEF PersistFails
  <2>2. UnderWay' = UnderWay \ {r} \/ UNCHANGED <<at, held>>
    BY <1>5, ReplyEndsTheCall DEF PersistFails
  <2>3. overran \/ \A f \in offered : f = ref'
    BY <1>2, <1>3
  <2>4. overran \/ NothingElseOnFile'
    <3>1. CASE UNCHANGED <<at, held>>
      BY <3>1, <1>1, <1>2, <1>3 DEF NothingElseOnFile, UnderWay
    <3>2. CASE UnderWay' = UnderWay \ {r}
      BY <3>2, <1>3 DEF NothingElseOnFile, UnderWay
    <3>3. QED
      BY <2>2, <3>1, <3>2
  <2>5. UnderWay' \subseteq UnderWay
    BY <2>2 DEF UnderWay
  <2>6. QED
    BY <1>2, <2>1, <2>3, <2>4, <2>5 DEF ClaimIsHeld
<1>6. QED
  BY <1>4, <1>5

LEMMA IntentStep == TypeOK /\ IntentInv /\ [Next]_vars => IntentInv'
<1> SUFFICES ASSUME TypeOK, IntentInv, [Next]_vars PROVE IntentInv'
  OBVIOUS
<1>1. ASSUME NEW r \in Request, LookUp(r) PROVE IntentInv'
  <2>1. UnderWay' \subseteq UnderWay
        /\ \A s \in UnderWay' : at'[s] = at[s] /\ held'[s] = held[s]
    BY <1>1 DEF LookUp, Goes, UnderWay, TypeOK
  <2>2. claim' = claim /\ ref' = ref /\ overran' = overran /\ offered' = offered
    BY <1>1 DEF LookUp, rowVars
  <2>3. QED
    BY <2>1, <2>2, QuietStep
<1>2. ASSUME NEW r \in Request, PhaseA(r) PROVE IntentInv'
  <2>1. UnderWay' \subseteq UnderWay
        /\ \A s \in UnderWay' : at'[s] = at[s] /\ held'[s] = held[s]
    BY <1>2 DEF PhaseA, Goes, Replies, UnderWay, TypeOK
  <2>2. claim' = claim /\ ref' = ref /\ overran' = overran /\ offered' = offered
    BY <1>2 DEF PhaseA
  <2>3. QED
    BY <2>1, <2>2, QuietStep
<1>3. ASSUME NEW r \in Request, Resume(r) PROVE IntentInv'
  <2>1. UnderWay' \subseteq UnderWay
        /\ \A s \in UnderWay' : at'[s] = at[s] /\ held'[s] = held[s]
    BY <1>3 DEF Resume, Goes, Replies, Offers, UnderWay, TypeOK
  <2>2. claim' = claim /\ ref' = ref /\ overran' = overran
        /\ offered' \subseteq offered \cup {ref}
    BY <1>3 DEF Resume, Offers, rowVars
  <2>3. QED
    BY <2>1, <2>2, QuietStep
<1>4. ASSUME NEW r \in Request, ClaimIntent(r) PROVE IntentInv'
  BY <1>4, ClaimKeepsIntent
<1>5. ASSUME NEW r \in Request, GatewayAnswers(r) PROVE IntentInv'
  <2>1. UnderWay' = UnderWay
    BY <1>5 DEF GatewayAnswers, Goes, UnderWay, TypeOK
  <2>2. overran \/ NothingElseOnFile'
    BY <1>5 DEF GatewayAnswers, Goes, TypeOK, NothingElseOnFile, IntentInv, rowVars
  <2>3. QED
    BY <1>5, <2>1, <2>2 DEF GatewayAnswers, rowVars, IntentInv, ClaimIsHeld
<1>6. ASSUME NEW r \in Request, GatewayFails(r) \/ Dies(r) PROVE IntentInv'
  <2>1. Replies(r) /\ claim' = claim /\ ref' = ref /\ overran' = overran
        /\ offered' = offered
    BY <1>6 DEF GatewayFails, Dies, rowVars
  <2>2. QED
    BY <2>1, ReplyKeepsIntent
<1>7. ASSUME NEW r \in Request, Persist(r) \/ PersistFails(r) PROVE IntentInv'
  BY <1>7, PhaseCKeepsIntent
<1>8. CASE LeaseRunsOut
  <2>1. UnderWay' = UnderWay /\ ref' = ref /\ offered' = offered
        /\ overran' = (overran \/ UnderWay # {})
    BY <1>8 DEF LeaseRunsOut, callVars, UnderWay
  <2>2. NothingElseOnFile' = NothingElseOnFile
    BY <1>8 DEF LeaseRunsOut, callVars, NothingElseOnFile
  <2>3. QED
    BY <2>1, <2>2 DEF IntentInv, ClaimIsHeld
<1>9. CASE UNCHANGED <<callVars, ref, claim, offered, overran>>
  <2>1. UnderWay' = UnderWay /\ at' = at /\ held' = held /\ offered' = offered
    BY <1>9 DEF callVars, UnderWay
  <2>2. QED
    BY <1>9, <2>1, QuietStep
<1>10. QED
  BY <1>1, <1>2, <1>3, <1>4, <1>5, <1>6, <1>7, <1>8, <1>9
  DEF Next, CreateOrder, Pays, Declines, Deliver, Expires, vars, rowVars

(***************************************************************************)
(* Every reference a customer was sent to pay is the one on file, unless   *)
(* an invocation has outlived its claim.                                   *)
(***************************************************************************)
THEOREM OffersStand == Spec => []OfferedRefIsOnFile
<1>1. Init => IntentInv
  BY DEF Init, IntentInv, ClaimIsHeld, NothingElseOnFile, UnderWay
<1>2. IntentInv => OfferedRefIsOnFile
  BY DEF IntentInv, OfferedRefIsOnFile
<1>3. QED
  BY <1>1, <1>2, IntentStep, IntentTypeCorrect, PTL DEF Spec

(***************************************************************************)
(* Of all the invocations of one order, at most one is between claiming    *)
(* the gateway call and answering, unless one has outlived its claim.      *)
(***************************************************************************)
THEOREM CallsAreAlone == Spec => []OneCallAtATime
<1>1. Init => IntentInv
  BY DEF Init, IntentInv, ClaimIsHeld, NothingElseOnFile, UnderWay
<1>2. IntentInv => OneCallAtATime
  BY DEF IntentInv, OneCallAtATime
<1>3. QED
  BY <1>1, <1>2, IntentStep, IntentTypeCorrect, PTL DEF Spec

-----------------------------------------------------------------------------
\* An event the gateway has to report about a payment follows that payment.
ReportsFollowPayments ==
  \A f \in Ref : <<"order.paid", f>> \in sent => <<"payment.captured", f>> \in sent

LEMMA SettledStep ==
  TypeOK /\ ReportsFollowPayments /\ SettledOnce /\ [Next]_vars
    => ReportsFollowPayments' /\ SettledOnce'
<1> SUFFICES ASSUME TypeOK, ReportsFollowPayments, SettledOnce, [Next]_vars
             PROVE  ReportsFollowPayments' /\ SettledOnce'
  OBVIOUS
<1> USE DEF ReportsFollowPayments, SettledOnce
<1>1. CASE UNCHANGED <<order, refunds, sent>>
  BY <1>1
<1>2. ASSUME NEW r \in Request, PhaseA(r) PROVE ReportsFollowPayments' /\ SettledOnce'
  BY <1>2 DEF PhaseA, TypeOK
<1>3. ASSUME NEW f \in Ref, Pays(f) \/ Declines(f)
      PROVE  ReportsFollowPayments' /\ SettledOnce'
  <2>1. sent \subseteq sent' /\ order' = order /\ refunds' = refunds
    BY <1>3 DEF Pays, Declines, rowVars
  <2>2. ReportsFollowPayments'
    BY <1>3 DEF Pays, Declines
  <2>3. QED
    BY <2>1, <2>2
<1>4. ASSUME NEW e \in Event, Deliver(e) PROVE ReportsFollowPayments' /\ SettledOnce'
  <2>1. sent' = sent /\ e \in sent
    BY <1>4 DEF Deliver
  <2>2. Captures(e) => \E f \in Ref : <<"payment.captured", f>> \in sent
    BY <2>1 DEF Captures, Event, Kind
  <2>3. CASE Settles(e)
    BY <2>1, <2>2, <2>3 DEF Settles, NotYetCredited, TypeOK
  <2>4. QED
    BY <1>1, <1>4, <2>1, <2>3 DEF Deliver
<1>5. CASE Expires
  BY <1>5 DEF Expires, TypeOK
<1>6. QED
  BY <1>1, <1>2, <1>3, <1>4, <1>5
  DEF Next, CreateOrder, LookUp, Resume, ClaimIntent, GatewayAnswers, GatewayFails, Persist,
      PersistFails, Dies, LeaseRunsOut, vars, rowVars

(***************************************************************************)
(* However often a payment is reported, and in whatever order, the order   *)
(* is settled once.                                                        *)
(***************************************************************************)
THEOREM OrdersSettleOnce == Spec => []SettledOnce
<1>1. Init => ReportsFollowPayments /\ SettledOnce
  BY DEF Init, ReportsFollowPayments, SettledOnce
<1>2. QED
  BY <1>1, SettledStep, IntentTypeCorrect, PTL DEF Spec

-----------------------------------------------------------------------------
\* The order as everybody else sees it: its status, and that of the payments
\* row, which the transactions that settle the order set with it.
One == "order"

PaymentStatus ==
  CASE order = "confirmed" -> "captured" [] order = "payment_failed" -> "failed" [] OTHER -> "pending"

Orders == INSTANCE OrderStateMachine
            WITH Order <- {One}, pair <- [o \in {One} |-> <<order, PaymentStatus>>]

(* Invocations, events and the sweep, overlapping in any way, together do  *)
(* what OrderStateMachine says of the one order they are all about: it is  *)
(* placed once, and confirmed or failed once.                              *)
THEOREM IntentFollowsTheOrders == Spec => Orders!Spec
<1> DEFINE Pair == [o \in {One} |-> <<order, PaymentStatus>>]
<1>1. Init => Orders!Init
  BY DEF Init, Orders!Init, Orders!Absent, PaymentStatus
<1>2. [Next]_vars => [Orders!Next]_Pair
  <2> SUFFICES ASSUME [Next]_vars PROVE Orders!Next \/ Pair' = Pair
    OBVIOUS
  <2>1. CASE UNCHANGED order
    BY <2>1 DEF PaymentStatus
  <2>2. CASE order = "absent" /\ order' = "created"
    <3>1. Pair[One] = <<"absent", "pending">> /\ Pair' = [Pair EXCEPT ![One] = <<"created", "pending">>]
      BY <2>2 DEF PaymentStatus
    <3>2. Orders!Place(One)
      BY <3>1 DEF Orders!Place, Orders!Goes, Orders!Absent
    <3> QED  BY <3>2 DEF Orders!Next
  <2>3. CASE order = "created" /\ order' = "confirmed"
    <3>1. Pair[One] = <<"created", "pending">> /\ Pair' = [Pair EXCEPT ![One] = <<"confirmed", "captured">>]
      BY <2>3 DEF PaymentStatus
    <3>2. Orders!Confirm(One)
      BY <3>1 DEF Orders!Confirm, Orders!Goes
    <3> QED  BY <3>2 DEF Orders!Next
  <2>4. CASE order = "created" /\ order' = "payment_failed"
    <3>1. Pair[One] = <<"created", "pending">> /\ Pair' = [o \in {One} |-> <<"payment_failed", "failed">>]
      BY <2>4 DEF PaymentStatus
    <3>2. Orders!Fail({One})
      BY <3>1 DEF Orders!Fail
    <3> QED  BY <3>2 DEF Orders!Next
  <2>5. ASSUME NEW r \in Request, CreateOrder(r)
        PROVE  UNCHANGED order \/ (order = "absent" /\ order' = "created")
    BY <2>5 DEF CreateOrder, LookUp, PhaseA, Resume, ClaimIntent, GatewayAnswers, GatewayFails,
                Persist, PersistFails, Dies, rowVars
  <2>6. ASSUME NEW e \in Event, Deliver(e)
        PROVE  UNCHANGED order \/ (order = "created" /\ order' \in {"confirmed", "payment_failed"})
    BY <2>6 DEF Deliver, Settles
  <2>7. CASE (\E f \in Ref : Pays(f) \/ Declines(f)) \/ LeaseRunsOut \/ UNCHANGED vars
    BY <2>1, <2>7 DEF Pays, Declines, LeaseRunsOut, vars, rowVars
  <2>8. CASE Expires
    BY <2>4, <2>8 DEF Expires
  <2> QED  BY <2>1, <2>2, <2>3, <2>4, <2>5, <2>6, <2>7, <2>8 DEF Next
<1> QED  BY <1>1, <1>2, PTL DEF Spec, Orders!Spec
=============================================================================
