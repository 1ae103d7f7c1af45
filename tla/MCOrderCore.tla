---------------------------- MODULE MCOrderCore ----------------------------
(***************************************************************************)
(* Values for the constants of OrderCore that a .cfg cannot write.  Each   *)
(* scenario gives its own orders, carts, purses and limits; the set of     *)
(* callers of each kind is in the .cfg, empty where a scenario leaves a    *)
(* part of the system out.                                                 *)
(***************************************************************************)
EXTENDS OrderCore, TLC

CONSTANTS o1, o2, o3, o4, o5, o6, milk, bread, ann, bob, welcome, offer, r1, r2

NoCredit == [r \in Promo |-> 0]

(***************************************************************************)
(* Checkout: six orders race for four units, two promos and two places in  *)
(* the queue.  ann's wallet covers o1 and part of o2; welcome is good for  *)
(* one use, offer for one use by each customer.                            *)
(***************************************************************************)
CheckoutOwner  == (o1 :> ann) @@ (o2 :> ann) @@ (o3 :> bob) @@ (o4 :> bob) @@ (o5 :> bob)
                  @@ (o6 :> ann)
CheckoutCart   == [o \in Order |-> milk :> IF o = o3 THEN 2 ELSE 1]
CheckoutPrice  == milk :> 2
CheckoutStock  == milk :> 4
CheckoutPurse  == (ann :> 4) @@ (bob :> 0)
CheckoutWallet == [o \in Order |-> o \in {o1, o2}]
CheckoutPromo  == (o1 :> NoPromo) @@ (o2 :> welcome) @@ (o3 :> welcome) @@ (o4 :> offer)
                  @@ (o5 :> offer) @@ (o6 :> NoPromo)
CheckoutOff    == [o \in Order |-> IF o \in {o4, o5} THEN 1 ELSE 0]
CheckoutCredit == (welcome :> 1) @@ (offer :> 0)
CheckoutUses   == (welcome :> 1) @@ (offer :> 2)

(***************************************************************************)
(* Paid: two orders for the same milk.  ann's wallet pays 2 of o1's 6, the *)
(* gateway the rest of it and all of o2.                                   *)
(***************************************************************************)
PaidOwner  == (o1 :> ann) @@ (o2 :> bob)
PaidCart   == (o1 :> ((milk :> 2) @@ (bread :> 1))) @@ (o2 :> ((milk :> 1) @@ (bread :> 0)))
PaidPrice  == (milk :> 2) @@ (bread :> 1)
PaidStock  == (milk :> 3) @@ (bread :> 1)
PaidPurse  == (ann :> 2) @@ (bob :> 0)
PaidWallet == [o \in Order |-> o = o1]
PaidPromo  == [o \in Order |-> NoPromo]
PaidOff    == [o \in Order |-> 0]

Gateway(o, outcome, matches, id) ==
  [order |-> o, outcome |-> outcome, matches |-> matches, id |-> id]

Captures == {Gateway(o, "captured", TRUE, 1) : o \in Order}
AnyEvent == Captures
            \cup {Gateway(o1, "captured", TRUE, 2), Gateway(o1, "captured", FALSE, 3),
                  Gateway(o1, "failed", TRUE, 4), Gateway(o2, "failed", FALSE, 5)}

Missed(o, p, available, delist) ==
  [order |-> o, product |-> p, available |-> available, delist |-> delist]

MilkMissed == {Missed(o1, milk, 1, FALSE)}
NoMilk     == {Missed(o1, milk, 0, FALSE)}
SomeMissed == MilkMissed \cup {Missed(o1, bread, 0, TRUE), Missed(o2, milk, 0, TRUE)}

\* The capture of o1 alone: o2 is left to the sweep.
FirstCapture == {Gateway(o1, "captured", TRUE, 1)}

(***************************************************************************)
(* Journey: o1 of the paid scenario on its own, over the products of the   *)
(* .cfg, with everything that can happen to it.                            *)
(***************************************************************************)
JourneyOwner  == o1 :> ann
JourneyCart   == o1 :> [p \in Product |-> PaidCart[o1][p]]
JourneyPrice  == [p \in Product |-> PaidPrice[p]]
JourneyStock  == [p \in Product |-> PaidStock[p]]
JourneyPurse  == PaidPurse
JourneyWallet == o1 :> TRUE
JourneyPromo  == PaidPromo
JourneyOff    == PaidOff
JourneyMissed == {s \in SomeMissed : s.order = o1 /\ s.product \in Product}

(***************************************************************************)
(* Carried: wallets cover both orders, so they start out confirmed.        *)
(***************************************************************************)
CarriedOwner  == PaidOwner
CarriedCart   == [o \in Order |-> milk :> 1]
CarriedPrice  == milk :> 1
CarriedStock  == milk :> 2
CarriedPurse  == (ann :> 2) @@ (bob :> 2)
CarriedWallet == [o \in Order |-> TRUE]
CarriedPromo  == PaidPromo
CarriedOff    == PaidOff

\* Runners, claims in flight and codes differ in name only.
Alike == Permutations({r1, r2}) \cup Permutations(Claim) \cup Permutations(Code)
=============================================================================
