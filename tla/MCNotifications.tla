--------------------------- MODULE MCNotifications ---------------------------
(***************************************************************************)
(* The devices of the notifications run: one that changes hands between    *)
(* two people, or two the customer signed out on, which stay registered.   *)
(***************************************************************************)
EXTENDS Notifications

CONSTANTS phone, tablet

PhoneInUseOrTwoLeft == {<<{phone}, {}>>, <<{}, {phone, tablet}>>}
=============================================================================
