--------------------------- MODULE MCStaffScreens ---------------------------
(***************************************************************************)
(* Instances of StaffScreens: one order, every page.  A second call runs   *)
(* beside the first where money is paid back under a key; elsewhere a call *)
(* that outlives its page meets the page only.                             *)
(***************************************************************************)
EXTENDS StaffScreens

CallsAtOnce == [p \in Page |-> IF p \in {"refunds", "packing"} THEN 2 ELSE 1]

\* The board of runners draws no key of its own: one dialog, tried again.
KeysDrawn == [p \in Page |-> IF p = "runners" THEN 1 ELSE 2]
=============================================================================
