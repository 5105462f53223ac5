----------------------------- MODULE MCDelivery -----------------------------
(* Two files are enough for a half-applied candidate; every combination of *)
(* kinds is an initial state.                                              *)
EXTENDS Delivery

CONSTANTS v1, v2, n1, n2

AllKinds == {"Modified", "Added", "Deleted"}
TwoVersions == {v1, v2}
TwoNonces == {n1, n2}
=============================================================================
