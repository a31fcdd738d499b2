------------------------------ MODULE MCEvents ------------------------------
(* The instances of Events that TLC checks.                                  *)
EXTENDS Events

CONSTANTS w1, w2, alice, bob, e1, e2, acme, globex, jan, feb

AllStatuses == Statuses
=============================================================================
