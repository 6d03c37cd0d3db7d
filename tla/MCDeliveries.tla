---------------------------- MODULE MCDeliveries ----------------------------
(* Small instances of Deliveries: pickup by tick 2, dropoff by tick 3 as the *)
(* registry sets them one tick apart, with and without a dispute window, and *)
(* with parties that accept ether or refuse it.                              *)
EXTENDS Deliveries

CONSTANTS courier, Windows, Refusals

MCOffers ==
    {[courier |-> courier, declaredValue |-> 2, courierFee |-> 1,
      pickupDeadline |-> 2, dropoffDeadline |-> 3,
      disputeWindow |-> w, refuses |-> p] : w \in Windows, p \in Refusals}
=============================================================================
