--------------------------- MODULE MCMailboxAgent ---------------------------
(* One mailbox, deliveries due by tick 3, with a dispute window or without.  *)
EXTENDS MailboxAgent, TLC

CONSTANTS courier

MCOffers ==
    {[courier |-> courier, declaredValue |-> 1, courierFee |-> 1,
      pickupDeadline |-> 2, dropoffDeadline |-> 3,
      disputeWindow |-> w, refuses |-> {}] : w \in 0..1}
Alike == Permutations(Vaults) \cup Permutations(Runs) \cup Permutations(Posts)
=============================================================================
