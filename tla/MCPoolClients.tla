--------------------------- MODULE MCPoolClients ----------------------------
(* Small instances of PoolClients.                                         *)
EXTENDS PoolClients, TLC

\* Couriers are alike: only runs of safety properties use this.
Alike == Permutations(Accounts)
=============================================================================
