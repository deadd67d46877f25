---------------------------- MODULE MCDashboard ----------------------------
(* A small deployment for the dashboard: a user's token and an API token,  *)
(* and a tunnel of either protocol.                                         *)
EXTENDS Dashboard
CONSTANTS u1, k1, k2
Owners == k1 :> u1 @@ k2 :> NoUser
Interchangeable == Permutations(Calls)
=============================================================================
