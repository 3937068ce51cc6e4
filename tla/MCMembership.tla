---------------------------- MODULE MCMembership ----------------------------
(***************************************************************************)
(* Membership for TLC. Requests are alike, and so are users that share an  *)
(* email address, so states that differ by a permutation of either are one *)
(* state; the run checks no liveness.                                      *)
(***************************************************************************)
EXTENDS Membership, TLC

Alike == Permutations(Requests) \cup Permutations(Twins)
=============================================================================
