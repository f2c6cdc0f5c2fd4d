----------------------------- MODULE MCLockout -----------------------------
(* Instances of Lockout for TLC. *)
EXTENDS Lockout, TLC

LockoutSymmetry == Permutations(Reqs)
=============================================================================
