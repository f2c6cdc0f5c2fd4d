---------------------------- MODULE MCAuthTokens ----------------------------
(* Instances of AuthTokens for TLC. *)
EXTENDS AuthTokensRefinement, TLC

AuthSymmetry == Permutations(Reqs) \union Permutations(SessionIds)
=============================================================================
