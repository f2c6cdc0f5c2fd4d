---------------------------- MODULE MCAdminRoles ----------------------------
(* Instances of AdminRoles for TLC. *)
EXTENDS AdminRoles, TLC

RolesSymmetry == Permutations(Ids) \union Permutations(Reqs)
=============================================================================
