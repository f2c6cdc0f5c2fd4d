---------------------------- MODULE MCFileStore ----------------------------
(* Instances of FileStore for TLC. *)
EXTENDS FileRefinement, TLC

CONSTANTS alice, mara, root

\* An employee, a manager and an administrator.
MCRoles ==
    [u \in Users |-> CASE u = alice -> "EMPLOYEE"
                       [] u = mara -> "MANAGER"
                       [] u = root -> "ADMIN"]

FileSymmetry == Permutations(Files) \union Permutations(Keys) \union Permutations(Reqs)
=============================================================================
