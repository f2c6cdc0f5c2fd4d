---------------------------- MODULE MCEnrollment ----------------------------
(* Instances of Enrollment for TLC. *)
EXTENDS Enrollment, TLC

EnrollmentSymmetry == Permutations(Reqs) \union Permutations(Serials)
                      \union Permutations(Devices)

\* No guard and no property of the runs reads Vault's revocation list, so two
\* states that differ in nothing else have the same future.
WithoutCRL == <<token, device, cert, recorded, signed, lapsed, given, enrolled,
                pc, local>>
=============================================================================
