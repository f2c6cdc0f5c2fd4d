------------------------- MODULE MCCertificateLogin -------------------------
(* Instances of CertificateLogin for TLC. *)
EXTENDS CertificateLogin, EnrollmentRefinement, TLC

LoginSymmetry == Permutations(Reqs) \union Permutations(Serials)
                 \union Permutations(Devices)

\* No guard and no property of the run reads Vault's revocation list, so two
\* states that differ in nothing else have the same future.
Observed == <<token, device, cert, recorded, signed, lapsed, given, enrolled,
              pc, local, login, barred>>
=============================================================================
