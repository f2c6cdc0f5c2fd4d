------------------------ MODULE EnrollmentRefinement ------------------------
(***************************************************************************)
(* Enrollment implements CertificateLineage.  A certificate is issued when *)
(* its document is inserted, and revoked when the document says so: the    *)
(* revocation table and Vault's list come later.                           *)
(***************************************************************************)
EXTENDS Enrollment

Holder(c) == IF cert[c] = None THEN None ELSE cert[c].device

Revoked == {c \in Serials : cert[c] # None /\ cert[c].revoked}

Bound(d) == IF Known(d) THEN device[d].certificate ELSE None

Lineage == INSTANCE CertificateLineage
           WITH holder <- [c \in Serials |-> Holder(c)],
                revoked <- Revoked,
                bound <- [d \in Devices |-> Bound(d)]

\* However enrollments, renewals, revocations and their failures interleave,
\* the certificates of a device form the line CertificateLineage describes.
ImplementsLineage == Lineage!Spec
=============================================================================
