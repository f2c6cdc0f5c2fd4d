------------------------------ MODULE MCShares ------------------------------
(* Instances of Shares for TLC. *)
EXTENDS SharesRefinement, TLC

CONSTANTS alice, bob, f1, s1, s2, r1, r2, r3, c1

MCOwner == [f \in Files |-> alice]

Plain(p, m, o, d) == [permission |-> p, max |-> m, oneTime |-> o, device |-> d]

\* A share limited to two downloads, and a one-time share bound to a device.
MCOffers == {Plain("DOWNLOAD", 2, FALSE, NoDevice),
             Plain("DOWNLOAD", NoLimit, TRUE, c1)}

LimitedOffer == {Plain("DOWNLOAD", 1, FALSE, NoDevice)}

ShareSymmetry == Permutations(ShareIds) \union Permutations(Reqs)
=============================================================================
