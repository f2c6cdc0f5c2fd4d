-------------------------- MODULE SharesRefinement --------------------------
(***************************************************************************)
(* Shares implements ShareLifecycle: the live grant of a (file, recipient) *)
(* pair is its ACTIVE document, and the EXPIRED and REVOKED documents have *)
(* ended.                                                                  *)
(***************************************************************************)
EXTENDS Shares

LiveShare ==
    [p \in Files \X Users |->
        IF ActiveShares(p[1], p[2]) = {} THEN NoShare
        ELSE CHOOSE s \in ActiveShares(p[1], p[2]) : TRUE]

EndedShares == {s \in Stored : share[s].status # "ACTIVE"}

Lifecycle == INSTANCE ShareLifecycle
    WITH Pairs <- Files \X Users, Grants <- ShareIds, NoGrant <- NoShare,
         live <- LiveShare, ended <- EndedShares

\* Every step of the share services begins one grant, ends one grant, or
\* leaves both sets alone: shareFile's check-then-insert, the saves of
\* revokeShare, validateAccess, isShareValid and recordDownload, and the
\* batch expiry never combine into a second live grant or a revived one.
ImplementsLifecycle == Lifecycle!Spec
=============================================================================
