--------------------------- MODULE ShareLifecycle ---------------------------
(***************************************************************************)
(* What file sharing promises the rest of the system: a (file, recipient)  *)
(* pair has at most one live grant, a grant ends once, and a grant that    *)
(* has ended is never live again.                                          *)
(***************************************************************************)
CONSTANTS Pairs, Grants, NoGrant

VARIABLES
    live,       \* live[p] : the grant in force for p, or NoGrant
    ended       \* grants that were in force once and are no longer

Begin(p, g) ==
    /\ live[p] = NoGrant
    /\ g \notin ended
    /\ \A q \in Pairs : live[q] # g
    /\ live' = [live EXCEPT ![p] = g]
    /\ UNCHANGED ended

End(p) ==
    /\ live[p] # NoGrant
    /\ ended' = ended \union {live[p]}
    /\ live' = [live EXCEPT ![p] = NoGrant]

Init ==
    /\ live = [p \in Pairs |-> NoGrant]
    /\ ended = {}

Next == \E p \in Pairs : End(p) \/ \E g \in Grants : Begin(p, g)

Spec == Init /\ [][Next]_<<live, ended>>
=============================================================================
