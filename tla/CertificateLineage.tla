------------------------- MODULE CertificateLineage -------------------------
(***************************************************************************)
(* What onboarding and renewal promise of a device's certificates: they    *)
(* form a line.  The next one is issued when every earlier one is revoked, *)
(* the device is bound to it before anybody is given it, and nobody binds  *)
(* the device to another one while it is valid.                            *)
(***************************************************************************)
CONSTANTS Devices, Serials, None

VARIABLES
    holder,     \* the device a certificate was issued for, or None
    revoked,    \* certificates that are refused for ever
    bound,      \* the certificate a device is bound to, or None
    given       \* certificates a client has been given

Init ==
    /\ holder = [c \in Serials |-> None]
    /\ revoked = {}
    /\ bound = [d \in Devices |-> None]
    /\ given = {}

Of(d) == {c \in Serials : holder[c] = d}

Issue(c, d) ==
    /\ holder[c] = None
    /\ Of(d) \subseteq revoked
    /\ holder' = [holder EXCEPT ![c] = d]
    /\ UNCHANGED <<revoked, bound, given>>

Revoke(c) ==
    /\ holder[c] # None
    /\ revoked' = revoked \union {c}
    /\ UNCHANGED <<holder, bound, given>>

\* A renewal hands the certificate over as it binds it.
Bind(c, d) ==
    /\ c \in Of(d) \ given
    /\ Of(d) \ {c} \subseteq revoked
    /\ bound' = [bound EXCEPT ![d] = c]
    /\ given' \in {given, given \union {c}}
    /\ UNCHANGED <<holder, revoked>>

Give(c, d) ==
    /\ c \in Of(d) \ given
    /\ bound[d] = c
    /\ given' = given \union {c}
    /\ UNCHANGED <<holder, revoked, bound>>

Next ==
    \/ \E c \in Serials : Revoke(c)
    \/ \E c \in Serials, d \in Devices : Issue(c, d) \/ Bind(c, d) \/ Give(c, d)

Spec == Init /\ [][Next]_<<holder, revoked, bound, given>>
=============================================================================
