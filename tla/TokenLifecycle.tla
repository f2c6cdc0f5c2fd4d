--------------------------- MODULE TokenLifecycle ---------------------------
(***************************************************************************)
(* What AuthService promises of refresh tokens: each is issued at most     *)
(* once, can be exchanged until it is revoked, alone or with all tokens of *)
(* its user at once, and is remembered until it has lived out its time.    *)
(***************************************************************************)
EXTENDS Naturals

CONSTANTS
    Users,
    Tokens,     \* the tokens that can be signed, each of a user and a second
    Lifetime

VARIABLES
    now,
    live,       \* tokens that are exchanged until they expire
    revoked,    \* tokens that are refused
    gone        \* tokens that nobody knows any more, or that never were issued

Init == now = 0 /\ live = {} /\ revoked = {} /\ gone = {}

Issue(t) ==
    /\ t \in Tokens \ (live \union revoked \union gone)
    /\ t.iat <= now
    /\ live' = live \union {t}
    /\ UNCHANGED <<now, revoked, gone>>

Refuse(S) ==
    /\ live' = live \ S
    /\ revoked' = revoked \union S
    /\ UNCHANGED <<now, gone>>

Revoke(t) == t \in live /\ Refuse({t})

RevokeAll(u) == Refuse({t \in live : t.user = u})

Forget(t) ==
    /\ t \in live \union revoked
    /\ now >= t.iat + Lifetime
    /\ live' = live \ {t}
    /\ revoked' = revoked \ {t}
    /\ gone' = gone \union {t}
    /\ UNCHANGED now

\* A token of the past that nobody stored will not be issued any more, because
\* nobody signed it or the process that did is gone.
Pass ==
    /\ now' \in {now, now + 1}
    /\ \E S \in SUBSET {t \in Tokens \ (live \union revoked) : t.iat < now'} :
          gone' = gone \union S
    /\ UNCHANGED <<live, revoked>>

Next ==
    \/ \E t \in Tokens : Issue(t) \/ Revoke(t) \/ Forget(t)
    \/ \E u \in Users : RevokeAll(u)
    \/ Pass

Spec == Init /\ [][Next]_<<now, live, revoked, gone>>
=============================================================================
