------------------------ MODULE AuthTokensRefinement ------------------------
(***************************************************************************)
(* AuthTokens implements TokenLifecycle.  A token is issued when its       *)
(* document is inserted.  It is gone when its document has been purged,    *)
(* or when there is none and no request in flight could insert one.        *)
(***************************************************************************)
EXTENDS AuthTokens

Tokens == [user: Users, iat: 0..MaxTime]

Held(t) == \E r \in Reqs : req[r] # None /\ req[r].mint = t

LiveTokens == {t \in DOMAIN stored : ~stored[t].revoked}

RevokedTokens == {t \in DOMAIN stored : stored[t].revoked}

GoneTokens == {t \in Tokens \ DOMAIN stored : t.iat < now /\ ~Held(t)}

Lifecycle == INSTANCE TokenLifecycle
             WITH Lifetime <- RefreshTTL,
                  live <- LiveTokens,
                  revoked <- RevokedTokens,
                  gone <- GoneTokens

\* However rotations, logouts, mass revocations, purges and crashes interleave,
\* a refresh token is issued once and never comes back.
ImplementsLifecycle == Lifecycle!Spec
=============================================================================
