----------------------------- MODULE MCCacheSync -----------------------------
EXTENDS CacheSync, TLC

CONSTANTS k1, k2, w1, w2

\* Two rows per map; one handler changes an object, one a pubkey, so that a
\* handler's entry is refilled by the first and by the last insert loop.
MCKeys == {k1, k2}
MCWriters == {w1, w2}
MCWriterEntry == (w1 :> <<"object", k1>>) @@ (w2 :> <<"pubkey", k1>>)

=============================================================================
