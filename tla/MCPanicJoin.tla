---------------------------- MODULE MCPanicJoin -----------------------------
EXTENDS PanicJoin, TLC

CONSTANTS t1, t2, main, put, get, boom, boomMore, quiet, poisoned, put_rs, get_rs, pool_rs, retry_rs

\* boomMore prints the same first line as boom.
TheFirstLine == boom :> boom @@ boomMore :> boom @@ quiet :> quiet @@ poisoned :> poisoned
TwoSites == put_rs :> {boom} @@ get_rs :> {boom, boomMore}
HelperPoisoned == pool_rs :> {poisoned}
CaughtQuiet == retry_rs :> {quiet}
ASSUME KindsAreApart == SitesApart /\ MessagesApart
Symmetric == Permutations({t1, t2})
=============================================================================
