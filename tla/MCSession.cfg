\* Either library: two concurrent calls, two administrators, one token of the
\* application's and two of the service's.
SPECIFICATION SpecEither
CONSTANTS
    c1 = c1  c2 = c2  k1 = k1  k2 = k2  t1 = t1  t3 = t3  t4 = t4
    NoToken = NoToken
    Calls = {c1, c2}
    AdminKeys = {k1, k2}
    Tokens = {t1, t3, t4}
    Given = {t1}
    MaxRevision = 5
INVARIANTS
    LatestWordStands
PROPERTIES
    HonouredSessionKept
    ImplementsSession
    ProofForLatestLogin
CHECK_DEADLOCK FALSE
