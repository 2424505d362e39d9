\* One issuer, three key ids, two rotations by the provider and two failed
\* fetches, under fair passing of time and fair arrival of valid tokens.
CONSTANTS
    Kids = {k1, k2, k3}
    NoKid = NoKid
    Window = 5
    MaxRotations = 2
    MaxFetchFailures = 2
SPECIFICATION FairSpec
INVARIANT TypeOK
PROPERTIES
    KeyEventuallyTrusted
