CONSTANTS
    c1 = c1
    c2 = c2
    u1 = u1
    u2 = u2
    a1 = a1
    a3 = a3
    a2 = a2

    NoCaller = NoCaller
    NoArchive = NoArchive
    Callers <- MCCallers
    Urls <- MCOneUrl
    Archives <- MCArchives
    CanonicalOf <- OneUrlArchive
    NumFiles = 1
SPECIFICATION FairSpec
VIEW ControlView
PROPERTY RootReturns
