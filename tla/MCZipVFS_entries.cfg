CONSTANTS
    c1 = c1
    c2 = c2
    u1 = u1
    u2 = u2
    a1 = a1
    a2 = a2
    a3 = a3
    NoCaller = NoCaller
    NoArchive = NoArchive
    Callers <- MCCallers
    Urls <- MCUrls
    Archives <- MCArchives
    CanonicalOf <- DistinctArchives
    NumFiles = 2
SPECIFICATION Spec
SYMMETRY ArchiveSymmetry
INVARIANT EntriesGaugeWhenQuiescent
