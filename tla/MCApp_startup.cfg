CONSTANTS
    h1 = h1
    h2 = h2
    w1 = w1
    w2 = w2
    nomap = nomap
    NoMap = nomap
    Hosts <- MCHosts
    Workers <- MCWorkers
    Maps <- MCMaps
    ArtifactHosts <- MCArtifactHosts
    Entries = {"http", "tls", "proxy"}
    Targets = {"status", "content"}
    RedirectHTTP = FALSE
    StartReady = FALSE
SPECIFICATION Spec
SYMMETRY WorkerSymmetry
PROPERTY ConsistentView
