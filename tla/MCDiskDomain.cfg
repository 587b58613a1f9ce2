CONSTANTS
    Segs <- MCSegs
    SegPrefix = {}
    PagesRoot <- MCPagesRoot
    HostSeg = "g.pages.io"
    Domains <- MCConfigDomains
    NoProject = NoProject
    FileSystems <- MCFileSystems
    UrlSegs = {"p", "q", "public", "l", "passwd", "index.html"}
    MaxUrlLen = 4
    MaxHops = 2
SPECIFICATION Spec
INVARIANT ServesOnlyTenantFiles
