CONSTANTS
    Segs <- MCSegs
    SegPrefix <- MCSegPrefix
    SSGFolders <- MCSSGFolders
    LinkLens = {0, 1, 256, 257, 300}
    MaxSymlinkSize = 256
    MaxEntries = 2
    MaxDepth = 2
SPECIFICATION Spec
INVARIANT ReadlinkExact
