--------------------------- MODULE ZipArchivePaths ---------------------------
(***************************************************************************)
(* archive.go: how readArchive chooses and indexes the public directory    *)
(* of a zip, and how findFile / findDirectory, Open, Lstat and Readlink    *)
(* resolve a name against that index.                                      *)
(*                                                                         *)
(* A zip entry name is its sequence of "/"-separated segments and whether  *)
(* it ends in "/" (a directory entry).  String prefix between segments is  *)
(* the constant relation SegPrefix, so HasPrefix("publicity/x", "public")  *)
(* is <<"public", "publicity">> \in SegPrefix.  A symlink's content is     *)
(* abstracted to its length.                                               *)
(***************************************************************************)
EXTENDS Naturals, Sequences, SequencesExt

CONSTANTS
    Segs,            \* segment names of zip entries
    SegPrefix,       \* <<p, s>>: string s starts with string p
    SSGFolders,  \* guessPublicDirectoryName's commonPrefixes slice, in order
    LinkLens,        \* lengths of symlink contents
    MaxSymlinkSize,  \* maxSymlinkSize
    MaxEntries,      \* bound on entries of an archive
    MaxDepth         \* bound on segments of a name

ASSUME /\ SegPrefix \subseteq Segs \X Segs
       /\ \A s \in Segs : <<s, s>> \in SegPrefix
       /\ MaxSymlinkSize \in Nat

Dot == "."
DotDot == ".."
NoDir == ""   \* publicDirectoryName when no root directory is recognised

EntryNames == BoundedSeq(Segs, MaxDepth) \ {<<>>}
Entries ==
    [name: EntryNames, dir: BOOLEAN, mode: {"regular"}, linkLen: {0}]
    \cup [name: EntryNames, dir: {FALSE}, mode: {"symlink"}, linkLen: LinkLens]
Archives == {s \in BoundedSeq(Entries, MaxEntries) : s # <<>>}
Names == BoundedSeq(Segs \cup {Dot, DotDot}, MaxDepth + 1)
NoEntry == [name |-> <<>>, dir |-> FALSE, mode |-> "regular", linkLen |-> 0]

(* A cleaned path: rooted ("/" + segs) or relative (segs; "." if empty).   *)
CleanPath(rooted, segs) ==
    LET step(out, s) ==
          CASE s = Dot                                  -> out
            [] s = DotDot /\ out # <<>> /\ Last(out) # DotDot -> Front(out)
            [] s = DotDot /\ rooted                    -> out
            [] OTHER                                    -> Append(out, s)
    IN [rooted |-> rooted, segs |-> FoldLeft(step, <<>>, segs)]

-----------------------------------------------------------------------------
(* getAllRootDirectories: the first segment of every entry, first         *)
(* occurrence order.                                                       *)
getAllRootDirectories(arch) ==
    LET add(roots, e) == IF e.name[1] \in ToSet(roots) THEN roots
                         ELSE Append(roots, e.name[1])
    IN FoldLeft(add, <<>>, arch)

(* guessPublicDirectoryName: the sole root, else the first common SSG     *)
(* folder among the roots, else "".                                        *)
guessPublicDirectoryName(arch) ==
    LET roots == getAllRootDirectories(arch)
        known == SelectSeq(SSGFolders, LAMBDA p : p \in ToSet(roots))
    IN IF Len(roots) = 1 THEN roots[1]
       ELSE IF known # <<>> THEN known[1] ELSE NoDir

(* strings.HasPrefix(file.Name, a.publicDirectoryName)                    *)
HasPublicPrefix(e, pub) == pub = NoDir \/ <<pub, e.name[1]>> \in SegPrefix

(* readArchive's loop: a.files holds the non-directory entries with the   *)
(* prefix, keyed by name.                                                  *)
IndexedFiles(arch, pub) ==
    {arch[i] : i \in {i \in 1..Len(arch) : ~arch[i].dir /\ HasPublicPrefix(arch[i], pub)}}

(* a.directories: directory entries with the prefix, and addPathDirectory *)
(* of every indexed entry (path.Split: its name up to the last "/").       *)
IndexedDirectories(arch, pub) ==
    LET indexed == {arch[i] : i \in {i \in 1..Len(arch) : HasPublicPrefix(arch[i], pub)}}
    IN {e.name : e \in {e \in indexed : e.dir}}
       \cup {Front(e.name) : e \in {e \in indexed : ~e.dir /\ Len(e.name) > 1}}

(* path.Clean(a.publicDirectoryName + "/" + name): rooted when the public *)
(* directory is "".                                                        *)
PublicPath(pub, name) ==
    IF pub = NoDir THEN CleanPath(TRUE, name)
    ELSE CleanPath(FALSE, <<pub>> \o name)

(* findFile: a.files[cleaned]; zip names are never rooted.                *)
findFile(arch, name) ==
    LET p == PublicPath(guessPublicDirectoryName(arch), name)
        hits == {e \in IndexedFiles(arch, guessPublicDirectoryName(arch)) :
                    ~p.rooted /\ e.name = p.segs}
    IN IF hits = {} THEN NoEntry ELSE CHOOSE e \in hits : TRUE

(* findDirectory: a.directories[cleaned + "/"].                           *)
findDirectory(arch, name) ==
    LET p == PublicPath(guessPublicDirectoryName(arch), name)
    IN ~p.rooted /\ p.segs # <<>>
       /\ p.segs \in IndexedDirectories(arch, guessPublicDirectoryName(arch))

(* Open, up to the data offset and the decompressor (which read bytes).    *)
Open(arch, name) ==
    LET f == findFile(arch, name) IN
    CASE f = NoEntry /\ findDirectory(arch, name) -> "errNotFile"
      [] f = NoEntry                               -> "notExist"
      [] f.mode # "regular"                        -> "errNotFile"
      [] OTHER                                     -> "ok"

(* Lstat: the file, else the directory, else os.ErrNotExist.              *)
Lstat(arch, name) ==
    CASE findFile(arch, name) # NoEntry -> "file"
      [] findDirectory(arch, name)     -> "dir"
      [] OTHER                         -> "notExist"

(* Faulty variant: the link buffer holds only maxSymlinkSize bytes.       *)
ReadLinkBytesNoSpare(len) ==
    IF len = 0 THEN [err |-> "EOF", n |-> 0]
    ELSE [err |-> "none", n |-> IF len < MaxSymlinkSize THEN len ELSE MaxSymlinkSize]

(* io.ReadFull into [maxSymlinkSize + 1]byte: n bytes; io.EOF when the    *)
(* link is empty, io.ErrUnexpectedEOF (accepted) when it is shorter.       *)
ReadLinkBytes(len) ==
    IF len = 0 THEN [err |-> "EOF", n |-> 0]
    ELSE [err |-> "none", n |-> IF len < MaxSymlinkSize + 1 THEN len ELSE MaxSymlinkSize + 1]

(* Readlink: the symlink's target, with the size check.                   *)
Readlink(arch, name) ==
    LET f == findFile(arch, name)
        r == ReadLinkBytes(f.linkLen)
    IN CASE f = NoEntry /\ findDirectory(arch, name) -> [res |-> "errNotSymlink", n |-> 0]
         [] f = NoEntry                  -> [res |-> "notExist", n |-> 0]
         [] f.mode # "symlink"           -> [res |-> "errNotSymlink", n |-> 0]
         [] r.err # "none"               -> [res |-> "readError", n |-> 0]
         [] r.n > MaxSymlinkSize         -> [res |-> "errSymlinkSize", n |-> 0]
         [] OTHER                        -> [res |-> "ok", n |-> r.n]

-----------------------------------------------------------------------------
(* Each state is one archive and one name looked up in it.                 *)
VARIABLES arch, name
vars == <<arch, name>>

Init == arch \in Archives /\ name \in Names
Next == UNCHANGED vars
Spec == Init /\ [][Next]_vars

(* Readlink returns a symlink's whole target exactly when it fits in      *)
(* maxSymlinkSize bytes, and never a truncated one.                        *)
ReadlinkExact ==
    LET f == findFile(arch, name)
        r == Readlink(arch, name)
    IN f # NoEntry /\ f.mode = "symlink" /\ f.linkLen > 0 =>
        /\ r.res = "ok" => r.n = f.linkLen
        /\ (r.res = "ok") <=> (f.linkLen <= MaxSymlinkSize)

=============================================================================
