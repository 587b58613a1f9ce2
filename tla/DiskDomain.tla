------------------------------ MODULE DiskDomain ------------------------------
(***************************************************************************)
(* unnamed/part_004: the legacy disk-serving domain.  ServeHTTP maps a URL *)
(* path to a file under pagesRoot/<group>/<project>/public and serves it   *)
(* with tryFile.                                                           *)
(*                                                                         *)
(* Paths are sequences of segments.  String prefix between two segments    *)
(* is the constant relation SegPrefix, so strings.HasPrefix over paths is  *)
(* modelled by what it does.  The filesystem is a function from absolute  *)
(* paths to nodes: directories, regular files and symlinks.  The project's *)
(* own artifacts fill its public directory, so the symlinks in it are      *)
(* chosen by the tenant.  Walk is the kernel's path resolution behind      *)
(* os.Lstat: a symlink is followed in every component but the last.        *)
(***************************************************************************)
EXTENDS Naturals, Sequences, SequencesExt

CONSTANTS
    Segs,          \* segment names of paths
    SegPrefix,     \* <<p, s>>, p # s: string s starts with string p
    PagesRoot,     \* *pagesRoot, as segments
    HostSeg,       \* strings.ToLower(r.Host) of a group domain
    Domains,       \* [group, project]; project = NoProject when Config = nil
    NoProject,
    FileSystems,   \* the filesystems a run starts from
    UrlSegs,       \* segments of request paths
    MaxUrlLen,     \* bound on segments of a request path
    MaxHops        \* symlinks followed before ELOOP

Dot == "."
DotDot == ".."
NotServed == <<"404">>   \* tryFile returned false on every try

VARIABLES fs, dom, url, served
vars == <<fs, dom, url, served>>

(* filepath.Join and filepath.Clean of an absolute path: empty and "."     *)
(* segments vanish, ".." removes the segment before it (none at "/").       *)
JoinAbs(segs) ==
    LET step(out, s) == CASE s \in {"", Dot}               -> out
                          [] s = DotDot /\ out # <<>>      -> Front(out)
                          [] s = DotDot                    -> out
                          [] OTHER                          -> Append(out, s)
    IN FoldLeft(step, <<>>, segs)

(* strings.HasPrefix(fullPath, publicPath) on the joined strings.         *)
HasStrPrefix(full, pub) ==
    \/ pub = <<>>
    \/ /\ Len(full) >= Len(pub)
       /\ SubSeq(full, 1, Len(pub) - 1) = Front(pub)
       /\ \/ full[Len(pub)] = Last(pub)
          \/ <<Last(pub), full[Len(pub)]>> \in SegPrefix

(* The kernel's resolution of done \o rest.  ".." after a followed link   *)
(* goes to the parent of the real directory.  The result is the real path *)
(* of the last component, or an error.                                     *)
RECURSIVE Walk(_, _, _, _, _)
Walk(f, done, rest, hops, followLast) ==
    IF rest = <<>> THEN [ok |-> TRUE, path |-> done]
    ELSE LET s == Head(rest)
             p == Append(done, s)
         IN CASE s \in {"", Dot} -> Walk(f, done, Tail(rest), hops, followLast)
              [] s = DotDot      -> Walk(f, IF done = <<>> THEN done ELSE Front(done),
                                         Tail(rest), hops, followLast)
              [] p \notin DOMAIN f -> [ok |-> FALSE, path |-> p]          \* ENOENT
              [] f[p].kind = "link" /\ (Tail(rest) # <<>> \/ followLast) ->
                   IF hops >= MaxHops THEN [ok |-> FALSE, path |-> p]     \* ELOOP
                   ELSE Walk(f, IF f[p].abs THEN <<>> ELSE done,
                             f[p].target \o Tail(rest), hops + 1, followLast)
              [] Tail(rest) # <<>> /\ f[p].kind # "dir" -> [ok |-> FALSE, path |-> p]  \* ENOTDIR
              [] OTHER -> Walk(f, p, Tail(rest), hops, followLast)

(* os.Lstat: the node named, a final symlink not followed.                *)
Lstat(f, path) ==
    LET w == Walk(f, <<>>, path, 0, FALSE)
    IN IF w.ok THEN [ok |-> TRUE, kind |-> f[w.path].kind, real |-> w.path]
       ELSE [ok |-> FALSE, kind |-> "none", real |-> <<>>]

(* tryFile: the real path of the file served, or NotServed.  A directory  *)
(* is served by its index.html; only a regular file is opened.             *)
tryFile(f, d, projectName, subPath) ==
    LET publicPath == JoinAbs(PagesRoot \o <<d.group, projectName, "public">>)
        fullPath == JoinAbs(publicPath \o subPath)
        fi == Lstat(f, fullPath)
        fi2 == IF fi.kind = "dir" THEN Lstat(f, Append(fullPath, "index.html")) ELSE fi
    IN CASE ~HasStrPrefix(fullPath, publicPath) -> NotServed
         [] ~fi.ok                             -> NotServed
         [] ~fi2.ok                            -> NotServed
         [] fi2.kind # "file"                  -> NotServed
         [] OTHER                              -> fi2.real

(* serveFromGroup: strings.SplitN(r.URL.Path, "/", 3) gives the project    *)
(* name and the rest of the path; then the project named after the host.  *)
serveFromGroup(f, d, u) ==
    LET projectName == IF u = <<>> THEN "" ELSE u[1]
        subPath == IF Len(u) >= 2 THEN Tail(u) ELSE <<>>
        first == tryFile(f, d, projectName, subPath)
    IN IF first # NotServed THEN first ELSE tryFile(f, d, HostSeg, u)

serveFromConfig(f, d, u) == tryFile(f, d, d.project, u)

ServeHTTP(f, d, u) ==
    IF d.project # NoProject THEN serveFromConfig(f, d, u) ELSE serveFromGroup(f, d, u)

-----------------------------------------------------------------------------
(* Each initial state is one filesystem, one domain and one request path. *)
Init ==
    /\ fs \in FileSystems
    /\ dom \in Domains
    /\ url \in BoundedSeq(UrlSegs \cup {DotDot}, MaxUrlLen)
    /\ served = ServeHTTP(fs, dom, url)

Next == UNCHANGED vars

Spec == Init /\ [][Next]_vars

(* The tenant's public root: the public directory of a project of the     *)
(* domain's group, of its configured project for a custom domain.          *)
PublicRoots(d) ==
    {PagesRoot \o <<d.group, q, "public">> :
        q \in IF d.project = NoProject THEN Segs ELSE {d.project}}

(* What ServeHTTP serves lies under the tenant's public root, symlinks     *)
(* followed only within it (spec 9, open question (b)): neither a symlink *)
(* of the tenant's public directory nor a ".." in the project name reaches *)
(* another tenant's files or the rest of the server.                       *)
ServesOnlyTenantFiles ==
    served # NotServed => \E root \in PublicRoots(dom) : IsPrefix(root, served)

=============================================================================
