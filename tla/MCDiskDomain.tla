---------------------------- MODULE MCDiskDomain ----------------------------
(* A pages root with group g (project p) and a second group named "public" *)
(* (project q), and /etc/passwd outside it.  The public directory of g/p   *)
(* holds index.html and maybe a symlink l chosen by the tenant: to q's     *)
(* public directory, to /etc, or to its own index.html.                    *)
EXTENDS DiskDomain

Dir == [kind |-> "dir"]
File == [kind |-> "file"]
Link(abs, t) == [kind |-> "link", abs |-> abs, target |-> t]

Base ==
    (<<"pages">> :> Dir) @@ (<<"pages", "g">> :> Dir) @@ (<<"pages", "g", "p">> :> Dir)
    @@ (<<"pages", "g", "p", "public">> :> Dir)
    @@ (<<"pages", "g", "p", "public", "index.html">> :> File)
    @@ (<<"pages", "public">> :> Dir) @@ (<<"pages", "public", "q">> :> Dir)
    @@ (<<"pages", "public", "q", "public">> :> Dir)
    @@ (<<"pages", "public", "q", "public", "index.html">> :> File)
    @@ (<<"etc">> :> Dir) @@ (<<"etc", "passwd">> :> File)

WithLink(t) == (<<"pages", "g", "p", "public", "l">> :> t) @@ Base

MCFileSystems ==
    {Base,
     WithLink(Link(TRUE, <<"pages", "public", "q", "public">>)),
     WithLink(Link(TRUE, <<"etc">>)),
     WithLink(Link(FALSE, <<"index.html">>))}

MCConfigDomains == {[group |-> "g", project |-> "p"]}
MCAllDomains == {[group |-> "g", project |-> NoProject], [group |-> "g", project |-> "p"]}
MCPagesRoot == <<"pages">>
MCSegs == {"pages", "g", "p", "public", "q", "index.html", "etc", "passwd", "l", "g.pages.io"}
=============================================================================
