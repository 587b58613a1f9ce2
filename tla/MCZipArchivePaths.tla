------------------------- MODULE MCZipArchivePaths --------------------------
EXTENDS ZipArchivePaths

(* "publicity" starts with "public"; neither starts with the other too.   *)
MCSegs == {"public", "publicity"}
MCSegPrefix == {<<s, s>> : s \in MCSegs} \cup {<<"public", "publicity">>}
MCSSGFolders == <<"public", "build", "dist", "out", "_site">>
=============================================================================
