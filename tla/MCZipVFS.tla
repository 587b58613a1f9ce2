------------------------------ MODULE MCZipVFS ------------------------------
(* Instantiates ZipVFS for TLC: two request goroutines, two URLs, three   *)
(* archive objects (two cached and one still held by a request).          *)
EXTENDS ZipVFS, TLC

CONSTANTS c1, c2, u1, u2, a1, a2, a3

MCCallers == {c1, c2}
MCUrls == {u1, u2}
MCArchives == {a1, a2, a3}
MCOneUrl == {u1}
OneUrlArchive == [u \in MCOneUrl |-> u]

\* Two different archives.
DistinctArchives == [u \in MCUrls |-> u]

\* u1 and u2 are two signatures of the same archive.

\* Archive ids are interchangeable.
ArchiveSymmetry == Permutations(MCArchives)

\* The metrics gauges feed no guard: states differing only in them behave
\* alike, so runs whose properties do not read them leave them out.
ControlView == <<cache, expired, archive, cacheMu, pc, want, got, res>>
=============================================================================
