------------------------------- MODULE ZipVFS -------------------------------
(***************************************************************************)
(* The archive cache of the zip VFS and the open protocol of one archive:  *)
(*   zipVFS.Root / findOrOpenArchive      internal/vfs/zip/vfs.go          *)
(*   zipArchive.openArchive / readArchive / openStatus / onEvicted         *)
(*                                        internal/vfs/zip/archive.go      *)
(* Callers are the request goroutines calling Root; each archive's         *)
(* readArchive goroutine is a process of its own; the ccache item TTL and  *)
(* ccache's size-pressure pruning are environment steps.                   *)
(***************************************************************************)
EXTENDS Naturals, FiniteSets, Functions, FiniteSetsExt

CONSTANTS
    Callers,      \* request goroutines calling zipVFS.Root
    Urls,         \* archive URLs as passed to Root (signed object-storage URLs)
    CanonicalOf,  \* Urls -> the archive a URL names once its query is stripped
    Archives,     \* ids of the zipArchive objects alive at once (ids are reused)
    NumFiles,     \* entries under the public directory of a readable archive
    NoCaller,     \* model value: fs.cacheMu is free
    NoArchive     \* model value: no item / no archive

ASSUME /\ CanonicalOf \in [Urls -> Urls]
       /\ Archives # {} /\ NoArchive \notin Archives
       /\ NumFiles \in Nat \ {0}
       /\ NoCaller \notin Callers

(* Progress of an archive's readArchive goroutine.                         *)
(*   "unused"   no zipArchive object has this id                           *)
(*   "new"      newArchive returned it; readArchive not started            *)
(*   "resource" httprange.NewResource in flight                            *)
(*   "reader"   zip.NewReader over the cached ranged reader in flight      *)
(*   "index"    the loop filling a.files                                   *)
(*   "count"    a.files filled, metrics not yet added, done not closed     *)
(*   "done"     a.done closed                                              *)
Phases == {"unused", "new", "resource", "reader", "index", "count", "done"}
Results == {"none", "ok", "openError", "corrupted", "timeout", "panic"}

VARIABLES
    cache,          \* fs.cache: Url -> archive id, NoArchive when absent
    expired,        \* Url -> item.Expired() of the cached item
    archive,        \* id -> [url, phase, err, resErr, files, parses]
    cacheMu,        \* the goroutine holding fs.cacheMu, or NoCaller
    pc,             \* caller -> "idle" | "lock" | "hit" | "wait"
    want,           \* caller -> the Url it passed to Root
    got,            \* caller -> the archive it is using, NoArchive if none
    res,            \* caller -> what its last Root call returned
    cachedArchives, \* metrics.ZipCachedArchives
    entriesCached   \* metrics.ZipArchiveEntriesCached

vars == <<cache, expired, archive, cacheMu, pc, want, got, res,
          cachedArchives, entriesCached>>

ArchiveRec == [url: Urls, phase: Phases, err: BOOLEAN, resErr: BOOLEAN,
               files: 0..NumFiles, parses: Nat]

Unused == [url |-> CHOOSE u \in Urls : TRUE, phase |-> "unused", err |-> FALSE,
           resErr |-> FALSE, files |-> 0, parses |-> 0]

TypeOK ==
    /\ cache \in [Urls -> Archives \cup {NoArchive}]
    /\ expired \in [Urls -> BOOLEAN]
    /\ archive \in [Archives -> ArchiveRec]
    /\ cacheMu \in Callers \cup {NoCaller}
    /\ pc \in [Callers -> {"idle", "lock", "hit", "wait"}]
    /\ want \in [Callers -> Urls]
    /\ got \in [Callers -> Archives \cup {NoArchive}]
    /\ res \in [Callers -> Results]
    /\ cachedArchives \in Int
    /\ entriesCached \in Int

-----------------------------------------------------------------------------
(* zipArchive.openStatus: a.done not closed is archiveOpening; a.err is    *)
(* archiveOpenError; a failed resource is archiveCorrupted.                *)
Status(rec) ==
    CASE rec.phase # "done" -> "opening"
      [] rec.err            -> "openError"
      [] rec.resErr         -> "corrupted"
      [] OTHER              -> "ok"

openStatus(a) == Status(archive[a])

(* What onEvicted reads as len(a.files): while readArchive's loop is still *)
(* filling the map the unsynchronised read may see any partial count.      *)
EvictedCount(a) ==
    IF archive[a].phase = "index" THEN 0..NumFiles ELSE {archive[a].files}

(* A zipArchive nobody references any more; its id may name a new one.    *)
Reusable(a) ==
    \/ archive[a].phase = "unused"
    \/ /\ archive[a].phase = "done"
       /\ a \notin Range(cache)
       /\ \A c \in Callers : got[c] # a

(* once.Do(func() { go a.readArchive(url) })                               *)
SpawnOnce(rec) ==
    IF rec.parses = 0 THEN [rec EXCEPT !.phase = "resource", !.parses = 1]
                      ELSE rec

(* The rest of openArchive once the archive is chosen and cacheMu is held: *)
(* return at once unless it is still opening, else start the read once and *)
(* wait on a.done.  rec is the archive's record as this step leaves it.    *)
OpenArchive(c, a, rec) ==
    IF Status(rec) # "opening"
    THEN /\ archive' = [archive EXCEPT ![a] = rec]
         /\ res' = [res EXCEPT ![c] = Status(rec)]
         /\ pc' = [pc EXCEPT ![c] = "idle"]
         /\ cacheMu' = NoCaller
    ELSE /\ archive' = [archive EXCEPT ![a] = SpawnOnce(rec)]
         /\ pc' = [pc EXCEPT ![c] = "wait"]
         /\ cacheMu' = c
         /\ UNCHANGED res

-----------------------------------------------------------------------------
(* A request goroutine calls zipVFS.Root(ctx, u); url.Parse succeeds for   *)
(* the URLs the domain source hands out, so it goes on to lock cacheMu.    *)
Root(c, u) ==
    /\ pc[c] = "idle"
    /\ pc' = [pc EXCEPT ![c] = "lock"]
    /\ want' = [want EXCEPT ![c] = u]
    /\ got' = [got EXCEPT ![c] = NoArchive]
    /\ res' = [res EXCEPT ![c] = "none"]
    /\ UNCHANGED <<cache, expired, archive, cacheMu, cachedArchives, entriesCached>>

(* Faulty variant: the miss branch only handles an absent item, not an *)
(* expired one.                                                           *)
FindMissAbsentOnly(c) ==
    LET u == want[c] IN
    /\ pc[c] = "lock"
    /\ cacheMu = NoCaller
    /\ cache[u] = NoArchive
    /\ \E a \in Archives :
        /\ Reusable(a)
        /\ LET old == cache[u] IN
           \E n \in (IF old = NoArchive THEN {0} ELSE EvictedCount(old)) :
            /\ cache' = [cache EXCEPT ![u] = a]
            /\ expired' = [expired EXCEPT ![u] = FALSE]
            /\ cachedArchives' = cachedArchives + 1
                                   - (IF old = NoArchive THEN 0 ELSE 1)
            /\ entriesCached' = entriesCached - n
            /\ got' = [got EXCEPT ![c] = a]
            /\ OpenArchive(c, a, [Unused EXCEPT !.url = u, !.phase = "new"])
    /\ UNCHANGED want

(* findOrOpenArchive, miss: no item or an expired one.  A new archive is   *)
(* Set (ccache's OnDelete runs for the item it replaces), the gauge is     *)
(* incremented, and openArchive is called with cacheMu still held.         *)
FindMiss(c) ==
    LET u == want[c] IN
    /\ pc[c] = "lock"
    /\ cacheMu = NoCaller
    /\ cache[u] = NoArchive \/ expired[u]
    /\ \E a \in Archives :
        /\ Reusable(a)
        /\ LET old == cache[u] IN
           \E n \in (IF old = NoArchive THEN {0} ELSE EvictedCount(old)) :
            /\ cache' = [cache EXCEPT ![u] = a]
            /\ expired' = [expired EXCEPT ![u] = FALSE]
            /\ cachedArchives' = cachedArchives + 1
                                   - (IF old = NoArchive THEN 0 ELSE 1)
            /\ entriesCached' = entriesCached - n
            /\ got' = [got EXCEPT ![c] = a]
            /\ OpenArchive(c, a, [Unused EXCEPT !.url = u, !.phase = "new"])
    /\ UNCHANGED want

(* Faulty variant: the hit branch does not check item.Expired().          *)
FindHitIgnoresExpiry(c) ==
    /\ pc[c] = "lock"
    /\ cacheMu = NoCaller
    /\ cache[want[c]] # NoArchive
    /\ pc' = [pc EXCEPT ![c] = "hit"]
    /\ cacheMu' = c
    /\ UNCHANGED <<cache, expired, archive, want, got, res, cachedArchives, entriesCached>>

(* findOrOpenArchive takes cacheMu and its first fs.cache.Get(path) finds *)
(* an item that has not expired: the hit branch.                           *)
FindHit(c) ==
    /\ pc[c] = "lock"
    /\ cacheMu = NoCaller
    /\ cache[want[c]] # NoArchive /\ ~expired[want[c]]
    /\ pc' = [pc EXCEPT ![c] = "hit"]
    /\ cacheMu' = c
    /\ UNCHANGED <<cache, expired, archive, want, got, res, cachedArchives, entriesCached>>

(* The hit branch calls fs.cache.Get(path) again and takes .Value() of it. *)
(* ccache's worker does not take cacheMu, so it may have pruned the item   *)
(* since the first Get: Value() of the nil item panics, the deferred       *)
(* Unlock releases cacheMu and net/http drops the request.  Otherwise the  *)
(* archive goes to openArchive.                                            *)
HitValue(c) ==
    LET a == cache[want[c]] IN
    /\ pc[c] = "hit"
    /\ IF a = NoArchive
       THEN /\ res' = [res EXCEPT ![c] = "panic"]
            /\ pc' = [pc EXCEPT ![c] = "idle"]
            /\ cacheMu' = NoCaller
            /\ UNCHANGED <<archive, got>>
       ELSE /\ got' = [got EXCEPT ![c] = a]
            /\ OpenArchive(c, a, archive[a])
    /\ UNCHANGED <<cache, expired, want, cachedArchives, entriesCached>>

(* select: <-a.done fired; openArchive returns a.err and cacheMu is        *)
(* released by findOrOpenArchive's deferred Unlock.                        *)
WaitDone(c) ==
    LET a == got[c] IN
    /\ pc[c] = "wait"
    /\ archive[a].phase = "done"
    /\ res' = [res EXCEPT ![c] = IF archive[a].err THEN "openError" ELSE "ok"]
    /\ pc' = [pc EXCEPT ![c] = "idle"]
    /\ cacheMu' = NoCaller
    /\ UNCHANGED <<cache, expired, archive, want, got, cachedArchives, entriesCached>>

(* Faulty variant: after the select the caller returns a.err whichever    *)
(* case fired, as the first zip VFS draft did.                             *)
WaitTimeoutReturnsErr(c) ==
    LET a == got[c] IN
    /\ pc[c] = "wait"
    /\ res' = [res EXCEPT ![c] = IF archive[a].err THEN "openError" ELSE "ok"]
    /\ pc' = [pc EXCEPT ![c] = "idle"]
    /\ cacheMu' = NoCaller
    /\ UNCHANGED <<cache, expired, archive, want, got, cachedArchives, entriesCached>>

(* select: <-ctx.Done() fired (request cancelled or openTimeout elapsed);  *)
(* openArchive returns ctx.Err() while readArchive carries on.             *)
WaitTimeout(c) ==
    /\ pc[c] = "wait"
    /\ res' = [res EXCEPT ![c] = "timeout"]
    /\ pc' = [pc EXCEPT ![c] = "idle"]
    /\ cacheMu' = NoCaller
    /\ UNCHANGED <<cache, expired, archive, want, got, cachedArchives, entriesCached>>

-----------------------------------------------------------------------------
(* readArchive: httprange.NewResource either fails (a.err set, done        *)
(* closed by the deferred close) or yields the resource.                   *)
ReadResource(a) ==
    /\ archive[a].phase = "resource"
    /\ \E fail \in BOOLEAN :
        archive' = [archive EXCEPT ![a].phase = IF fail THEN "done" ELSE "reader",
                                   ![a].err = fail]
    /\ UNCHANGED <<cache, expired, cacheMu, pc, want, got, res,
                   cachedArchives, entriesCached>>

(* readArchive: zip.NewReader parses the central directory, or fails.      *)
ReadCentralDirectory(a) ==
    /\ archive[a].phase = "reader"
    /\ \E fail \in BOOLEAN :
        archive' = [archive EXCEPT ![a].phase = IF fail THEN "done" ELSE "index",
                                   ![a].err = fail]
    /\ UNCHANGED <<cache, expired, cacheMu, pc, want, got, res,
                   cachedArchives, entriesCached>>

(* Faulty variant: the loop also stores the public directory's own entry   *)
(* in a.files, one more than the files under it.                           *)
IndexFilesWithDir(a) ==
    /\ archive[a].phase = "index"
    /\ archive' = [archive EXCEPT ![a].phase = "count", ![a].files = NumFiles + 1]
    /\ UNCHANGED <<cache, expired, cacheMu, pc, want, got, res,
                   cachedArchives, entriesCached>>

(* readArchive: guessPublicDirectoryName and the loop storing every entry  *)
(* under it in a.files / a.directories.                                    *)
IndexFiles(a) ==
    /\ archive[a].phase = "index"
    /\ archive' = [archive EXCEPT ![a].phase = "count", ![a].files = NumFiles]
    /\ UNCHANGED <<cache, expired, cacheMu, pc, want, got, res,
                   cachedArchives, entriesCached>>

(* readArchive: ZipArchiveEntriesCached.Add(len(a.files)), then the        *)
(* deferred close(a.done).                                                 *)
CountFiles(a) ==
    /\ archive[a].phase = "count"
    /\ entriesCached' = entriesCached + archive[a].files
    /\ archive' = [archive EXCEPT ![a].phase = "done"]
    /\ UNCHANGED <<cache, expired, cacheMu, pc, want, got, res, cachedArchives>>

(* A ranged read by a request serving from an opened archive fails and the *)
(* resource records the error (httprange.Resource.Err).                    *)
ResourceFails(a) ==
    /\ openStatus(a) = "ok"
    /\ \E c \in Callers : got[c] = a /\ res[c] = "ok"
    /\ archive' = [archive EXCEPT ![a].resErr = TRUE]
    /\ UNCHANGED <<cache, expired, cacheMu, pc, want, got, res,
                   cachedArchives, entriesCached>>

-----------------------------------------------------------------------------
(* The cached item's TTL (defaultCacheExpirationInterval, one minute)      *)
(* passes.  readArchive runs under openTimeout (shorter than the TTL) and  *)
(* starts as the item is Set, so an item only expires once a.done closed.  *)
(* Nor does the minute pass between the hit branch's two Gets.             *)
Expire(u) ==
    /\ cache[u] # NoArchive
    /\ ~expired[u]
    /\ ~\E c \in Callers : pc[c] = "hit" /\ want[c] = u
    /\ archive[cache[u]].phase = "done"
    /\ expired' = [expired EXCEPT ![u] = TRUE]
    /\ UNCHANGED <<cache, archive, cacheMu, pc, want, got, res,
                   cachedArchives, entriesCached>>

(* ccache prunes the item under size pressure (MaxSize 1000): OnDelete     *)
(* decrements ZipCachedArchives and calls archive.onEvicted, which         *)
(* subtracts len(a.files) from ZipArchiveEntriesCached.                    *)
Evict(u) ==
    LET a == cache[u] IN
    /\ a # NoArchive
    /\ \E n \in EvictedCount(a) :
        /\ entriesCached' = entriesCached - n
        /\ cachedArchives' = cachedArchives - 1
        /\ cache' = [cache EXCEPT ![u] = NoArchive]
        /\ expired' = [expired EXCEPT ![u] = FALSE]
    /\ UNCHANGED <<archive, cacheMu, pc, want, got, res>>

-----------------------------------------------------------------------------
Init ==
    /\ cache = [u \in Urls |-> NoArchive]
    /\ expired = [u \in Urls |-> FALSE]
    /\ archive = [a \in Archives |-> Unused]
    /\ cacheMu = NoCaller
    /\ pc = [c \in Callers |-> "idle"]
    /\ want = [c \in Callers |-> CHOOSE u \in Urls : TRUE]
    /\ got = [c \in Callers |-> NoArchive]
    /\ res = [c \in Callers |-> "none"]
    /\ cachedArchives = 0
    /\ entriesCached = 0

Next ==
    \/ \E c \in Callers, u \in Urls : Root(c, u)
    \/ \E c \in Callers :
        FindMiss(c) \/ FindHit(c) \/ HitValue(c) \/ WaitDone(c) \/ WaitTimeout(c)
    \/ \E a \in Archives :
        \/ ReadResource(a) \/ ReadCentralDirectory(a) \/ IndexFiles(a)
        \/ CountFiles(a) \/ ResourceFails(a)
    \/ \E u \in Urls : Expire(u) \/ Evict(u)

Spec == Init /\ [][Next]_vars

(* Each readArchive goroutine keeps running; a caller blocked in the      *)
(* select is released by ctx, which openArchive bounds by openTimeout;    *)
(* a goroutine blocked on cacheMu gets it eventually (sync.Mutex switches  *)
(* to starvation mode after 1 ms), hence strong fairness there.  Requests, *)
(* TTL expiry, pruning and resource failures get none.                     *)
Fairness ==
    /\ \A a \in Archives :
         WF_vars(ReadResource(a) \/ ReadCentralDirectory(a) \/ IndexFiles(a) \/ CountFiles(a))
    /\ \A c \in Callers :
         /\ WF_vars(HitValue(c))
         /\ WF_vars(WaitDone(c) \/ WaitTimeout(c))
         /\ SF_vars(FindMiss(c) \/ FindHit(c))

FairSpec == Spec /\ Fairness

-----------------------------------------------------------------------------
(* openArchive only hands out a fully opened archive: a Root call that     *)
(* returns without error returns an archive whose readArchive finished     *)
(* without error, whose resource has not failed, and whose file index is   *)
(* complete; a caller whose context ends first must not get one.           *)
ServedOnlyOpened ==
    [][\A c \in Callers :
         (pc[c] # "idle" /\ pc'[c] = "idle" /\ res'[c] = "ok")
            => LET a == got'[c] IN
               /\ archive'[a].phase = "done"
               /\ ~archive'[a].err /\ ~archive'[a].resErr
               /\ archive'[a].files = NumFiles]_vars

(* ZipArchiveEntriesCached counts the files of the opened archives in the  *)
(* cache, whenever no readArchive is in flight (readArchive adds after its *)
(* loop, onEvicted subtracts len(a.files)).                                *)
Quiescent == \A a \in Archives : archive[a].phase \in {"unused", "done"}

EntriesGaugeWhenQuiescent ==
    Quiescent =>
      entriesCached =
        Cardinality({u \in Urls : cache[u] # NoArchive
                                  /\ ~archive[cache[u]].err}) * NumFiles

(* A Root call whose first Get found its archive cached gets that archive *)
(* (or its open error): spec 4.D lets in-flight requests keep referencing *)
(* an evicted archive, so ccache pruning the item while the call holds    *)
(* cacheMu must not fail it.  The hit branch's second Get breaks this.     *)
HitNeverPruned == \A c \in Callers : res[c] # "panic"

(* The archive cache lock is never held across I/O: a Root call for an     *)
(* archive that is already open never waits while another caller's open   *)
(* is in flight (spec 4.D, "The LRU lock is never held across I/O").       *)
NoWaitBehindOtherOpen ==
    \A c1, c2 \in Callers :
        ~ /\ pc[c1] = "wait" /\ cacheMu = c1
          /\ pc[c2] = "lock" /\ want[c2] # want[c1]
          /\ cache[want[c2]] # NoArchive /\ ~expired[want[c2]]
          /\ openStatus(cache[want[c2]]) = "ok"

(* Every Root call ends (with an archive, an open error, ctx.Err() or the *)
(* panic of HitNeverPruned), even when other callers keep coming and the  *)
(* lock is held across another archive's open: nobody waits on cacheMu    *)
(* for ever.                                                               *)
RootReturns == \A c \in Callers : (pc[c] # "idle") ~> (pc[c] = "idle")

-----------------------------------------------------------------------------
(* Refinement mapping to ArchiveCache: an archive's abstract state is its  *)
(* openStatus (a free id has none); waiting on cacheMu is a pending call,  *)
(* waiting on a.done a bound one.  cacheMu, the reader's phases and the    *)
(* gauges are hidden.                                                      *)
AbsState(a) == IF archive[a].phase = "unused" THEN "free" ELSE openStatus(a)

AbsPc(c) == CASE pc[c] = "idle" -> "idle"
              [] pc[c] \in {"lock", "hit"} -> "pending"
              [] pc[c] = "wait" -> "bound"

AC == INSTANCE ArchiveCache
        WITH None <- NoArchive, acache <- cache, astale <- expired,
             astate <- [a \in Archives |-> AbsState(a)],
             apc <- [c \in Callers |-> AbsPc(c)],
             aurl <- want, aholder <- got, ares <- res

(* Root keeps the promise of the abstract archive cache: no call is       *)
(* answered from an expired or dropped entry, every answer is the status  *)
(* of the archive the call holds or a timeout while it is opening, and a  *)
(* fill only replaces an entry that is absent or expired.                  *)
ImplementsArchiveCache == AC!ASpec

=============================================================================
