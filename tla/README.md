# TLA+ models of GitLab Pages

This directory holds TLA+ models of the concurrent and protocol-heavy parts of
the GitLab Pages daemon (`src/`). TLC checks them. Each module translates the Go
source, and `PROJECT.json` maps every definition to the lines it models.

## 1. The system and its parts

| Part | Source | State | Operations | Concurrency / hard behaviour |
|---|---|---|---|---|
| ZIP VFS cache | `internal/vfs/zip/vfs.go` 1-117 | ccache of `*zipArchive` keyed by URL; `cacheMu`; gauges `ZipCachedArchives`, `ZipArchiveEntriesCached` | `Root`, `findOrOpenArchive`, OnDelete hook | every request goroutine calls Root; ccache prunes in its own goroutine; items expire after 1 min |
| Archive open and lookup | `internal/vfs/zip/archive.go` | `done`, `once`, `err`, `archive`, `files`, `resource` | `openArchive`, `readArchive`, `openStatus`, `onEvicted`, `Open`, `Lstat`, `Readlink` | one reader goroutine per archive, callers with timeouts, eviction during the read |
| Range resource | `internal/httprange` (not in this snapshot) | resource error | `NewResource`, ranged reads | fails at any time |
| Resolver | `internal/source/gitlab/gitlab.go` 50-74 | none (pure) | `Resolve` | order of lookup paths |
| GitLab source | `gitlab.go` 28-46, `api/lookup.go` | API answers | `GetDomain` | two API calls per request |
| Domain map | `app.go` 38-61, 161-238 | `a.dm` under `a.lock` | `UpdateDomains`, `domain`, `isReady`, `ServeTLS` | watcher writes while requests read; `isReady` reads without the lock |
| Request pipeline | `app.go` 63-159 | per request: host, domain, https flag | `ServeHTTP`, `ServeProxy`, `serveContent`, `tryAuxiliaryHandlers` | check order; reads `a.dm` twice |
| OAuth (AuthFlow) | `unnamed/part_008` 1-675 | cookie session (`state`, `access_token`, `uri`, `proxy_auth_domain`) per domain | `TryAuthenticate`, `handleProxyingAuth`, `checkAuthentication` | three parties exchange redirects; nonces; tokens become invalid |
| Connection limiter | `internal/netutil/shared_limit_listener.go` | semaphore `sem`, per listener `done`, per conn `releaseOnce` | `Accept`, `acquire`, `release`, `Close`, conn `Close` | several accept loops share one pool; shutdown races a blocked acquire |
| Legacy disk domain (DiskDomain) | `unnamed/part_004` | filesystem under `pagesRoot`; certificate memo | `ServeHTTP`, `serveFromGroup`, `serveFromConfig`, `tryFile`, `ensureCertificate` | path from the request; symlinks chosen by tenants |
| Rate limiter | `vfs.go` 119-224 | LRU of per-domain token buckets | `New`, `getDomainCounter`, `DomainAllowed` | request goroutines share a bucket; `rl.now()` is read before the bucket's lock; LRU eviction and TTL |

The parts work together like this. A request passes the connection limiter and
then `ServeHTTP`. `tryAuxiliaryHandlers` and the domain map pick a domain.
Resolve picks the project. Serving then calls `zipVFS.Root`, which opens the
archive through the range resource. For private projects, OAuth sits in front
of serving.

The source tree mixes snapshots that do not all compile together. For example,
`vfs.go` calls `newArchive(fs, path, timeout)`, but `archive.go` defines
`newArchive(fs, timeout)`. The models follow the newest code of each function.
`part_006` is an earlier draft of the archive. The second half of `part_008`
(lines 677-1132) is a complete older version of `auth.go`. `AuthFlow` models
the first half; section 4 says why the older one is left out.

## 2. Modules

### ZipVFS.tla (with MCZipVFS.tla)

This module models the zip VFS cache and the archive open protocol.

**Constants**
- `Callers`: request goroutines.
- `Urls`: cache keys.
- `CanonicalOf`: which URLs name the same archive object.
- `Archives`: `*zipArchive` objects, as model values.
- `NumFiles`: entries in a zip.

**Variables and the code they stand for**
- `cache`, `expired`: the ccache items and their TTL state.
- `archive[a]`: the fields of one zipArchive.
  - `phase` is the progress of `readArchive`.
  - `err` is `a.err`.
  - `resErr` is `resource.Err()`.
  - `files` is `len(a.files)`.
  - `parses` counts the `readArchive` goroutines started; it is the `once` state.
- `cacheMu`: who holds the lock.
- `pc`, `want`, `got`, `res`: each caller's position and result.
- `cachedArchives`, `entriesCached`: the two gauges.

**Actions**
- `Root`: a request starts.
- `FindMiss`: the miss branch of `findOrOpenArchive`. It continues into `OpenArchive`, which covers the `openStatus` early return and the `once.Do` start of the reader.
- `FindHit` and `HitValue`: the hit branch. `FindHit` takes `cacheMu`, and its first `fs.cache.Get` finds a live item. `HitValue` is the second `fs.cache.Get(path).Value()`. It panics when ccache pruned the item in between; otherwise it continues into `OpenArchive`.
- `WaitDone` and `WaitTimeout`: the two cases of the `select`. Returning releases `cacheMu`, as the deferred Unlock does.
- `ReadResource`, `ReadCentralDirectory`, `IndexFiles`, `CountFiles`: the steps of `readArchive`. `IndexFiles` is where an eviction sees a partial `len(a.files)`.
- `ResourceFails`: the range resource fails.
- `Expire`: the TTL passes.
- `Evict`: ccache prunes an item and OnDelete runs.

**Design choices**
- Replacing an expired item inside `FindMiss` also fires OnDelete, because that is what ccache's Set does. The model fires it in the same step; in ccache it runs later on the worker (section 4).
- An item expires only once its archive is done. The TTL (1 min) is longer than `DefaultOpenTimeout`, so this matches real timing. For the same reason, it does not expire between the hit branch's two Gets. Pruning by size has no such bound: ccache's worker runs concurrently and takes no `cacheMu`.
- The panic ends the request: the deferred Unlock releases `cacheMu`, and `res` records `panic`.
- Archive objects are recycled once they are out of the cache and no caller holds them. This keeps the state space finite.
- `FindHitIgnoresExpiry`, `FindMissAbsentOnly`, `IndexFilesWithDir` and `WaitTimeoutReturnsErr` are faulty variants used as mutants. `WaitTimeoutReturnsErr` is what the `part_006` draft does.

### SharedLimitListener.tla (with MCSharedLimitListener.tla)

This module models one `Limiter` shared by several listeners. Each listener has
an accept loop: `StartAccept`, then `Acquire` (the select on `done` against the
semaphore), then `Accept` (the error path with release, or a new connection).
Clients queue with `Dial`. Handlers close connections with `ConnClose`, and
server shutdown may close them again (up to `MaxCloses` times). Only the first
Close releases, through `releaseOnce`; `closes` counts the calls. `ListenerClose` has two steps, as in the code:
it closes the wrapped listener first, then `done`.

### ArchiveCache.tla (abstract) and the refinement

`ArchiveCache` states what `zipVFS.Root` promises, without `cacheMu`, the
reader goroutine's steps or the gauges. A URL names at most one archive. A
call (`Call`) is answered at once from a live entry (`Hit`), or fills an
absent or expired entry with a fresh archive that starts opening (`Fill`).
A call bound to an opening archive answers with its outcome (`Return`) or
times out (`Timeout`). A pending call whose entry has been dropped may end in
a panic (`Crash`): this is what the code does (`zipvfs_hit_pruned`), and the
abstract spec admits it so that the refinement states everything else Root
keeps. Entries go stale only after their open is over
(`Stale`) and may be dropped at any time (`Drop`).

`ZipVFS` ends with the refinement mapping.
- `acache`, `astale`, `aurl`, `aholder` and `ares` are `cache`, `expired`,
  `want`, `got` and `res`.
- An archive's abstract state is its `openStatus`, or `free` while its id is
  unused.
- A caller waiting on `cacheMu`, or between the two Gets of the hit branch, is
  `pending`; a caller waiting on `a.done` is `bound`.

`ImplementsArchiveCache == AC!ASpec` is checked as a PROPERTY in the
`zipvfs_safety` run. Its mutant `FindHitIgnoresExpiry` answers from an
expired item, which the abstract `Hit` forbids.

### App.tla (with MCApp.tla)

This module models `app.go`: the domain map and the request pipeline.

**Constants**
- `Hosts`: request hosts.
- `Maps`: the domain maps the watcher can publish. A map sends each host to
  `none`, `plain` or `httpsOnly`.
- `NoMap`: the nil `a.dm` before the first publish.
- `Workers`: request goroutines.
- `Entries`: the listener kinds (`http`, `tls`, `proxy`).
- `Targets`: request URIs.
- `RedirectHTTP`, `ArtifactHosts`: configuration.
- `StartReady`: whether the first map is published before any request. The one
  App run sets it to FALSE.

**Variables**
- `dm` is `a.dm`.
- Per worker: `pc`, `req` (entry, X-Forwarded-Proto, target, host), and
  `dom`, the domain that `getHostAndDomain` returned.
- `resp` is the response kind.
- `seen` is a history variable. It holds the maps `a.dm` held while the
  request was in flight.

**Actions**
- `Receive`: `ServeHTTP` or `ServeProxy` hands a worker a request.
- `GetHostAndDomain`: the one locked lookup.
- `ServeContent`: `tryAuxiliaryHandlers` (which reads `isReady` again,
  without the lock) plus serving.
- `UpdateDomains`: the watcher's swap.

`SpecResponse` is the spec 4.H pipeline evaluated on a single map. It checks in the same order as `AuxiliaryHandlers`, so comparing the two says something only when a request's two reads of `a.dm` can see different maps. That happens at startup, which is what `app_startup_torn_view` checks.

### ZipArchivePaths.tla (with MCZipArchivePaths.tla)

This module models how `readArchive` picks and indexes the public directory,
and how `findFile`, `findDirectory`, `Open`, `Lstat` and `Readlink` resolve a
name.
- A zip entry name is a sequence of segments with a directory flag.
- String prefix between segments is the constant relation `SegPrefix`.
- `path.Clean` is `CleanPath`, a `FoldLeft` over the segments.
- `getAllRootDirectories` and `guessPublicDirectoryName` are folds and
  `SelectSeq` over the SSG folder list.
- A symlink's content is abstracted to its length.
- `ReadLinkBytes` is `io.ReadFull` into a `maxSymlinkSize + 1` buffer.

Each initial state is one archive (up to 2 entries) and one name (up to 3
segments, `.` and `..` included).

### DiskDomain.tla (with MCDiskDomain.tla)

This module models the legacy disk-serving domain of `unnamed/part_004`,
using the pure-operator style of `ZipArchivePaths`: each initial state is
one filesystem, one domain and one request path.
- Paths are segment sequences.
- `JoinAbs` is `filepath.Join` with `Clean`.
- `HasStrPrefix` is `strings.HasPrefix` on the joined strings. String prefix
  between segments is the constant `SegPrefix`.
- `Walk` is the kernel's path resolution, a RECURSIVE operator. It follows
  symlinks in every component except the last one (`os.Lstat`), and it stops
  after `MaxHops` links.
- `tryFile`, `serveFromGroup`, `serveFromConfig` and `ServeHTTP` translate
  the code line by line. Their result is the real path of the file served.
- The filesystem holds group `g` with project `p` and a group named `public`
  with project `q`, plus `/etc/passwd`. `p`'s public directory has an
  optional symlink `l`, which is the tenant's choice. `l` points at one of:
  `q`'s public directory, `/etc`, or `p`'s own `index.html`.

### AuthFlow.tla (with MCAuthFlow.tla)

This module models the OAuth layer of `unnamed/part_008` (the newer version,
lines 1-675). The Pages server keeps no state between requests, so a request
is one step: `Handle` computes the answer from the request and the session
decoded from its cookie.
- `Handle` is `TryAuthenticate`: `ProxyAuthToGitlab` and
  `ProxyCallbackToCustomDomain` are the two branches of `handleProxyingAuth`,
  and `checkAuthenticationResponse` handles a callback with code and state.
  Any other request to a protected domain goes on to `checkAuthentication`,
  which is `checkTokenExists`, the `pages_access` call,
  `checkResponseForInvalidToken` and `destroySession`.
- A session is a record of the four values the code stores: `state`, `uri`,
  `access_token` and `proxy_auth_domain`. `StoreGet` decodes it. The cookie is
  sealed: no party can read or forge it, but any party can replay it to any
  host, because gorilla's `CookieStore` does not bind it to a host.
- `Jwt` and `DecryptsFor` stand for `EncryptAndSignCode` and `DecryptCode`,
  which are not in `src/`. They are modelled from spec 4.I: a JWT carries
  the code, and it is valid only at the domain it was issued for. The JWT
  expiry is not modelled.
- Hosts are the pages domain, the victim's custom domain `Tenant` and the
  attacker's custom domain `AttackerSite`. Both custom domains are served by
  Pages and have access control. The attacker controls the DNS of
  `AttackerSite`.
- The environment:
  - `VVisit`, `VSend(tab)`: the victim's browser. It keeps one cookie per host
    and has two tabs: its own, and one opened from a link.
  - `Lure`: the victim opens a link the attacker built.
  - `XSend`: the attacker, a GitLab user and an HTTP client. It replays any
    cookie, state or code it has seen.
  - `Revoke`: GitLab revokes the victim's token.
  - A step that calls GitLab, or signs a code, may fail, up to `MaxFailures`
    times.
  - GitLab answers `authorize` with a code of the logged-in user.

### RateLimiter.tla (with MCRateLimiter.tla)

This module models `internal/ratelimiter` (`vfs.go` 119-224): a token bucket per domain, held in the `domains` LRU.

- **State:**
  - the clock `now`, which `rl.now()` reads;
  - the cache as `cache[d]` (a limiter id or `None`) and `seen[d]`, the last time the item was set or fetched;
  - the limiters `lims[i]`, each `[tokens, last]`;
  - per goroutine: `pc`, the domain, the limiter and the time it read;
  - a ghost `adm[i]`, the clock at each admission by limiter `i`.
- **Scaling:** a bucket's tokens are scaled by `Every`, the ticks per token, so the refill is one unit per tick.
- **Actions:** `DomainAllowed` is three actions, in Go's evaluation order:
  1. `Fetch`: `getDomainCounter`, one atomic `FindOrFetch`. A missing or idle item gets a fresh full bucket, and the least recently used item is evicted over `Capacity`.
  2. `ReadNow`: the argument `rl.now()`.
  3. `AllowN`: runs under the limiter's mutex.
- **Environment:** `Tick` advances the clock.
- **Library code:** `rate.Limiter` and `internal/lru` are not in the snapshot, and there is no `go.mod` to pin their versions. `Advance` and `AllowN` follow `x/time/rate`:
  - a `t` before `last` gets no refill;
  - an admitted call stores `t` as `last`;
  - a refused call changes nothing.

  Every version stores `t` on an admitted call. `FindOrFetch` is one atomic step (spec 5).

## 3. Runs

| Run | cfg | Expect | What it shows |
|---|---|---|---|
| zipvfs_safety | MCZipVFS.cfg | pass | A caller gets `ok` only for a fully read, undamaged archive (`ServedOnlyOpened`, an action property). This holds when callers time out and retry, items expire, prunes happen mid-read or between the two Gets, and resources fail. Every behaviour is one of `ArchiveCache` (`ImplementsArchiveCache`). |
| zipvfs_hit_pruned | MCZipVFS_pruned.cfg | violation | A Root call fails although its first Get found the archive (`HitNeverPruned`). The trace: c1 misses and times out; c2's first Get finds c1's archive; ccache prunes it; c2's second Get returns nil, and `.Value()` panics. |
| zipvfs_liveness | MCZipVFS_live.cfg | pass | Under fair scheduling every Root call returns (`RootReturns`), although `cacheMu` is held across opens and items keep expiring. |
| zipvfs_entries_gauge | MCZipVFS_entries.cfg | violation | If an archive is pruned while it is being read, `ZipArchiveEntriesCached` stays off once everything is idle. |
| zipvfs_lock_across_io | MCZipVFS_hol.cfg | violation | A request for an already-open archive waits on `cacheMu` behind another archive's open. |
| limiter | MCSharedLimitListener.cfg | pass | Every taken slot has one holder, also when connections are closed twice (`SlotsAccounted`). Close stops the accept loop even when the pool is full (`CloseStopsAcceptLoop`). |
| app_startup_torn_view | MCApp_startup.cfg | violation | A request that looks its host up before the first `UpdateDomains` and reads `isReady` after it gets 404 for a host the new map serves. |
| paths_readlink | MCZipArchivePaths.cfg | pass | Over every archive of up to 2 entries and every name of up to 3 segments, `Readlink` returns a symlink target exactly when it fits in `maxSymlinkSize` bytes, and never a truncated one (`ReadlinkExact`). |
| auth_liveness | MCAuthFlow.cfg | pass | A victim who asks for its page is eventually served it (`VictimEventuallyServed`). This holds through a revoked token (`destroySession`, then a fresh login), a failed token exchange, `pages_access` call or code signing, and a flow the attacker's link diverted. |
| auth_token_theft | MCAuthFlow_theft.cfg | violation | The attacker is served the tenant's protected page (`OnlyAuthorisedServed`). The trace, in order: the attacker takes a session and its state from the tenant's host, lures the victim to `/auth?domain=AttackerSite&state=…` on the pages domain, receives the relayed JWT for its own domain, redeems it there with the tenant's session, and replays that session on the tenant's host. |
| disk_symlink_escape | MCDiskDomain.cfg | violation | On a custom domain, `GET /l/passwd` serves `/etc/passwd` when the tenant's public directory holds `l -> /etc` (`ServesOnlyTenantFiles`). With `Domains <- MCAllDomains`, which adds a group domain, TLC instead reports `GET /../q/public` serving the site of group `public`: the project name `..` comes straight from `SplitN`. |
| ratelimit_stale_now | MCRateLimiter.cfg | violation | A bucket admits more than its burst plus one token per `Every` ticks (`BucketBound`). The trace: goroutine A fetches the domain's limiter and reads `now = 0`; the clock ticks; B is admitted at 1, the bucket's first use, which fills it; A's `AllowN(0)` moves `last` back to 0 and is admitted; B's next call at 1 is credited the tick from 0 to 1 again. That is three admissions at clock 1 with burst 2. With `rl.now()` read under the lock, the same configuration passes (172,593 states). |

`PROJECT.json` records the seven violations as findings.

Three properties were dropped as shallow:
- **`ParseOncePerArchive`:** it restated the `once.Do` guard.
- **`CachedArchivesGauge`:** the model changes the gauge in the same step as the cache, so the check held by construction. ccache's OnDelete really runs later, on its worker; section 4 says why that is not modelled.
- **`app_pipeline`'s `ConsistentView` with the map published first:** the response it compared with is the same lookup over the same map. `ConsistentView` is still checked in `app_startup_torn_view`, where the unlocked `isReady` can see a newer map.

The run cap retired four earlier violation runs: a status-path request with a query string
(`app.go:91` compares `RequestURI`; `App` still offers the `statusQuery`
target), and two signed URLs of one archive getting two cache entries
(`vfs.go:69` keys the cache by the full URL), `Resolve` choosing the first lookup path that occurs anywhere in the request path rather than the longest prefix (`gitlab.go:57`, `strings.Contains`), and `../publicity` reaching an entry of a sibling of the public directory (`archive.go:144` tests `HasPrefix` without a trailing `/`; the run gave way to `ratelimit_stale_now`). These divergences are still in
the code, but no run checks them now. Every property of a
passing run has a mutant: a faulty variant of a mapped definition, defined
just before it, that TLC shows to break the property.

### Bounds

**RateLimiter**
- 2 goroutines and 2 domains; a cache of 1 item with an idle TTL of 2 ticks.
- Burst 2, one token per tick, a clock up to 2, 5 requests and 3 limiters.
- This is enough for eviction by capacity, expiry by TTL, a refetched bucket, and a goroutine preempted between its time read and `AllowN`.
- The shortest counterexample has 11 states.

**ZipVFS (safety)**
- 2 callers, 2 URLs, 3 archive objects, 2 files.
- This is enough for a caller to wait while another opens, for a timeout followed by a retry, for one archive to be replaced while another is open, and for a mid-index eviction (which needs 2 files).
- A symmetry on archive objects is sound because this run checks only safety.
- The VIEW drops `entriesCached`, an unbounded gauge that no guard reads. `EntriesGaugeWhenQuiescent` is checked without the VIEW.

**ZipVFS (liveness)**
- 2 callers, 1 URL, 3 archive objects, 1 file, with no symmetry.
- At most two ids are ever in use at once: the cached one and the one the
  other caller still holds. A third id is therefore always free for a fill,
  so running out of ids (an artifact of the model) cannot block a caller.

**Limiter**
- 2 listeners, 2 slots, 3 connection ids, a backlog of 1, and up to 2 closes per connection.
- This is enough for one listener to fill the pool while the other blocks in acquire and is then closed, and for a closed connection to be closed again while another holds a slot.

**DiskDomain**
- 4 filesystems (no link, and `l` to each of its three targets), request
  paths of up to 4 segments over `p`, `q`, `public`, `l`, `passwd`,
  `index.html` and `..`, and `MaxHops = 2`. Every target of `l` is one hop
  away.

**App**
- 2 hosts, 2 workers, and 3 maps that differ in what they say of one host.
- One host is an artifact host. With 2 workers, one worker can be caught between its two reads of `a.dm` while the other runs.
- The workers are symmetric.

**AuthFlow**
- 3 hosts, 2 users, 7 nonces, 1 lure and 2 tabs.
- Liveness: 2 attacker requests, 1 revocation, 1 failure. This lets the
  attacker's link take over the victim's `proxy_auth_domain` in the middle of
  the victim's own flow.
- Theft: 3 attacker requests, and no revocations or failures. The attack
  needs one lure and three requests, so these bounds are its minimum.
- The nonce a step generates is the first one nobody holds. Nonces are
  interchangeable, so which one is chosen does not matter. Seven is more than
  can be held at once under these bounds.

**ZipArchivePaths**
- The segments `public` and `publicity` (one a string prefix of the other), symlink lengths 0, 1, 256, 257 and 300 around `maxSymlinkSize = 256`, up to 2 entries of depth 2, and names of up to 3 segments.

### Fairness

- **Limiter:** weak fairness on each accept loop's steps and on finishing a
  `Close` once it has started. Go's scheduler keeps runnable goroutines
  running, and `Close` runs in a single goroutine. Clients, handlers and the
  decision to shut down get no fairness.
- **ZipVFS:**
  - Weak fairness on the reader goroutine's steps.
  - Weak fairness on a waiting caller's `WaitDone` or `WaitTimeout`: the open
    timer always fires. Weak fairness on `HitValue`: the goroutine holds the
    lock and runs on.
  - Strong fairness on taking `cacheMu` (`FindMiss` or `FindHit`). The lock
    is free only now and then, so weak fairness would not do. `sync.Mutex`
    justifies strong fairness: after a waiter has waited 1 ms, the mutex
    switches to starvation mode and hands the lock to waiters in FIFO order.
  - New requests, expiry, pruning and resource failures get no fairness.

- **AuthFlow:** weak fairness on the victim's browser sending its own tab's
  request. A browser follows redirects. Weak fairness also on the victim
  asking again for its page while it has not seen it: a user who gets an
  error page retries. The attacker, the lured tab, revocations and failures
  get no fairness.

`CHECK_DEADLOCK FALSE` is set in the limiter run and the rate-limiter run. In the rate-limiter run, the request budget and the clock bound end the model, as an idle server stops taking requests. Once every listener is
closed and its loop has stopped, the system really does stop.

## 4. Not modelled, and why

- **httprange:** not in this snapshot. Its failures are environment steps.
- **Byte layout and DEFLATE of zip files, and the TLS handshake itself:** pure data and I/O.
- **Resolver (`gitlab.go` 50-74):** a pure loop over one API answer, which a unit test reaches. Its `strings.Contains` divergence is described above. Its run gave way to `disk_symlink_escape`.
- **`ServeTLS` and `ensureCertificate`:** `ServeTLS` does the same single locked lookup as `getHostAndDomain`. The certificate memo of `part_004` is written without a lock; concurrent handshakes may both parse the key pair, with the same result.
- **Rate limiter, per-domain bound:** a bucket evicted, or idle past the TTL, is replaced by a full one. A goroutine that fetched the old bucket may still use it, so a domain can have two live buckets at once (`vfs.go:210`). Spec 4.K discards a bucket on eviction, so no property bounds admissions per domain across buckets.
- **GitLab source `GetDomain`:** it is a single API call, and it is not yet wired into `app.go`, which serves from `a.dm`.
- **OAuth, the rest of it:**
  - The `error` query parameter.
  - `checkSession`'s decode-error path: cookies cannot be forged.
  - `session.Save` failures.
  - `GetTokenIfExists` and `CheckResponseForInvalidToken`, used by the artifact proxy.
  - The 10-minute cookie lifetime and the JWT expiry.
  - `New` and `generateKeys`.
  - Where `TryAuthenticate` is called: that code is not in `src/`. The model
    follows spec 4.H: unknown hosts answer 404 before the auth gate.
  - The `domainAllowed` suffix test (a missing dot) is the constant
    `DotSuffix`, empty here. A name it wrongly admits, such as
    `evilpages.io`, is not a Pages domain, so the JWT relayed there cannot be
    redeemed at Pages.
  - The older OAuth version at `part_008` 677-1132.
- **Socket setup (`part_000`), config, CI files, mocks, fixtures:** these are not behaviour.
- **Redirects engine:** only its tests are present.
- **ccache's worker (`ZipCachedArchives`, `vfs.go:95`):** ccache is not in this snapshot. Its OnDelete runs on the worker after a Set replaced the item, and not at all for an item the worker has not promoted yet. The model applies OnDelete in the step that drops the item, so no property can see the gauge drift.
- **The `a.resource` race (`archive.go:79`):** it writes the same URL, so it has no observable effect.

## 5. Plan for later sittings (most important first)

1. **AuthFlow with host-bound sessions:** a variant in which the session records its host. It would check that the theft closes, and that a state learned from a diverted flow cannot plant the attacker's token in the victim's session (login CSRF).
2. **GitLab `GetDomain` with `Resolve`:** the two API reads of one request.
3. **RateLimiter across buckets:** a per-domain bound, if the spec comes to forbid two live buckets for one domain (see section 4).
