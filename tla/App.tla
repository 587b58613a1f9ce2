------------------------------- MODULE App ----------------------------------
(***************************************************************************)
(* app.go: the domain map published by the watcher and read by request    *)
(* goroutines, and the request pipeline of serveContent and                *)
(* tryAuxiliaryHandlers.                                                   *)
(*                                                                         *)
(* A domain map is a function from hosts to "none" (unknown host),         *)
(* "plain" or "httpsOnly" (domain.IsHTTPSOnly); NoMap is the nil a.dm of a *)
(* process whose watcher has not published yet.  A request is its entry   *)
(* listener, its X-Forwarded-Proto header, its target and its host;        *)
(* redirects, CORS and file serving are abstracted to the response kind.  *)
(***************************************************************************)
EXTENDS FiniteSets

CONSTANTS
    Hosts,          \* request hosts (after SplitHostPort and ToLower)
    Maps,           \* domain maps the watcher may publish
    NoMap,          \* a.dm == nil
    Workers,        \* request goroutines
    Entries,        \* listeners configured: "http", "tls", "proxy"
    Targets,        \* request URIs: "status", "statusQuery", "content"
    RedirectHTTP,   \* appConfig.RedirectHTTP
    ArtifactHosts,  \* hosts carrying the artifacts prefix ({} without a server)
    StartReady      \* TRUE: start after the first UpdateDomains

ASSUME /\ Maps \subseteq [Hosts -> {"none", "plain", "httpsOnly"}]
       /\ NoMap \notin Maps
       /\ Entries \subseteq {"http", "tls", "proxy"}
       /\ Targets \subseteq {"status", "statusQuery", "content"}
       /\ ArtifactHosts \subseteq Hosts

Requests == [entry: Entries, proto: {"", "http", "https"},
             target: Targets, host: Hosts]
Responses == {"none", "success", "503", "307", "artifact", "404", "301", "content"}
NoDomain == "none"
(* The request field of a worker between requests (carries no meaning).   *)
IdleRequest == CHOOSE q \in Requests : TRUE

VARIABLES
    dm,     \* a.dm
    pc,     \* worker -> "idle" | "lookup" | "decide"
    req,    \* worker -> the request it serves
    dom,    \* worker -> the domain getHostAndDomain returned
    seen,   \* worker -> the maps a.dm held while its request was in flight
    resp    \* worker -> the response of its last request

vars == <<dm, pc, req, dom, seen, resp>>

TypeOK ==
    /\ dm \in Maps \cup {NoMap}
    /\ pc \in [Workers -> {"idle", "lookup", "decide"}]
    /\ req \in [Workers -> Requests]
    /\ dom \in [Workers -> {"none", "plain", "httpsOnly"}]
    /\ seen \in [Workers -> SUBSET (Maps \cup {NoMap})]
    /\ resp \in [Workers -> Responses]

-----------------------------------------------------------------------------
(* isReady: a.dm != nil, read without a.lock.                              *)
isReady == dm # NoMap

(* The request's https flag: r.TLS != nil in ServeHTTP; in ServeProxy the  *)
(* X-Forwarded-Proto header equals "https".                                *)
IsHTTPS(q) ==
    IF q.entry = "proxy" THEN q.proto = "https" ELSE q.entry = "tls"

(* r.RequestURI == a.appConfig.StatusPath: a status path with a query      *)
(* string is a different RequestURI.                                       *)
IsStatusRequest(q) == q.target = "status"

(* Artifact.TryMakeRequest: the host carries the artifacts prefix.         *)
TryMakeRequest(q) == q.host \in ArtifactHosts

(* tryAuxiliaryHandlers then domain.ServeHTTP, for request q, the domain d *)
(* getHostAndDomain returned and the readiness ready read afterwards.      *)
AuxiliaryHandlers(q, d, ready) ==
    CASE IsStatusRequest(q)                -> IF ready THEN "success" ELSE "503"
      [] ~IsHTTPS(q) /\ RedirectHTTP       -> "307"
      [] TryMakeRequest(q)                 -> "artifact"
      [] ~ready                            -> "503"
      [] d = NoDomain                      -> "404"
      [] ~IsHTTPS(q) /\ d = "httpsOnly"    -> "301"
      [] OTHER                             -> "content"

-----------------------------------------------------------------------------
(* ServeHTTP / ServeProxy: a listener hands a worker a new request; the    *)
(* worker enters serveContent.                                             *)
Receive(w) ==
    /\ pc[w] = "idle"
    /\ \E q \in Requests :
        /\ q.entry = "proxy" \/ q.proto = ""
        /\ req' = [req EXCEPT ![w] = q]
    /\ pc' = [pc EXCEPT ![w] = "lookup"]
    /\ seen' = [seen EXCEPT ![w] = {dm}]
    /\ resp' = [resp EXCEPT ![w] = "none"]
    /\ UNCHANGED <<dm, dom>>

(* getHostAndDomain -> a.domain(host): one lookup under a.lock.RLock.      *)
GetHostAndDomain(w) ==
    /\ pc[w] = "lookup"
    /\ dom' = [dom EXCEPT ![w] = IF dm = NoMap THEN NoDomain ELSE dm[req[w].host]]
    /\ pc' = [pc EXCEPT ![w] = "decide"]
    /\ UNCHANGED <<dm, req, seen, resp>>

(* tryAuxiliaryHandlers (reading isReady) and, when it declines, serving   *)
(* the file through the domain found by the lookup.                        *)
ServeContent(w) ==
    /\ pc[w] = "decide"
    /\ resp' = [resp EXCEPT ![w] = AuxiliaryHandlers(req[w], dom[w], isReady)]
    /\ pc' = [pc EXCEPT ![w] = "idle"]
    /\ req' = [req EXCEPT ![w] = IdleRequest]
    /\ dom' = [dom EXCEPT ![w] = NoDomain]
    /\ seen' = [seen EXCEPT ![w] = {}]
    /\ UNCHANGED dm

(* UpdateDomains: the watcher swaps a.dm under a.lock.Lock.                *)
UpdateDomains(m) ==
    /\ dm' = m
    /\ seen' = [w \in Workers |-> IF pc[w] = "idle" THEN seen[w] ELSE seen[w] \cup {m}]
    /\ UNCHANGED <<pc, req, dom, resp>>

-----------------------------------------------------------------------------
Init ==
    /\ dm \in IF StartReady THEN Maps ELSE {NoMap}
    /\ pc = [w \in Workers |-> "idle"]
    /\ req = [w \in Workers |-> IdleRequest]
    /\ dom = [w \in Workers |-> NoDomain]
    /\ seen = [w \in Workers |-> {}]
    /\ resp = [w \in Workers |-> "none"]

Next ==
    \/ \E w \in Workers : Receive(w) \/ GetHostAndDomain(w) \/ ServeContent(w)
    \/ \E m \in Maps : UpdateDomains(m)

Spec == Init /\ [][Next]_vars

-----------------------------------------------------------------------------
(* The pipeline of spec 4.H evaluated against one domain map m.            *)
SpecResponse(q, m) ==
    LET https == IF q.entry = "proxy" THEN q.proto = "https" ELSE q.entry = "tls"
        d == IF m = NoMap THEN NoDomain ELSE m[q.host]
    IN CASE q.target \in {"status", "statusQuery"} -> IF m # NoMap THEN "success" ELSE "503"
         [] ~https /\ RedirectHTTP           -> "307"
         [] q.host \in ArtifactHosts         -> "artifact"
         [] m = NoMap                        -> "503"
         [] d = NoDomain                     -> "404"
         [] ~https /\ d = "httpsOnly"        -> "301"
         [] OTHER                            -> "content"

(* Every request is answered as the spec's pipeline answers it on one     *)
(* domain map that a.dm held while the request was in flight: the         *)
(* watcher's swap is never seen torn between getHostAndDomain and the     *)
(* later isReady, and the auxiliary handlers run in the spec's order with *)
(* the spec's notion of https (spec 4.H and section 5, "Ordering").        *)
ConsistentView ==
    [][\A w \in Workers :
         ServeContent(w) =>
             resp'[w] \in {SpecResponse(req[w], m) : m \in seen[w]}]_vars

=============================================================================
