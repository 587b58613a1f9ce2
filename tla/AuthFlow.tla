------------------------------- MODULE AuthFlow -------------------------------
(***************************************************************************)
(* The OAuth layer of unnamed/part_008 (package auth, the newer version at *)
(* lines 1-675): a protected tenant domain, the central pages domain and   *)
(* the GitLab identity provider exchange redirects through a browser.      *)
(*                                                                         *)
(* The Pages server keeps no state of its own: a request is handled by the *)
(* pure operator Handle from the request and the session in its cookie.    *)
(* Sessions are gorilla CookieStore cookies: sealed, so nobody can read or *)
(* forge one, but the store accepts a valid cookie whatever host it comes  *)
(* with.  The victim's browser keeps a cookie per host and runs its own    *)
(* tab and a tab opened from a link the attacker sent.  The attacker is a  *)
(* user of GitLab and of Pages (it owns AttackerSite, whose DNS it         *)
(* controls) and an HTTP client that replays what it has seen.             *)
(***************************************************************************)
EXTENDS Naturals, FiniteSets

CONSTANTS
    Victim, Attacker,  \* GitLab users
    PagesDomain,       \* a.pagesDomain, the host of redirectURI
    Tenant,            \* the victim's access-controlled custom domain
    AttackerSite,      \* the attacker's access-controlled custom domain
    IdP,               \* the GitLab server
    DotSuffix,         \* hosts h with strings.HasSuffix("."+h, a.pagesDomain)
    Nonces,            \* values of securecookie.GenerateRandomKey(16)
    None, NoCookie,    \* untyped model values
    MaxLures,          \* links of the attacker the victim follows
    MaxSends,          \* requests the attacker sends
    MaxRevokes,        \* access tokens GitLab revokes
    MaxFailures        \* failed steps: token exchange, pages_access, signing the code

Users == {Victim, Attacker}
Hosts == {PagesDomain, Tenant, AttackerSite}
KnownDomains == {Tenant, AttackerSite}     \* domains.GetDomain succeeds
Protected == {Tenant, AttackerSite}        \* lookup paths with access control
Access == [h \in Protected |-> IF h = Tenant THEN {Victim} ELSE {Attacker}]
HijackedDNS == {AttackerSite}              \* the victim's browser reaches the attacker
Tabs == {"own", "lure"}

Raw(u) == [kind |-> "raw", user |-> u]     \* an authorization code of user u
Jwt(aud, c) == [kind |-> "jwt", aud |-> aud, inner |-> c]  \* EncryptAndSignCode
Token(u, g) == [user |-> u, gen |-> g]

Session(st, uri, tok, proxy) == [state |-> st, uri |-> uri, token |-> tok, proxy |-> proxy]
EmptySession == Session(None, None, None, None)

Request(h, p, d, st, c) == [host |-> h, path |-> p, domain |-> d, state |-> st, code |-> c]
Page(h) == Request(h, "page", None, None, None)
Callback(h, c, st) == Request(h, "auth", None, st, c)
AuthStart(d, st) == Request(PagesDomain, "auth", d, st, None)
Authorize(st) == Request(IdP, "authorize", None, st, None)

Response(set, next, result) == [set |-> set, next |-> next, result |-> result]

VARIABLES
    vjar,      \* host -> the victim's cookie for it, NoCookie if none
    tab,       \* tab -> the request the victim's browser sends next, None if idle
    waiting,   \* the victim asked for the tenant's page and has not seen it
    kstates,   \* states the attacker has seen
    kcodes,    \* codes and relay JWTs the attacker has seen
    kcookies,  \* session cookies the attacker has been given
    xgot,      \* protected hosts whose content was served to the attacker
    gen,       \* user -> generation of its valid access token
    lures, sends, revokes, failures

vars == <<vjar, tab, waiting, kstates, kcodes, kcookies, xgot, gen,
          lures, sends, revokes, failures>>

-----------------------------------------------------------------------------
(* domainAllowed: the pages domain, a name whose "."+name ends with it, or *)
(* a domain the source resolves.                                           *)
domainAllowed(name) ==
    name = PagesDomain \/ name \in DotSuffix \/ name \in KnownDomains

(* validateState: a non-empty state equal to the session's.               *)
validateState(r, s) == r.state # None /\ s.state # None /\ s.state = r.state

(* DecryptCode(code, getRequestDomain(r)): the inner code of a relay JWT   *)
(* whose audience is this host.                                            *)
DecryptsFor(c, h) == c # None /\ c.kind = "jwt" /\ c.aud = h

(* checkAuthenticationResponse, for a callback with code and state.  The  *)
(* token exchange fails on GitLab's side (fail) or for anything but a code *)
(* GitLab issued.                                                          *)
checkAuthenticationResponse(h, r, s, g, fail) ==
    CASE ~validateState(r, s)   -> Response(NoCookie, None, "401")
      [] s.uri = None           -> Response(NoCookie, None, "500")
      [] ~DecryptsFor(r.code, h) -> Response(NoCookie, None, "500")
      [] fail \/ r.code.inner = None \/ r.code.inner.kind # "raw"
                                -> Response(NoCookie, None, "503")
      [] OTHER -> LET u == r.code.inner.user IN
                  Response([s EXCEPT !.token = Token(u, g[u])], Page(s.uri), "redirect")

(* handleProxyingAuth on /auth: either start the flow for r.domain, or    *)
(* relay the callback to proxy_auth_domain (deleted and saved before the  *)
(* code is encrypted, query "code" replaced by the JWT; a failed          *)
(* EncryptAndSignCode answers 503 with the proxying already cleared).      *)
ProxyAuthToGitlab(r, s) ==
    IF ~domainAllowed(r.domain) THEN Response(NoCookie, None, "401")
    ELSE Response([s EXCEPT !.proxy = r.domain], Authorize(r.state), "redirect")

ProxyCallbackToCustomDomain(r, s, fail) ==
    IF fail THEN Response([s EXCEPT !.proxy = None], None, "503")
    ELSE Response([s EXCEPT !.proxy = None],
                  Callback(s.proxy, Jwt(s.proxy, r.code), r.state), "redirect")

(* destroySession that saves the session without deleting access_token. *)
destroySessionKeepsToken(h, s) == Response(s, Page(h), "redirect")

(* destroySession: delete access_token, save, redirect to the same page.  *)
destroySession(h, s) == Response([s EXCEPT !.token = None], Page(h), "redirect")

(* checkTokenExists with no token: a new state and the request address are *)
(* stored, proxying is cleared, and the browser goes to the pages domain.  *)
checkTokenExists(h, s, st) ==
    Response(Session(st, h, None, None), AuthStart(h, st), "redirect")

(* checkAuthentication for a protected host: the session must hold a      *)
(* token; pages_access answers 200 for a user with access, 401            *)
(* invalid_token for a revoked token, and anything else (or an error of   *)
(* the call) ends in ServeNotFoundAuthFailed.                              *)
checkAuthentication(h, s, g, st, fail) ==
    CASE s.token = None                    -> checkTokenExists(h, s, st)
      [] fail                              -> Response(NoCookie, None, "404")
      [] s.token.gen < g[s.token.user]     -> destroySession(h, s)
      [] s.token.user \in Access[h]        -> Response(NoCookie, None, "content")
      [] OTHER                             -> Response(NoCookie, None, "404")

(* TryAuthenticate, then the auth gate of a protected domain.  s is the   *)
(* session store.Get decodes from the cookie (a new one without cookie).   *)
Handle(h, r, s, g, st, fail) ==
    CASE r.path = "auth" /\ r.domain # None /\ r.state # None -> ProxyAuthToGitlab(r, s)
      [] r.path = "auth" /\ s.proxy # None -> ProxyCallbackToCustomDomain(r, s, fail)
      [] r.path = "auth" /\ r.code # None /\ r.state # None ->
             checkAuthenticationResponse(h, r, s, g, fail)
      [] h \in Protected -> checkAuthentication(h, s, g, st, fail)
      [] OTHER           -> Response(NoCookie, None, "public")

(* GitLab's authorize endpoint for the user logged in to this browser.    *)
IdPAuthorize(r, u) == Response(NoCookie, Callback(PagesDomain, Raw(u), r.state), "redirect")

StoreGet(c) == IF c = NoCookie THEN EmptySession ELSE c

(* Which GitLab calls may fail on this step, and the state nonce the step  *)
(* would generate: any value nobody holds (which one is immaterial).       *)
InUse == kstates \cup {vjar[h].state : h \in {h \in Hosts : vjar[h] # NoCookie}}
         \cup {tab[t].state : t \in {t \in Tabs : tab[t] # None}}
         \cup {c.state : c \in kcookies}
FreshNonce == CHOOSE n \in Nonces : n \notin InUse
Failures == IF failures < MaxFailures THEN BOOLEAN ELSE {FALSE}

(* The requests the attacker can build from what it has seen.             *)
XRequests ==
    {Page(h) : h \in Protected}
    \cup {AuthStart(d, st) : d \in Hosts, st \in kstates}
    \cup {Callback(h, c, st) : h \in Hosts, c \in kcodes, st \in kstates}
    \cup {Authorize(st) : st \in kstates}

Learn(r) == /\ kstates' = kstates \cup ({r.state} \ {None})
            /\ kcodes' = kcodes \cup ({r.code} \ {None})

-----------------------------------------------------------------------------
(* The victim asks for the tenant's page in its own tab (again after an   *)
(* error page or a detour).                                                *)
VVisit ==
    /\ tab["own"] = None
    /\ tab' = [tab EXCEPT !["own"] = Page(Tenant)]
    /\ waiting' = TRUE
    /\ UNCHANGED <<vjar, kstates, kcodes, kcookies, xgot, gen, lures, sends, revokes, failures>>

(* The victim opens a link the attacker sent.                             *)
Lure(r) ==
    /\ tab["lure"] = None /\ lures < MaxLures
    /\ tab' = [tab EXCEPT !["lure"] = r]
    /\ lures' = lures + 1
    /\ UNCHANGED <<vjar, waiting, kstates, kcodes, kcookies, xgot, gen, sends, revokes, failures>>

(* The victim's browser sends a tab's request with its cookie for the     *)
(* host and follows the answer: to GitLab, to the attacker's server, or   *)
(* to the Pages server.                                                    *)
VSend(t) ==
    LET r == tab[t] IN
    /\ r # None
    /\ \/ /\ r.host = IdP
          /\ tab' = [tab EXCEPT ![t] = IdPAuthorize(r, Victim).next]
          /\ UNCHANGED <<vjar, waiting, kstates, kcodes, failures>>
       \/ /\ r.host \in HijackedDNS
          /\ Learn(r)
          /\ tab' = [tab EXCEPT ![t] = None]
          /\ UNCHANGED <<vjar, waiting, failures>>
       \/ /\ r.host \in Hosts \ HijackedDNS
          /\ \E fail \in Failures :
               LET resp == Handle(r.host, r, StoreGet(vjar[r.host]), gen, FreshNonce, fail)
                   ok == Handle(r.host, r, StoreGet(vjar[r.host]), gen, FreshNonce, FALSE)
               IN
               /\ vjar' = IF resp.set = NoCookie THEN vjar ELSE [vjar EXCEPT ![r.host] = resp.set]
               /\ tab' = [tab EXCEPT ![t] = resp.next]
               /\ waiting' = (waiting /\ ~(r.host = Tenant /\ resp.result = "content"))
               /\ failures' = IF resp # ok THEN failures + 1 ELSE failures
          /\ UNCHANGED <<kstates, kcodes>>
    /\ UNCHANGED <<kcookies, xgot, gen, lures, sends, revokes>>

(* The attacker sends a request of its own, with any cookie it holds, to  *)
(* GitLab (logged in as itself) or to the Pages server, and reads the     *)
(* answer: the cookie set, and the state and code of the redirect.         *)
XSend ==
    /\ sends < MaxSends
    /\ sends' = sends + 1
    /\ \E r \in XRequests :
        \/ /\ r.host = IdP
           /\ Learn(IdPAuthorize(r, Attacker).next)
           /\ UNCHANGED <<kcookies, xgot>>
        \/ /\ r.host \in Hosts
           /\ \E c \in kcookies \cup {NoCookie} :
                LET resp == Handle(r.host, r, StoreGet(c), gen, FreshNonce, FALSE) IN
                /\ kcookies' = IF resp.set = NoCookie THEN kcookies ELSE kcookies \cup {resp.set}
                /\ IF resp.next = None THEN UNCHANGED <<kstates, kcodes>> ELSE Learn(resp.next)
                /\ xgot' = IF resp.result = "content" THEN xgot \cup {r.host} ELSE xgot
    /\ UNCHANGED <<vjar, tab, waiting, gen, lures, revokes, failures>>

(* GitLab revokes the victim's access token.                              *)
Revoke ==
    /\ revokes < MaxRevokes
    /\ gen' = [gen EXCEPT ![Victim] = @ + 1]
    /\ revokes' = revokes + 1
    /\ UNCHANGED <<vjar, tab, waiting, kstates, kcodes, kcookies, xgot, lures, sends, failures>>

-----------------------------------------------------------------------------
Init ==
    /\ vjar = [h \in Hosts |-> NoCookie]
    /\ tab = [t \in Tabs |-> None]
    /\ waiting = FALSE
    /\ kstates = {} /\ kcodes = {} /\ kcookies = {} /\ xgot = {}
    /\ gen = [u \in Users |-> 0]
    /\ lures = 0 /\ sends = 0 /\ revokes = 0 /\ failures = 0

Next ==
    \/ VVisit \/ XSend \/ Revoke
    \/ \E r \in XRequests : Lure(r)
    \/ \E t \in Tabs : VSend(t)

(* The victim's browser follows redirects, and the victim, while it has   *)
(* not seen the page, asks again after an error page.  The attacker,      *)
(* GitLab's revocations and failures get no fairness.                      *)
Fairness == WF_vars(VSend("own")) /\ WF_vars(waiting /\ VVisit)

Spec == Init /\ [][Next]_vars /\ Fairness

-----------------------------------------------------------------------------
(* Only a user with access to a protected domain is served its content:   *)
(* the attacker, who has none on the tenant's domain, is never served it  *)
(* (spec 4.I: the code relay prevents the confused deputy between tenants, *)
(* and the session is scoped to its host).                                 *)
OnlyAuthorisedServed == Tenant \notin xgot

(* A victim who asks for the tenant's page is eventually served it, also  *)
(* when its token is revoked (destroySession and a fresh login), when a   *)
(* call to GitLab fails, and when the attacker's link diverted a flow.     *)
VictimEventuallyServed == waiting ~> ~waiting

=============================================================================
