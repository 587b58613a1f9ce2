---------------------------- MODULE ArchiveCache -----------------------------
(***************************************************************************)
(* What zipVFS.Root promises (spec 4.C and 4.D), without the cache lock,   *)
(* the reader goroutine's steps or the metrics: a URL names at most one    *)
(* cached archive; a call either finds a live one or fills the entry with  *)
(* a fresh archive that starts opening; it answers with the archive's      *)
(* status once that is known, or with a timeout while it is opening.  A    *)
(* pending call whose entry has been dropped may instead end in a panic:  *)
(* the one way Root fails a call that is not about its archive.           *)
(***************************************************************************)
CONSTANTS Callers, Urls, Archives, None

VARIABLES
    acache,   \* Url -> archive, None when absent
    astale,   \* Url -> the item's TTL has passed
    astate,   \* archive -> "free" | "opening" | "ok" | "openError" | "corrupted"
    apc,      \* caller -> "idle" | "pending" | "bound"
    aurl,     \* caller -> the Url it asked for
    aholder,  \* caller -> the archive its call holds, None if none
    ares      \* caller -> the answer of its last call

avars == <<acache, astale, astate, apc, aurl, aholder, ares>>

Held(a) == \E c \in Callers : aholder[c] = a
Cached(a) == \E u \in Urls : acache[u] = a

Call(c, u) ==
    /\ apc[c] = "idle"
    /\ apc' = [apc EXCEPT ![c] = "pending"]
    /\ aurl' = [aurl EXCEPT ![c] = u]
    /\ aholder' = [aholder EXCEPT ![c] = None]
    /\ ares' = [ares EXCEPT ![c] = "none"]
    /\ UNCHANGED <<acache, astale, astate>>

(* A live entry: answer at once unless its archive is still opening.       *)
Hit(c) ==
    LET a == acache[aurl[c]] IN
    /\ apc[c] = "pending"
    /\ a # None /\ ~astale[aurl[c]]
    /\ aholder' = [aholder EXCEPT ![c] = a]
    /\ IF astate[a] = "opening"
       THEN apc' = [apc EXCEPT ![c] = "bound"] /\ UNCHANGED ares
       ELSE apc' = [apc EXCEPT ![c] = "idle"] /\ ares' = [ares EXCEPT ![c] = astate[a]]
    /\ UNCHANGED <<acache, astale, astate, aurl>>

(* No live entry: a fresh archive nobody refers to fills it and opens.     *)
Fill(c) ==
    LET u == aurl[c] IN
    /\ apc[c] = "pending"
    /\ acache[u] = None \/ astale[u]
    /\ \E a \in Archives :
        /\ ~Cached(a) /\ ~Held(a)
        /\ acache' = [acache EXCEPT ![u] = a]
        /\ astale' = [astale EXCEPT ![u] = FALSE]
        /\ astate' = [astate EXCEPT ![a] = "opening"]
        /\ aholder' = [aholder EXCEPT ![c] = a]
    /\ apc' = [apc EXCEPT ![c] = "bound"]
    /\ UNCHANGED <<aurl, ares>>

Complete(a) ==
    /\ astate[a] = "opening"
    /\ \E r \in {"ok", "openError"} : astate' = [astate EXCEPT ![a] = r]
    /\ UNCHANGED <<acache, astale, apc, aurl, aholder, ares>>

Corrupt(a) ==
    /\ astate[a] = "ok"
    /\ astate' = [astate EXCEPT ![a] = "corrupted"]
    /\ UNCHANGED <<acache, astale, apc, aurl, aholder, ares>>

(* A bound call answers with the outcome of the open it waited for.       *)
Return(c) ==
    /\ apc[c] = "bound"
    /\ astate[aholder[c]] \in {"ok", "openError"}
    /\ ares' = [ares EXCEPT ![c] = astate[aholder[c]]]
    /\ apc' = [apc EXCEPT ![c] = "idle"]
    /\ UNCHANGED <<acache, astale, astate, aurl, aholder>>

Crash(c) ==
    /\ apc[c] = "pending"
    /\ acache[aurl[c]] = None
    /\ ares' = [ares EXCEPT ![c] = "panic"]
    /\ apc' = [apc EXCEPT ![c] = "idle"]
    /\ UNCHANGED <<acache, astale, astate, aurl, aholder>>

Timeout(c) ==
    /\ apc[c] = "bound"
    /\ ares' = [ares EXCEPT ![c] = "timeout"]
    /\ apc' = [apc EXCEPT ![c] = "idle"]
    /\ UNCHANGED <<acache, astale, astate, aurl, aholder>>

(* Entries go stale only once their open is over; they may be dropped at  *)
(* any time.                                                               *)
Stale(u) ==
    /\ acache[u] # None /\ ~astale[u]
    /\ astate[acache[u]] # "opening"
    /\ astale' = [astale EXCEPT ![u] = TRUE]
    /\ UNCHANGED <<acache, astate, apc, aurl, aholder, ares>>

Drop(u) ==
    /\ acache[u] # None
    /\ acache' = [acache EXCEPT ![u] = None]
    /\ astale' = [astale EXCEPT ![u] = FALSE]
    /\ UNCHANGED <<astate, apc, aurl, aholder, ares>>

AInit ==
    /\ acache = [u \in Urls |-> None]
    /\ astale = [u \in Urls |-> FALSE]
    /\ astate = [a \in Archives |-> "free"]
    /\ apc = [c \in Callers |-> "idle"]
    /\ aurl \in [Callers -> Urls]
    /\ aholder = [c \in Callers |-> None]
    /\ ares = [c \in Callers |-> "none"]

ANext ==
    \/ \E c \in Callers : \/ \E u \in Urls : Call(c, u)
                          \/ Hit(c) \/ Fill(c) \/ Return(c) \/ Crash(c) \/ Timeout(c)
    \/ \E a \in Archives : Complete(a) \/ Corrupt(a)
    \/ \E u \in Urls : Stale(u) \/ Drop(u)

ASpec == AInit /\ [][ANext]_avars

=============================================================================
