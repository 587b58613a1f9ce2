------------------------- MODULE SharedLimitListener -------------------------
(***************************************************************************)
(* internal/netutil/shared_limit_listener.go: one Limiter (a buffered      *)
(* channel of capacity n used as a semaphore) shared by several            *)
(* sharedLimitListeners.  Each listener has one accept loop (the           *)
(* http.Server's Serve goroutine) calling Accept; accepted connections are *)
(* closed by their handlers; the listener is closed by shutdown.           *)
(***************************************************************************)
EXTENDS Naturals, FiniteSets

CONSTANTS
    Listeners,   \* the listeners sharing the limiter
    Capacity,    \* n of NewLimiter(n): cap(l.limiter.sem)
    ConnIds,     \* connection objects alive at once (ids are reused)
    MaxBacklog,  \* bound on clients queued in one listener's backlog
    MaxCloses    \* bound on Close calls on one connection

ASSUME /\ Capacity \in Nat \ {0}
       /\ MaxBacklog \in Nat \ {0}
       /\ MaxCloses \in Nat \ {0}

VARIABLES
    sem,       \* len(l.limiter.sem): slots taken
    lstate,    \* listener -> "open" | "closing" | "closed"  (Close in progress)
    netClosed, \* listener -> the wrapped net.Listener has been closed
    done,      \* listener -> l.done has been closed
    backlog,   \* listener -> clients waiting to be accepted
    apc,       \* listener -> accept loop: "idle" | "acquire" | "accept" | "stopped"
    acquired,  \* listener -> the value acquire() returned in this Accept
    conn,      \* ConnIds -> "free" | "open" | "closed" (releaseOnce done)
    closes     \* ConnIds -> Close calls made on the connection

vars == <<sem, lstate, netClosed, done, backlog, apc, acquired, conn, closes>>

TypeOK ==
    /\ sem \in 0..Capacity
    /\ lstate \in [Listeners -> {"open", "closing", "closed"}]
    /\ netClosed \in [Listeners -> BOOLEAN]
    /\ done \in [Listeners -> BOOLEAN]
    /\ backlog \in [Listeners -> 0..MaxBacklog]
    /\ apc \in [Listeners -> {"idle", "acquire", "accept", "stopped"}]
    /\ acquired \in [Listeners -> BOOLEAN]
    /\ conn \in [ConnIds -> {"free", "open", "closed"}]
    /\ closes \in [ConnIds -> 0..MaxCloses]

OpenConns == {c \in ConnIds : conn[c] = "open"}

-----------------------------------------------------------------------------
(* A client connects to a listener that is still listening.                *)
Dial(l) ==
    /\ ~netClosed[l]
    /\ backlog[l] < MaxBacklog
    /\ backlog' = [backlog EXCEPT ![l] = @ + 1]
    /\ UNCHANGED <<sem, lstate, netClosed, done, apc, acquired, conn, closes>>

(* The Serve loop calls Accept, which starts with acquire().               *)
StartAccept(l) ==
    /\ apc[l] = "idle"
    /\ apc' = [apc EXCEPT ![l] = "acquire"]
    /\ UNCHANGED <<sem, lstate, netClosed, done, backlog, acquired, conn, closes>>

(* Faulty variant: acquire() blocks on the semaphore alone, without the    *)
(* l.done case.                                                            *)
AcquireSemOnly(l) ==
    /\ apc[l] = "acquire"
    /\ sem < Capacity
    /\ sem' = sem + 1
    /\ acquired' = [acquired EXCEPT ![l] = TRUE]
    /\ apc' = [apc EXCEPT ![l] = "accept"]
    /\ UNCHANGED <<lstate, netClosed, done, backlog, conn, closes>>

(* acquire(): select on <-l.done (false) and l.limiter.sem <- struct{}{}   *)
(* (true); when both are ready Go picks either.                            *)
Acquire(l) ==
    /\ apc[l] = "acquire"
    /\ \/ /\ sem < Capacity
          /\ sem' = sem + 1
          /\ acquired' = [acquired EXCEPT ![l] = TRUE]
       \/ /\ done[l]
          /\ acquired' = [acquired EXCEPT ![l] = FALSE]
          /\ UNCHANGED sem
    /\ apc' = [apc EXCEPT ![l] = "accept"]
    /\ UNCHANGED <<lstate, netClosed, done, backlog, conn, closes>>

(* Faulty variant: the error path releases a slot whether or not acquire   *)
(* took one.                                                               *)
AcceptReleaseAlways(l) ==
    /\ apc[l] = "accept"
    /\ \/ /\ netClosed[l]
          /\ sem' = sem - 1
          /\ apc' = [apc EXCEPT ![l] = "stopped"]
          /\ UNCHANGED <<backlog, conn, closes>>
       \/ /\ ~netClosed[l]
          /\ backlog[l] > 0
          /\ \E c \in ConnIds :
               /\ conn[c] = "free"
               /\ conn' = [conn EXCEPT ![c] = "open"]
          /\ backlog' = [backlog EXCEPT ![l] = @ - 1]
          /\ apc' = [apc EXCEPT ![l] = "idle"]
          /\ UNCHANGED <<sem, closes>>
    /\ UNCHANGED <<lstate, netClosed, done, acquired>>

(* l.Listener.Accept(): blocks until a client is queued or the listener is *)
(* closed.  On error the slot is released if acquired and Serve returns;   *)
(* on success the connection carries l.release whatever acquire returned.  *)
Accept(l) ==
    /\ apc[l] = "accept"
    /\ \/ /\ netClosed[l]
          /\ sem' = IF acquired[l] THEN sem - 1 ELSE sem
          /\ apc' = [apc EXCEPT ![l] = "stopped"]
          /\ UNCHANGED <<backlog, conn, closes>>
       \/ /\ ~netClosed[l]
          /\ backlog[l] > 0
          /\ \E c \in ConnIds :
               /\ conn[c] = "free"
               /\ conn' = [conn EXCEPT ![c] = "open"]
          /\ backlog' = [backlog EXCEPT ![l] = @ - 1]
          /\ apc' = [apc EXCEPT ![l] = "idle"]
          /\ UNCHANGED <<sem, closes>>
    /\ UNCHANGED <<lstate, netClosed, done, acquired>>

(* Faulty variant: every Close releases, without releaseOnce.              *)
ConnCloseNoOnce(c) ==
    /\ conn[c] \in {"open", "closed"}
    /\ closes[c] < MaxCloses
    /\ sem > 0
    /\ sem' = sem - 1
    /\ conn' = [conn EXCEPT ![c] = "closed"]
    /\ closes' = [closes EXCEPT ![c] = @ + 1]
    /\ UNCHANGED <<lstate, netClosed, done, backlog, apc, acquired>>

(* sharedLimitListenerConn.Close, by the handler or again by the server's  *)
(* shutdown: Conn.Close, then releaseOnce.Do(release); only the first call *)
(* receives from the semaphore (and blocks while it is empty).             *)
ConnClose(c) ==
    /\ conn[c] \in {"open", "closed"}
    /\ closes[c] < MaxCloses
    /\ closes' = [closes EXCEPT ![c] = @ + 1]
    /\ \/ /\ conn[c] = "open"
          /\ sem > 0
          /\ sem' = sem - 1
          /\ conn' = [conn EXCEPT ![c] = "closed"]
       \/ /\ conn[c] = "closed"
          /\ UNCHANGED <<sem, conn>>
    /\ UNCHANGED <<lstate, netClosed, done, backlog, apc, acquired>>

(* The handler's goroutine is gone and the connection object is garbage.   *)
ConnFree(c) ==
    /\ conn[c] = "closed"
    /\ conn' = [conn EXCEPT ![c] = "free"]
    /\ closes' = [closes EXCEPT ![c] = 0]
    /\ UNCHANGED <<sem, lstate, netClosed, done, backlog, apc, acquired>>

(* Faulty variant: Close closes l.done before the wrapped listener.        *)
ListenerCloseDoneFirst(l) ==
    \/ /\ lstate[l] = "open"
       /\ done' = [done EXCEPT ![l] = TRUE]
       /\ lstate' = [lstate EXCEPT ![l] = "closing"]
       /\ UNCHANGED <<netClosed, backlog>>
    \/ /\ lstate[l] = "closing"
       /\ netClosed' = [netClosed EXCEPT ![l] = TRUE]
       /\ backlog' = [backlog EXCEPT ![l] = 0]
       /\ lstate' = [lstate EXCEPT ![l] = "closed"]
       /\ UNCHANGED done
    /\ UNCHANGED <<sem, apc, acquired, conn, closes>>

(* sharedLimitListener.Close: l.Listener.Close() (queued clients are       *)
(* dropped), then closeOnce closes l.done.                                 *)
ListenerClose(l) ==
    \/ /\ lstate[l] = "open"
       /\ netClosed' = [netClosed EXCEPT ![l] = TRUE]
       /\ backlog' = [backlog EXCEPT ![l] = 0]
       /\ lstate' = [lstate EXCEPT ![l] = "closing"]
       /\ UNCHANGED done
    \/ /\ lstate[l] = "closing"
       /\ done' = [done EXCEPT ![l] = TRUE]
       /\ lstate' = [lstate EXCEPT ![l] = "closed"]
       /\ UNCHANGED <<netClosed, backlog>>
    /\ UNCHANGED <<sem, apc, acquired, conn, closes>>

-----------------------------------------------------------------------------
Init ==
    /\ sem = 0
    /\ lstate = [l \in Listeners |-> "open"]
    /\ netClosed = [l \in Listeners |-> FALSE]
    /\ done = [l \in Listeners |-> FALSE]
    /\ backlog = [l \in Listeners |-> 0]
    /\ apc = [l \in Listeners |-> "idle"]
    /\ acquired = [l \in Listeners |-> FALSE]
    /\ conn = [c \in ConnIds |-> "free"]
    /\ closes = [c \in ConnIds |-> 0]

Next ==
    \/ \E l \in Listeners :
        Dial(l) \/ StartAccept(l) \/ Acquire(l) \/ Accept(l) \/ ListenerClose(l)
    \/ \E c \in ConnIds : ConnClose(c) \/ ConnFree(c)

(* Each accept loop is a goroutine the scheduler keeps running, and a      *)
(* Close that has begun runs to its end.  Clients, handlers closing their  *)
(* connections and the decision to shut a listener down get no fairness.   *)
Fairness ==
    \A l \in Listeners :
        /\ WF_vars(StartAccept(l))
        /\ WF_vars(Acquire(l))
        /\ WF_vars(Accept(l))
        /\ WF_vars(lstate[l] = "closing" /\ ListenerClose(l))

Spec == Init /\ [][Next]_vars /\ Fairness

-----------------------------------------------------------------------------
(* Every taken slot belongs to exactly one holder: an open connection or   *)
(* an Accept call that acquired and has not yet returned.  Release through *)
(* a connection that never acquired (acquire lost to l.done but the        *)
(* wrapped Accept still succeeded) would take another holder's slot.       *)
SlotsAccounted ==
    sem = Cardinality(OpenConns)
          + Cardinality({l \in Listeners : apc[l] = "accept" /\ acquired[l]})

(* Closing a listener stops its accept loop, even when every slot of the   *)
(* shared pool is held by connections that stay open: a pending acquire is *)
(* unblocked by l.done.                                                    *)
CloseStopsAcceptLoop ==
    \A l \in Listeners : (lstate[l] = "closing") ~> (apc[l] = "stopped")

=============================================================================
