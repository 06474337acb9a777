-------------------------- MODULE ServerLifecycle --------------------------
(***************************************************************************)
(* App.listenServerWithCleanup (server.go): start-up, the serve goroutine, *)
(* signals, App.Shutdown from another goroutine, the OnShutdown hooks, the *)
(* drain of net/http and the transport-coupled cleanup.  http.Server is    *)
(* modelled by what this code uses of it: a listener that Shutdown closes, *)
(* connections that Shutdown waits for until its context expires, and a    *)
(* serve call that returns ErrServerClosed once the server is shut down.   *)
(***************************************************************************)
EXTENDS Naturals

CONSTANTS
    Conn,                 \* connections that may carry a request
    ShutdownTimeout,      \* Config.ShutdownTimeout, in clock ticks
    MaxTime,              \* bound on the clock
    ServeMayFail          \* may serve() return on its own, with an error or without?

ASSUME LifecycleAssumption ==
    /\ ShutdownTimeout \in Nat \ {0}
    /\ MaxTime \in Nat
    /\ ServeMayFail \in BOOLEAN

VARIABLES
    main,         \* where listenServerWithCleanup is
    serve,        \* the serve goroutine
    inShutdown,   \* the listener of srv has been closed by Shutdown
    errCh,        \* the channel between them: "open", "error" or "closed"
    quit,         \* a signal is pending in the quit channel
    bySignal,     \* signalReceived
    conn,         \* the state of each connection
    now,          \* the clock
    deadline,     \* when the shutdown context expires
    signalAt,     \* when the pending signal arrived
    shutdownErr,  \* what srv.Shutdown or the wait for serve reported
    serveErr,     \* the error of serve was received
    result,       \* what ListenServer returned
    hookRuns,     \* how often the OnShutdown hooks have run
    cleanups      \* how often cleanup has run

transport == <<serve, inShutdown, errCh>>
stop == <<quit, bySignal, signalAt, deadline>>
world == <<conn, now>>
errors == <<shutdownErr, serveErr>>
done == <<result, hookRuns, cleanups>>
vars == <<main, transport, stop, world, errors, done>>

TypeOK ==
    /\ main \in {"call", "startup", "select", "hooks", "shutdown", "draining",
                 "await", "cleanup", "returned"}
    /\ serve \in {"none", "starting", "serving", "returned"}
    /\ errCh \in {"open", "error", "closed"}
    /\ conn \in [Conn -> {"none", "active", "finished"}]
    /\ {inShutdown, quit, bySignal, serveErr} \subseteq BOOLEAN
    /\ {now, deadline, signalAt} \subseteq 0 .. (MaxTime + ShutdownTimeout)
    /\ shutdownErr \in {"nil", "deadline"}
    /\ result \in {"none", "nil", "badArgument", "startup", "serve", "deadline"}
    /\ hookRuns \in 0 .. 1
    /\ cleanups \in 0 .. 1

Init ==
    /\ main = "call" /\ serve = "none" /\ errCh = "open"
    /\ inShutdown = FALSE /\ quit = FALSE /\ bySignal = FALSE /\ serveErr = FALSE
    /\ conn = [c \in Conn |-> "none"]
    /\ now = 0 /\ deadline = 0 /\ signalAt = 0
    /\ shutdownErr = "nil" /\ result = "none"
    /\ hookRuns = 0 /\ cleanups = 0

Active == {c \in Conn : conn[c] = "active"}

----------------------------------------------------------------------------
\* Mutant: an early return leaks what cleanup would release.
ReturnEarlyLeaking(err) ==
    /\ main' = "returned" /\ result' = err
    /\ UNCHANGED <<hookRuns, cleanups, transport, stop, world, errors>>

\* A return before serving starts, after the cleanup of what is already set up.
ReturnEarly(err) ==
    /\ main' = "returned" /\ result' = err /\ cleanups' = cleanups + 1
    /\ UNCHANGED <<hookRuns, transport, stop, world, errors>>

\* The arguments are checked and the server is registered with the App.
Call ==
    /\ main = "call"
    /\ \/ ReturnEarly("badArgument")
       \/ /\ main' = "startup"
          /\ UNCHANGED <<transport, stop, world, errors, done>>

\* The OnStartup hooks run; if they succeed the serve goroutine is launched, the
\* signals are trapped and the shutdown context is created.
Startup ==
    /\ main = "startup"
    /\ \/ ReturnEarly("startup")
       \/ /\ main' = "select" /\ serve' = "starting"
          /\ deadline' = now + ShutdownTimeout
          /\ UNCHANGED <<inShutdown, errCh, quit, bySignal, signalAt, world, errors, done>>

\* serve() returns err; ErrServerClosed is not sent, the channel is closed.
ServeReturns(isError) ==
    /\ serve' = "returned"
    /\ errCh' = IF isError THEN "error" ELSE "closed"
    /\ UNCHANGED <<main, inShutdown, stop, world, errors, done>>

\* serve() starts listening, unless the server has been shut down before.
ServeStarts ==
    /\ serve = "starting"
    /\ IF inShutdown THEN ServeReturns(FALSE)
       ELSE /\ serve' = "serving"
            /\ UNCHANGED <<main, inShutdown, errCh, stop, world, errors, done>>

\* serve() ends on its own: an error, or a custom serve function that just returns.
\* srv.Shutdown does not rule that out: only ErrServerClosed is kept out of errCh, so
\* a serve function may end with another error while main drains or awaits it.
ServeFails ==
    /\ ServeMayFail
    /\ serve \in {"starting", "serving"}
    /\ \E isError \in BOOLEAN : ServeReturns(isError)

ServeCloses ==
    /\ serve = "serving" /\ inShutdown
    /\ ServeReturns(FALSE)

SetConn(c, state) ==
    /\ conn' = [conn EXCEPT ![c] = state]
    /\ UNCHANGED <<main, now, transport, stop, errors, done>>

Accept(c) ==
    /\ serve = "serving" /\ ~inShutdown /\ conn[c] = "none"
    /\ SetConn(c, "active")

FinishConn(c) == conn[c] = "active" /\ SetConn(c, "finished")

\* App.Shutdown from another goroutine: nothing before the server is registered.
AppShutdown ==
    /\ main # "call" /\ main # "returned" /\ ~inShutdown
    /\ inShutdown' = TRUE
    /\ UNCHANGED <<main, serve, errCh, stop, world, errors, done>>

Signal ==
    /\ serve # "none" /\ main # "returned" /\ ~quit
    /\ quit' = TRUE /\ signalAt' = now
    /\ UNCHANGED <<main, bySignal, deadline, transport, world, errors, done>>

\* The select: a signal, or the end of the serve goroutine.
StopOnSignal ==
    /\ main = "select" /\ quit
    /\ main' = "hooks" /\ bySignal' = TRUE
    /\ UNCHANGED <<quit, signalAt, deadline, transport, world, errors, done>>

StopOnServe ==
    /\ main = "select" /\ errCh # "open"
    /\ main' = "hooks" /\ serveErr' = (errCh = "error") /\ errCh' = "closed"
    /\ UNCHANGED <<serve, inShutdown, stop, shutdownErr, world, done>>

\* The OnShutdown hooks of the registry, then the legacy ones; errors are logged.
Hooks ==
    /\ main = "hooks"
    /\ main' = "shutdown" /\ hookRuns' = hookRuns + 1
    /\ UNCHANGED <<result, cleanups, transport, stop, world, errors>>

\* srv.Shutdown(ctx) closes the listener ...
BeginShutdown ==
    /\ main = "shutdown"
    /\ main' = "draining" /\ inShutdown' = TRUE
    /\ UNCHANGED <<serve, errCh, stop, world, errors, done>>

\* ... and returns when no connection is active, or else when ctx has expired.
Drain ==
    /\ main = "draining"
    /\ Active = {} \/ now >= deadline
    /\ shutdownErr' = IF Active = {} THEN "nil" ELSE "deadline"
    /\ main' = IF bySignal THEN "await" ELSE "cleanup"
    /\ UNCHANGED <<serveErr, transport, stop, world, done>>

\* Mutant: main waits for the serve goroutine without a bound.
AwaitForever ==
    /\ main = "await" /\ errCh # "open"
    /\ main' = "cleanup"
    /\ serveErr' = (errCh = "error") /\ errCh' = "closed"
    /\ UNCHANGED <<serve, inShutdown, shutdownErr, stop, world, done>>

\* After a signal: wait for the serve goroutine, at most until ctx expires.
Await ==
    /\ main = "await"
    /\ main' = "cleanup"
    /\ \/ /\ errCh # "open"
          /\ serveErr' = (errCh = "error") /\ errCh' = "closed"
          /\ UNCHANGED shutdownErr
       \/ /\ now >= deadline
          /\ shutdownErr' = "deadline"
          /\ UNCHANGED <<serveErr, errCh>>
    /\ UNCHANGED <<serve, inShutdown, stop, world, done>>

\* Mutant: the error of srv.Shutdown is dropped.
CleanupSilent ==
    /\ main = "cleanup"
    /\ main' = "returned" /\ cleanups' = cleanups + 1
    /\ result' = IF serveErr THEN "serve" ELSE "nil"
    /\ UNCHANGED <<hookRuns, transport, stop, world, errors>>

\* cleanup(), then the error of serve, or else the one of the shutdown, is returned.
Cleanup ==
    /\ main = "cleanup"
    /\ main' = "returned" /\ cleanups' = cleanups + 1
    /\ result' = IF serveErr THEN "serve" ELSE shutdownErr
    /\ UNCHANGED <<hookRuns, transport, stop, world, errors>>

Tick ==
    /\ main # "returned"
    /\ now < MaxTime \/ now < deadline
    /\ now' = now + 1
    /\ UNCHANGED <<main, conn, transport, stop, errors, done>>

Main == Call \/ Startup \/ StopOnSignal \/ StopOnServe \/ Hooks \/ BeginShutdown
        \/ Drain \/ Await \/ Cleanup

Next ==
    \/ Main \/ ServeStarts \/ ServeFails \/ ServeCloses \/ AppShutdown \/ Signal \/ Tick
    \/ \E c \in Conn : Accept(c) \/ FinishConn(c)

Spec == Init /\ [][Next]_vars

\* The goroutines run and time passes.  Handlers need not return, and a custom
\* serve function may ignore srv.Shutdown.
FairSpec == Spec /\ WF_vars(Main) /\ WF_vars(ServeStarts) /\ WF_vars(Tick)

----------------------------------------------------------------------------
\* Whatever way ListenServer returns, cleanup has run exactly once, and the
\* OnShutdown hooks have run once if serving had started and not otherwise.
EveryExitCleansUp ==
    main = "returned" =>
        /\ cleanups = 1
        /\ hookRuns = IF result \in {"badArgument", "startup"} THEN 0 ELSE 1

\* A nil error of ListenServer means that every accepted request has finished,
\* that serve did not fail, and that no connection can be accepted any more.
NilMeansDrained ==
    result = "nil" => Active = {} /\ errCh # "error" /\ inShutdown /\ ~serveErr

\* Cleanup does not race with open connections, unless the shutdown timed out:
\* "cleanup runs AFTER the listener has fully drained".
CleanupAfterDrain ==
    cleanups = 1 /\ Active # {} => deadline <= now /\ shutdownErr = "deadline"

\* A signal ends ListenServer even if no handler ever returns and serve ignores
\* Shutdown: the wait is bounded by the shutdown context.
SignalEndsListen == quit ~> main = "returned"

\* "calls server.Shutdown bounded by ShutdownTimeout": requests that are still
\* running when cleanup runs after a signal have had that long to finish since the
\* signal arrived.  (The context is created when serving starts, so they have not.)
DrainGetsTimeout ==
    bySignal /\ cleanups = 1 /\ Active # {} => now - signalAt >= ShutdownTimeout
----------------------------------------------------------------------------
\* The inductive invariant.  Early and Over tell the two ways ListenServer returns apart.
Early == main = "returned" /\ result \in {"badArgument", "startup"}
Over == main = "returned" /\ result \in {"nil", "serve", "deadline"}

\* The clock and the shutdown context: Tick stops at MaxTime or, later, at the deadline.
ClockOK ==
    /\ now <= MaxTime \/ now <= deadline
    /\ main \in {"call", "startup"} => deadline = 0

\* Where main is tells how often the hooks and cleanup have run, and what it returned.
CountOK ==
    /\ cleanups = IF main = "returned" THEN 1 ELSE 0
    /\ hookRuns = IF Over \/ main \in {"shutdown", "draining", "await", "cleanup"}
                  THEN 1 ELSE 0
    /\ result = "none" <=> main # "returned"

\* The serve goroutine exists from Startup on, and closes or fills errCh when it ends.
ServeOK ==
    /\ main \in {"call", "startup"} \/ Early <=> serve = "none"
    /\ serve = "none" => \A c \in Conn : conn[c] = "none"
    /\ serve = "returned" <=> errCh # "open"

\* Once srv.Shutdown has been called no connection is accepted, and unless it timed out
\* none was left; main has heard from the serve goroutine, or from the deadline.
DrainOK ==
    /\ Over \/ main \in {"draining", "await", "cleanup"} => inShutdown
    /\ Over \/ main \in {"await", "cleanup"} =>
           \/ shutdownErr = "nil" /\ Active = {}
           \/ shutdownErr = "deadline" /\ deadline <= now
    /\ main \in {"hooks", "shutdown", "draining", "await", "cleanup"} /\ ~bySignal
           => errCh = "closed"
    /\ Over \/ main = "cleanup" => errCh = "closed" \/ shutdownErr = "deadline"
    /\ Over => result = IF serveErr THEN "serve" ELSE shutdownErr

IInv == TypeOK /\ ClockOK /\ CountOK /\ ServeOK /\ DrainOK
=============================================================================
