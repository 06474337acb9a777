------------------------- MODULE TimeoutMiddleware -------------------------
(***************************************************************************)
(* plugins/timeout.New inside App.ServeHTTP: the goroutine that serves a   *)
(* request waits for a handler goroutine or for the deadline, whichever    *)
(* the select takes.  The two share a pooled timeoutWriter and the pooled  *)
(* *Context, which App.ServeHTTP puts back when the serving goroutine      *)
(* returns.  What runs below the middleware writes to the writer it is     *)
(* given or through the *Context.  A route handler binds c.res to the      *)
(* given writer first; New itself does not, so what answers through the    *)
(* *Context before that (a middleware below, the 404 and 405 handlers)     *)
(* writes to the client's own writer.  A sync.Pool is external: Get        *)
(* returns any object that was put, or a fresh one.                        *)
(***************************************************************************)
CONSTANTS
    Request,     \* the requests, each with its client and its ResponseWriter
    Writer,      \* the timeoutWriter objects
    Ctx,         \* the *Context objects
    NoRequest    \* a nil ResponseWriter

ASSUME TimeoutAssumption ==
    /\ NoRequest \notin Request
    /\ Request # {} /\ Writer # {} /\ Ctx # {}
    /\ Writer \cap Request = {}

VARIABLES
    main,      \* the goroutine that serves the request
    handler,   \* the goroutine that runs the handler
    expired,   \* ctx.Done() is closed: the deadline, or the client went away
    crashed,   \* the handler panicked
    panicCh,   \* the recovered value waits in panicCh
    done,      \* done is closed
    outcome,   \* how the middleware returned
    tw,        \* each timeoutWriter: the writer under it, timedOut and written
    freeTw,    \* timeoutWriterPool
    twOf,      \* the timeoutWriter of each request
    res,       \* c.res of each *Context
    freeCtx,   \* a.ctxPool
    ctxOf,     \* the *Context of each request
    sent       \* what the client of each request was sent

goroutines == <<main, handler, expired, crashed, panicCh, done, outcome>>
writers == <<tw, freeTw, twOf>>
contexts == <<res, freeCtx, ctxOf>>
vars == <<goroutines, writers, contexts, sent>>

TypeOK ==
    /\ main \in [Request -> {"out", "acquire", "select", "answer", "return", "gone"}]
    /\ handler \in [Request -> {"none", "bind", "run", "recover", "release", "close", "gone"}]
    /\ {expired, crashed, panicCh, done} \subseteq [Request -> BOOLEAN]
    /\ outcome \in [Request -> {"none", "normal", "panic", "timeout"}]
    /\ tw \in [Writer -> [of : Request \cup {NoRequest}, timedOut : BOOLEAN,
                          written : BOOLEAN]]
    /\ \A t \in Writer : t \in freeTw <=> tw[t].of = NoRequest
    /\ freeTw \subseteq Writer /\ twOf \in [Request -> Writer]
    /\ res \in [Ctx -> Request \cup Writer]
    /\ freeCtx \subseteq Ctx /\ ctxOf \in [Request -> Ctx]
    /\ sent \in [Request -> SUBSET {"own", "late", "unguarded", "foreign", "504"}]

Init ==
    /\ main = [r \in Request |-> "out"]
    /\ handler = [r \in Request |-> "none"]
    /\ expired = [r \in Request |-> FALSE] /\ crashed = [r \in Request |-> FALSE]
    /\ panicCh = [r \in Request |-> FALSE] /\ done = [r \in Request |-> FALSE]
    /\ outcome = [r \in Request |-> "none"]
    /\ tw = [t \in Writer |-> [of |-> NoRequest, timedOut |-> FALSE, written |-> FALSE]]
    /\ freeTw = Writer /\ twOf \in [Request -> {CHOOSE t \in Writer : TRUE}]
    /\ res \in [Ctx -> {CHOOSE r \in Request : TRUE}]
    /\ freeCtx = Ctx /\ ctxOf \in [Request -> {CHOOSE c \in Ctx : TRUE}]
    /\ sent = [r \in Request |-> {}]

----------------------------------------------------------------------------
(* The serving goroutine.                                                  *)

\* App.ServeHTTP takes a *Context from the pool and resets it.
Arrive(r) ==
    /\ main[r] = "out"
    /\ \E c \in freeCtx :
         /\ freeCtx' = freeCtx \ {c}
         /\ ctxOf' = [ctxOf EXCEPT ![r] = c]
         /\ res' = [res EXCEPT ![c] = r]
    /\ main' = [main EXCEPT ![r] = "acquire"]
    /\ UNCHANGED <<handler, expired, crashed, panicCh, done, outcome, writers, sent>>

\* acquireTimeoutWriter, and the handler goroutine is launched.
Launch(r) ==
    /\ main[r] = "acquire"
    /\ \E t \in freeTw :
         /\ freeTw' = freeTw \ {t}
         /\ twOf' = [twOf EXCEPT ![r] = t]
         /\ tw' = [tw EXCEPT ![t] = [of |-> r, timedOut |-> FALSE, written |-> FALSE]]
    /\ main' = [main EXCEPT ![r] = "select"]
    /\ handler' = [handler EXCEPT ![r] = "bind"]
    /\ UNCHANGED <<expired, crashed, panicCh, done, outcome, contexts, sent>>

Expire(r) ==
    /\ main[r] \in {"acquire", "select"} /\ ~expired[r]
    /\ expired' = [expired EXCEPT ![r] = TRUE]
    /\ UNCHANGED <<main, handler, crashed, panicCh, done, outcome, writers, contexts, sent>>

\* The select takes done: a panic of the handler is raised again.
TakeDone(r) ==
    /\ main[r] = "select" /\ done[r]
    /\ main' = [main EXCEPT ![r] = "return"]
    /\ outcome' = [outcome EXCEPT ![r] = IF panicCh[r] THEN "panic" ELSE "normal"]
    /\ panicCh' = [panicCh EXCEPT ![r] = FALSE]
    /\ UNCHANGED <<handler, expired, crashed, done, writers, contexts, sent>>

\* Mutants: the flag of the writer is not set; the handler is awaited all the same; the
\* writer goes back to the pool here as well.
TakeDeadlineUnmarked(r) ==
    /\ main[r] = "select" /\ expired[r]
    /\ main' = [main EXCEPT ![r] = IF tw[twOf[r]].written THEN "return" ELSE "answer"]
    /\ outcome' = [outcome EXCEPT ![r] = "timeout"]
    /\ UNCHANGED <<handler, expired, crashed, panicCh, done, writers, contexts, sent>>

TakeDeadlinePatient(r) ==
    /\ main[r] = "select" /\ expired[r] /\ done[r]
    /\ main' = [main EXCEPT ![r] = "answer"]
    /\ outcome' = [outcome EXCEPT ![r] = "timeout"]
    /\ UNCHANGED <<handler, expired, crashed, panicCh, done, writers, contexts, sent>>

TakeDeadlineReleasing(r) ==
    /\ main[r] = "select" /\ expired[r]
    /\ tw' = [tw EXCEPT ![twOf[r]].timedOut = TRUE]
    /\ freeTw' = freeTw \cup {twOf[r]}
    /\ main' = [main EXCEPT ![r] = IF tw[twOf[r]].written THEN "return" ELSE "answer"]
    /\ outcome' = [outcome EXCEPT ![r] = "timeout"]
    /\ UNCHANGED <<handler, expired, crashed, panicCh, done, twOf, contexts, sent>>

\* The select takes ctx.Done(): under the mutex of the writer timedOut is set and
\* written is read, whoever has the writer by now.
TakeDeadline(r) ==
    /\ main[r] = "select" /\ expired[r]
    /\ tw' = [tw EXCEPT ![twOf[r]].timedOut = TRUE]
    /\ main' = [main EXCEPT ![r] = IF tw[twOf[r]].written THEN "return" ELSE "answer"]
    /\ outcome' = [outcome EXCEPT ![r] = "timeout"]
    /\ UNCHANGED <<handler, expired, crashed, panicCh, done, freeTw, twOf, contexts, sent>>

\* The 504 is written to the client.
Answer504(r) ==
    /\ main[r] = "answer"
    /\ sent' = [sent EXCEPT ![r] = @ \cup {"504"}]
    /\ main' = [main EXCEPT ![r] = "return"]
    /\ UNCHANGED <<handler, expired, crashed, panicCh, done, outcome, writers,
                   contexts>>

\* The deferred function of App.ServeHTTP puts the *Context back.
Return(r) ==
    /\ main[r] = "return"
    /\ freeCtx' = freeCtx \cup {ctxOf[r]}
    /\ main' = [main EXCEPT ![r] = "gone"]
    /\ UNCHANGED <<handler, expired, crashed, panicCh, done, outcome, res, ctxOf, writers,
                   sent>>

----------------------------------------------------------------------------
(* The handler goroutine.                                                  *)

\* A route is found: its handler binds the *Context to the writer it is given.
Bind(r) ==
    /\ handler[r] = "bind"
    /\ handler' = [handler EXCEPT ![r] = "run"]
    /\ res' = [res EXCEPT ![ctxOf[r]] = twOf[r]]
    /\ UNCHANGED <<main, expired, crashed, panicCh, done, outcome, freeCtx, ctxOf, writers,
                   sent>>

\* Bytes written below the middleware for r reach the client of q: another client, its
\* own while the select is undecided, or, after that, its own around the timeoutWriter
\* (direct) before a route handler has bound the *Context, or else past a guard.
Deliver(r, q, direct) ==
    LET label == IF q # r THEN "foreign"
                 ELSE IF outcome[r] = "none" THEN "own"
                 ELSE IF direct /\ handler[r] = "bind" THEN "unguarded" ELSE "late" IN
    sent' = [sent EXCEPT ![q] = @ \cup {label}]

\* timeoutWriter.WriteHeader and Write, under the mutex.
WriteTo(t, r) ==
    IF tw[t].timedOut
    THEN UNCHANGED <<tw, sent>>
    ELSE tw' = [tw EXCEPT ![t].written = TRUE] /\ Deliver(r, tw[t].of, FALSE)

\* What writes below the middleware does so to the writer it is given, or to c.res as it
\* is now: the client's writer until a route handler has bound it.
Write(r) ==
    /\ handler[r] \in {"bind", "run"}
    /\ \E target \in {twOf[r], res[ctxOf[r]]} :
         IF target \in Writer
         THEN tw[target].of # NoRequest /\ WriteTo(target, r)
         ELSE Deliver(r, target, TRUE) /\ UNCHANGED tw
    /\ UNCHANGED <<goroutines, freeTw, twOf, contexts>>

\* The handler returns, or it panics: on its own account, or because the writer it
\* reaches has been released.  No route handler need have run.
Leave(r) ==
    /\ handler[r] \in {"bind", "run"}
    /\ \/ /\ handler' = [handler EXCEPT ![r] = "release"]
          /\ UNCHANGED crashed
       \/ /\ handler' = [handler EXCEPT ![r] = "recover"]
          /\ crashed' = [crashed EXCEPT ![r] = TRUE]
    /\ UNCHANGED <<main, expired, panicCh, done, outcome, writers, contexts, sent>>

\* Mutant: done is closed before the panic is passed on.
RecoverLate(r) ==
    /\ handler[r] = "recover"
    /\ handler' = [handler EXCEPT ![r] = IF done[r] THEN "release" ELSE "recover"]
    /\ panicCh' = [panicCh EXCEPT ![r] = done[r]]
    /\ done' = [done EXCEPT ![r] = TRUE]
    /\ UNCHANGED <<main, expired, crashed, outcome, writers, contexts, sent>>

\* The deferred function: recover and pass the panic on,
Recover(r) ==
    /\ handler[r] = "recover"
    /\ panicCh' = [panicCh EXCEPT ![r] = TRUE]
    /\ handler' = [handler EXCEPT ![r] = "release"]
    /\ UNCHANGED <<main, expired, crashed, done, outcome, writers, contexts, sent>>

\* releaseTimeoutWriter: reset and put,
ReleaseWriter(r) ==
    /\ handler[r] = "release"
    /\ tw' = [tw EXCEPT ![twOf[r]] = [of |-> NoRequest, timedOut |-> FALSE,
                                      written |-> FALSE]]
    /\ freeTw' = freeTw \cup {twOf[r]}
    /\ handler' = [handler EXCEPT ![r] = "close"]
    /\ UNCHANGED <<main, expired, crashed, panicCh, done, outcome, twOf, contexts, sent>>

\* close(done).
CloseDone(r) ==
    /\ handler[r] = "close"
    /\ done' = [done EXCEPT ![r] = TRUE]
    /\ handler' = [handler EXCEPT ![r] = "gone"]
    /\ UNCHANGED <<main, expired, crashed, panicCh, outcome, writers, contexts, sent>>

Serve(r) == Launch(r) \/ TakeDone(r) \/ TakeDeadline(r) \/ Answer504(r) \/ Return(r)
Handle(r) == Bind(r) \/ Write(r) \/ Leave(r) \/ Recover(r) \/ ReleaseWriter(r) \/ CloseDone(r)
Next == \E r \in Request : Arrive(r) \/ Expire(r) \/ Serve(r) \/ Handle(r)

Spec == Init /\ [][Next]_vars

\* The serving goroutine runs and the deadline passes; the handler may hang.
FairSpec == Spec /\ \A r \in Request : WF_vars(Serve(r)) /\ WF_vars(Expire(r))

----------------------------------------------------------------------------
\* Once the deadline has been taken, nothing of the request reaches its own client
\* through the timeoutWriter or through the *Context of a route handler; in particular
\* the client's writer is not used after App.ServeHTTP has returned, which net/http
\* forbids.  Answers through a *Context that no route handler has bound are not
\* guarded at all: see LateAnswersBlocked.
NoWriteAfterReturn == \A r \in Request : "late" \notin sent[r]

\* A panic of the handler surfaces in the serving goroutine, where Recovery is,
\* unless the deadline was taken first.
PanicSurfaces ==
    \A r \in Request : crashed[r] /\ outcome[r] # "none" => outcome[r] \in {"panic", "timeout"}

\* A pooled writer belongs to one handler goroutine at a time.
WriterExclusive ==
    \A r \in Request : handler[r] \in {"bind", "run", "recover", "release"} =>
        /\ twOf[r] \notin freeTw
        /\ tw[twOf[r]].of = r

\* A request is answered when its deadline passes, although its handler never returns.
DeadlineEnforced == \A r \in Request : main[r] = "select" ~> main[r] = "gone"

\* timeout.New "blocks late writes": no client gets bytes of a handler that serves
\* another request.
LateWritesBlocked == \A r \in Request : "foreign" \notin sent[r]

\* "blocks late writes", of what answers through the *Context below timeout.New without
\* a route handler: the 404 and 405 handlers, a middleware.  Not so: c.res is still the
\* client's writer there, and New does not redirect it.
LateAnswersBlocked == \A r \in Request : "unguarded" \notin sent[r]

\* A client gets an answer from below the middleware or the 504, not the one after the
\* other.  Not so: the deferred function resets written before it closes done, so that a
\* deadline that is taken after it finds nothing written; nor does an unguarded answer
\* set written.
OneAnswer == \A r \in Request : ~({"own", "504"} \subseteq sent[r])
----------------------------------------------------------------------------
\* The inductive invariant.
Using(r) == handler[r] \in {"bind", "run", "recover", "release"}

\* The two goroutines of a request: what each has done tells where the other may be.
FlowOK ==
    \A r \in Request :
        /\ main[r] \in {"out", "acquire"} => handler[r] = "none"
        /\ main[r] \in {"out", "acquire", "select"} => outcome[r] = "none"
        /\ done[r] => handler[r] = "gone"
        /\ outcome[r] \in {"normal", "panic"} => handler[r] = "gone"

\* A panic waits in panicCh before done is closed, and TakeDone looks there.
PanicOK ==
    \A r \in Request :
        /\ crashed[r] => handler[r] \in {"recover", "release", "close", "gone"}
        /\ crashed[r] /\ handler[r] # "recover" /\ outcome[r] = "none" => panicCh[r]
        /\ outcome[r] = "normal" => ~crashed[r]

\* A writer that is out of the pool is the one of a request whose handler goroutine has
\* not released it, and no other request has it.
PoolOK ==
    /\ \A r \in Request : Using(r) => tw[twOf[r]].of = r
    /\ \A t \in Writer : tw[t].of # NoRequest => twOf[tw[t].of] = t /\ Using(tw[t].of)

\* What keeps a late route handler off its client: its writer was marked while it had it,
\* and its *Context no longer leads to the client directly.
LateOK ==
    \A r \in Request :
        /\ outcome[r] = "timeout" /\ Using(r) => tw[twOf[r]].timedOut
        /\ handler[r] = "run" => res[ctxOf[r]] # r
        /\ main[r] = "gone" => outcome[r] # "none"
        /\ main[r] \in {"answer", "return"} => outcome[r] # "none"

IInv == TypeOK /\ FlowOK /\ PanicOK /\ PoolOK /\ LateOK /\ NoWriteAfterReturn
=============================================================================
