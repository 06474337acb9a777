-------------------------- MODULE RequestLifecycle --------------------------
(***************************************************************************)
(* App.ServeHTTP: a request takes a *Context from the pool, runs the       *)
(* OnRequest hooks, goes down the middleware chain on one of the dispatch  *)
(* paths, reaches a route handler (or the 404 handler, or a mounted        *)
(* http.Handler) and comes back up, runs the OnResponse and OnSend hooks   *)
(* and returns the *Context.  Middleware replace the *http.Request and the *)
(* http.ResponseWriter that the levels below them see, and contextFrom-    *)
(* Request has to find the *Context again from whatever request arrives.   *)
(*                                                                         *)
(* The kinds of middleware are those of the repository:                    *)
(*   value    c.SetContextValue, forwards c.RawRequest()   (requestid)     *)
(*   bind     c.BindRequest first; may reject the request  (bearer)        *)
(*   wrap     WrapMiddleware of a MiddlewareFunc that calls c.SetContext   *)
(*   log      a pooled StatusRecorder around w             (logger)        *)
(*   metrics  the same, and points c.res at it             (prometheus)    *)
(*   etag     a pooled captureWriter, flushed on return    (etag)          *)
(*   recover  Recovery                                                     *)
(*   plain    stdlib-only middleware that forwards w and r                 *)
(*   clone    stdlib-only middleware that forwards r.WithContext(...)      *)
(***************************************************************************)
EXTENDS Naturals, Sequences

CONSTANTS
    Request,   \* the requests, each with its client
    Ctx,       \* the *Context objects
    Wrapper,   \* the pooled response writers of middleware
    None,      \* no *Context, no wrapper
    App        \* the applications that are considered

NativeKind == {"value", "bind", "wrap", "log", "metrics", "etag", "recover"}
Kind == NativeKind \cup {"plain", "clone"}
Writing == {"log", "metrics", "etag"}
Phase == {"OnRequest", "OnResponse", "OnSend"}   \* OnRequest stands for PreRouting, too

ASSUME NoneAssumption == None \notin Ctx \cup Wrapper

\* An application: RequestContextBridge, RedirectTrailingSlash, the phases with
\* hooks, the global middleware, and its route with the middleware of its group
\* or of the route.
ASSUME AppAssumption ==
    \A a \in App : /\ a.bridge \in BOOLEAN /\ a.redirect \in BOOLEAN /\ a.hooks \subseteq Phase
                   /\ a.global \in Seq(Kind) /\ a.route \in Seq(Kind)
                   /\ a.group \in BOOLEAN /\ a.dynamic \in BOOLEAN

VARIABLES
    app,      \* the application
    pool,     \* a.ctxPool
    ctx,      \* each *Context: req, res and written
    reg,      \* requestContextRegistry: of each request, the pointers and their *Context
    reqs,     \* of each request, its *http.Request pointers in order of creation:
              \* the *Context in r.Context() and the middleware whose value it holds
    wr,       \* each pooled wrapper
    buf,      \* the bufferedResponseWriter of each request
    client,   \* what each client was sent
    g,        \* the goroutine that serves each request
    log       \* what is remembered of each request for the properties

vars == <<app, pool, ctx, reg, reqs, wr, buf, client, g, log>>

\* Writers are tagged: the client's, the buffer, a wrapper, or a nil writer.
Client(q) == <<"client", q>>
Buf(q) == <<"buf", q>>
Wrap(x) == <<"wrap", x>>
Nil == <<"nil", None>>
Writers == {Client(q) : q \in Request} \cup {Buf(q) : q \in Request}
           \cup {Wrap(x) : x \in Wrapper} \cup {Nil}

Status == {"none", "200", "301", "304", "404", "error"}
Token == Request \X {"data", "error"}   \* a body, and the request it was written for
Blank == [status |-> "none", body |-> <<>>]
Free == [kind |-> "new", busy |-> FALSE, sink |-> Nil, thru |-> {}, out |-> Blank]

Has(phase) == phase \in app.hooks
Base(q) == IF Has("OnSend") THEN Buf(q) ELSE Client(q)
Active(q) == g[q].pc \notin {"arrive", "done"}

Output == [status : Status, body : Seq(Token)]
Pointer == [by : Ctx \cup {None}, values : SUBSET Nat]
Frame == {f \in [kind : Kind, r : Nat, w : Writers, x : Wrapper \cup {None}, back : Writers] :
            f.kind \in Writing => f.x \in Wrapper}
Goroutine ==
    {v \in [pc : {"arrive", "hooks", "dispatch", "down", "up", "finish", "done"},
            c : Ctx \cup {None}, hit : {"route", "none", "mount"},
            way : {"none", "native", "stdlib", "marked", "mux"}, r : Nat, w : Writers,
            stack : Seq(Frame), out : {"ok", "err", "panic", "sendPanic"}] :
        v.out = "sendPanic" => v.pc = "done"}
Memory == [due : Output, exact : BOOLEAN, raw : BOOLEAN, values : SUBSET Nat, ran : BOOLEAN,
           lost : BOOLEAN, seen : SUBSET (Writing \X Status)]

TypeOK ==
    /\ app \in App /\ pool \subseteq Ctx
    /\ ctx \in [Ctx -> [req : Nat, res : Writers, written : BOOLEAN]]
    /\ reg \in [Request -> SUBSET (Nat \X Ctx)]
    /\ reqs \in [Request -> Seq(Pointer)]
    /\ wr \in [Wrapper -> [kind : Writing \cup {"new"}, busy : BOOLEAN, sink : Writers,
                          thru : SUBSET Wrapper, out : Output]]
    /\ buf \in [Request -> [bypassed : BOOLEAN, out : Output]]
    /\ client \in [Request -> Output]
    /\ g \in [Request -> Goroutine]
    /\ log \in [Request -> Memory]

Init ==
    /\ app \in App
    /\ pool = Ctx
    /\ ctx = [c \in Ctx |-> [req |-> 0, res |-> Nil, written |-> FALSE]]
    /\ reg = [q \in Request |-> {}]
    /\ reqs = [q \in Request |-> <<>>]
    /\ wr = [x \in Wrapper |-> Free]
    /\ buf = [q \in Request |-> [bypassed |-> FALSE, out |-> Blank]]
    /\ client = [q \in Request |-> Blank]
    /\ g = [q \in Request |-> [pc |-> "arrive", c |-> None, hit |-> "none", way |-> "none",
                               r |-> 0, w |-> Nil, stack |-> <<>>, out |-> "ok"]]
    /\ log = [q \in Request |-> [due |-> Blank, exact |-> TRUE, raw |-> FALSE, values |-> {},
                                 ran |-> FALSE, lost |-> FALSE, seen |-> {}]]

----------------------------------------------------------------------------
(* Responses.  A recorder passes on what is written and remembers the first *)
(* status; a capture keeps it; the buffer keeps it unless it is bypassed.   *)

Sink(w) == IF w[1] = "wrap" THEN wr[w[2]].sink ELSE w
Thru(w) == IF w[1] = "wrap" THEN wr[w[2]].thru ELSE {}

\* net/http, bufferedResponseWriter and StatusRecorder keep the first status.
Put(out, st, body) ==
    [status |-> IF out.status = "none" THEN st ELSE out.status, body |-> out.body \o body]

\* What StatusRecorder.Status, captureWriter and net/http say of an unset status.
Effective(st) == IF st = "none" THEN "200" ELSE st

\* WriteHeader(st) and Write(body) on w, when the wrappers are in state wrs.
Write(w, st, body, wrs) ==
    LET s == Sink(w) IN
    /\ wr' = [x \in Wrapper |->
                CASE s = Wrap(x) -> [wrs[x] EXCEPT !.out = [status |-> st, body |-> @.body \o body]]
                  [] x \in Thru(w) -> [wrs[x] EXCEPT !.out = Put(@, st, <<>>)]
                  [] OTHER -> wrs[x]]
    /\ buf' = [q \in Request |->
                IF s = Buf(q) /\ ~buf[q].bypassed
                THEN [buf[q] EXCEPT !.out = Put(@, st, body)] ELSE buf[q]]
    /\ client' = [q \in Request |->
                IF s = Client(q) \/ (s = Buf(q) /\ buf[q].bypassed)
                THEN Put(client[q], st, body) ELSE client[q]]

Silent(wrs) == wr' = wrs /\ UNCHANGED <<buf, client>>

\* Context.JSON on a *Context whose writer is res: refused once c.written is set.
JSON(q, res, st, what, wrs) ==
    IF ctx[g[q].c].written THEN Silent(wrs) ELSE Write(res, st, <<<<q, what>>>>, wrs)

SetReq(q, r) == ctx' = [ctx EXCEPT ![g[q].c].req = r]
Written(q, res) ==
    ctx' = [ctx EXCEPT ![g[q].c].res = res, ![g[q].c].written = TRUE]

Due(q, st, what) == log' = [log EXCEPT ![q].due = [status |-> st, body |-> <<<<q, what>>>>]]

\* handleError: the error handler answers through c.res.
HandleError(q, res, wrs) == JSON(q, res, "error", "error", wrs) /\ Written(q, res)

----------------------------------------------------------------------------
(* Requests.  WithContext copies a request: a new pointer that is not in    *)
(* the registry.                                                            *)

Chain(q) == IF g[q].hit = "route" THEN app.global \o app.route ELSE app.global
Depth(q) == Len(g[q].stack) + 1
At(q, kinds) == g[q].pc = "down" /\ Depth(q) <= Len(Chain(q)) /\ Chain(q)[Depth(q)] \in kinds
Bottom(q, hit) == g[q].pc = "down" /\ Depth(q) > Len(Chain(q)) /\ g[q].hit = hit

\* contextFromRequest: the value in r.Context(), or else the registry.
Found(q, r) == reqs[q][r].by # None \/ \E e \in reg[q] : e[1] = r

Known(q) == g[q].way = "native" \/ Found(q, g[q].r)

\* A copy of pointer r whose context holds by and the values vs.
Copy(q, r, by, vs) ==
    reqs' = [reqs EXCEPT ![q] = Append(@, [by |-> by, values |-> reqs[q][r].values \cup vs])]
Fresh(q) == Len(reqs[q]) + 1

Unregister(q, r) == [reg EXCEPT ![q] = {e \in @ : e[1] # r}]

----------------------------------------------------------------------------
(* ServeHTTP: from the arrival to the dispatch.                             *)

\* A *Context is taken from the pool and reset; OnSend hooks need the buffer.
Begin(q) ==
    /\ g[q].pc = "arrive"
    /\ \E c \in pool, hit \in {"route", "none", "mount"} :
        /\ pool' = pool \ {c}
        /\ ctx' = [ctx EXCEPT ![c] = [req |-> 1, res |-> Base(q), written |-> FALSE]]
        /\ g' = [g EXCEPT ![q].pc = "hooks",
                          ![q].c = c,
                          ![q].hit = hit,
                          ![q].r = 1,
                          ![q].w = Base(q)]
    /\ reqs' = [reqs EXCEPT ![q] = <<[by |-> None, values |-> {}]>>]
    /\ UNCHANGED <<app, reg, wr, buf, client, log>>

\* RedirectTrailingSlash answers before a *Context is taken: no hook sees it.
Redirect(q) ==
    /\ g[q].pc = "arrive" /\ app.redirect
    /\ client' = [client EXCEPT ![q] = Put(@, "301", <<>>)]
    /\ log' = [log EXCEPT ![q].due = [status |-> "301", body |-> <<>>]]
    /\ g' = [g EXCEPT ![q].pc = "done"]
    /\ UNCHANGED <<app, pool, ctx, reg, reqs, wr, buf>>

RunOnRequest(q) ==
    /\ g[q].pc = "hooks"
    /\ g' = [g EXCEPT ![q].pc = "dispatch"]
    /\ UNCHANGED <<app, pool, ctx, reg, reqs, wr, buf, client, log>>

\* An OnRequest hook returns an error: it is answered, and nothing else runs.
OnRequestFails(q) ==
    /\ g[q].pc = "hooks" /\ Has("OnRequest")
    /\ HandleError(q, ctx[g[q].c].res, wr)
    /\ Due(q, "error", "error")
    /\ g' = [g EXCEPT ![q].pc = "finish"]
    /\ UNCHANGED <<app, pool, reg, reqs>>

OnRequestPanics(q) ==
    /\ g[q].pc = "hooks" /\ Has("OnRequest")
    /\ g' = [g EXCEPT ![q].pc = "finish", ![q].out = "panic"]
    /\ UNCHANGED <<app, pool, ctx, reg, reqs, wr, buf, client, log>>

AllNative(slots) == \A i \in DOMAIN slots : slots[i] \in NativeKind

\* serveDirect is tried when there is neither global middleware nor such a hook.
Direct == app.global = <<>> /\ app.hooks = {}

\* Routes that buildRouteChainFast (or serveDirect) runs without a bridge.
NativeRoute ==
    IF app.group
    THEN AllNative(app.global) /\ AllNative(app.route)
    ELSE /\ app.route = <<>>
         /\ Direct \/ (app.global # <<>> /\ AllNative(app.global) /\ ~app.dynamic)

Way(q) ==
    CASE g[q].hit = "route" /\ NativeRoute -> "native"
      [] g[q].hit = "route" /\ ~NativeRoute /\ Direct -> IF app.dynamic THEN "mux" ELSE "marked"
      [] OTHER -> "stdlib"

\* Mutant: the bridge is never built; the registry has to do.
DispatchRegistered(q) ==
    /\ g[q].pc = "dispatch"
    /\ reg' = IF Way(q) = "native" THEN reg ELSE [reg EXCEPT ![q] = {<<1, g[q].c>>}]
    /\ g' = [g EXCEPT ![q].pc = "down", ![q].way = Way(q)]
    /\ UNCHANGED <<app, pool, ctx, reqs, wr, buf, client, log>>

\* The bridge: the request is copied with the *Context in its context, or its
\* pointer is registered.
Dispatch(q) ==
    LET way == Way(q)
        bridged == way = "marked" \/ (way = "stdlib" /\ app.bridge)
    IN
    /\ g[q].pc = "dispatch"
    /\ IF bridged
       THEN Copy(q, 1, g[q].c, {}) /\ SetReq(q, Fresh(q))
       ELSE UNCHANGED <<reqs, ctx>>
    /\ reg' = IF bridged \/ way = "native" THEN reg ELSE [reg EXCEPT ![q] = {<<1, g[q].c>>}]
    /\ g' = [g EXCEPT ![q].pc = "down",
                      ![q].way = way,
                      ![q].r = IF bridged THEN Fresh(q) ELSE 1]
    /\ UNCHANGED <<app, pool, wr, buf, client, log>>

----------------------------------------------------------------------------
(* Down the chain.  A frame keeps what the middleware received, the wrapper *)
(* it took and the writer that it puts back into c.res on its way out.      *)

Push(q, x, back) ==
    <<[kind |-> Chain(q)[Depth(q)], r |-> g[q].r, w |-> g[q].w, x |-> x, back |-> back]>>
        \o g[q].stack

EnterPlain(q) ==
    /\ At(q, {"plain", "recover", "clone"})
    /\ IF At(q, {"clone"})
       THEN /\ Copy(q, g[q].r, reqs[q][g[q].r].by, {Depth(q)})
            /\ g' = [g EXCEPT ![q].stack = Push(q, None, Nil), ![q].r = Fresh(q)]
       ELSE g' = [g EXCEPT ![q].stack = Push(q, None, Nil)] /\ UNCHANGED reqs
    /\ UNCHANGED <<app, pool, ctx, reg, wr, buf, client, log>>

\* Mutant: SetContext and BindRequest leave the old pointer in the registry.
EnterValueKeeping(q) ==
    /\ At(q, {"value", "bind", "wrap"}) /\ Known(q)
    /\ Copy(q, IF At(q, {"bind"}) THEN g[q].r ELSE ctx[g[q].c].req, g[q].c, {Depth(q)})
    /\ SetReq(q, Fresh(q))
    /\ g' = [g EXCEPT ![q].stack = Push(q, None, Nil),
                      ![q].r = IF At(q, {"wrap"}) /\ g[q].way # "native" THEN g[q].r ELSE Fresh(q)]
    /\ UNCHANGED <<app, pool, reg, wr, buf, client, log>>

\* Mutant: the middleware forwards the request that it received.
EnterValueForwarding(q) ==
    /\ At(q, {"value", "bind", "wrap"}) /\ Known(q)
    /\ Copy(q, IF At(q, {"bind"}) THEN g[q].r ELSE ctx[g[q].c].req, g[q].c, {Depth(q)})
    /\ SetReq(q, Fresh(q))
    /\ reg' = IF app.bridge THEN reg ELSE Unregister(q, ctx[g[q].c].req)
    /\ g' = [g EXCEPT ![q].stack = Push(q, None, Nil),
                      ![q].r = IF g[q].way # "native" THEN g[q].r ELSE Fresh(q)]
    /\ UNCHANGED <<app, pool, wr, buf, client, log>>

\* SetContext, SetContextValue and BindRequest: c.req becomes a copy that holds the
\* *Context, and the old pointer leaves the registry.  SetContextValue starts from
\* c.req, BindRequest from the request at hand.  WrapMiddleware forwards the request
\* that it received.
EnterValue(q) ==
    /\ At(q, {"value", "bind", "wrap"}) /\ Known(q)
    /\ Copy(q, IF At(q, {"bind"}) THEN g[q].r ELSE ctx[g[q].c].req, g[q].c, {Depth(q)})
    /\ SetReq(q, Fresh(q))
    /\ reg' = IF app.bridge THEN reg ELSE Unregister(q, ctx[g[q].c].req)
    /\ g' = [g EXCEPT ![q].stack = Push(q, None, Nil),
                      ![q].r = IF At(q, {"wrap"}) /\ g[q].way # "native" THEN g[q].r ELSE Fresh(q)]
    /\ UNCHANGED <<app, pool, wr, buf, client, log>>

\* Without a *Context they fall back to r.WithContext, WrapMiddleware to nothing.
EnterValueLost(q) ==
    /\ At(q, {"value", "bind", "wrap"}) /\ ~Known(q)
    /\ IF At(q, {"wrap"})
       THEN g' = [g EXCEPT ![q].stack = Push(q, None, Nil)] /\ UNCHANGED reqs
       ELSE /\ Copy(q, g[q].r, None, {Depth(q)})
            /\ g' = [g EXCEPT ![q].stack = Push(q, None, Nil), ![q].r = Fresh(q)]
    /\ UNCHANGED <<app, pool, ctx, reg, wr, buf, client, log>>

\* Bad credentials: native middleware return an error, stdlib middleware answer.
Reject(q) ==
    /\ At(q, {"bind"})
    /\ Due(q, "error", "error")
    /\ IF g[q].way = "native"
       THEN g' = [g EXCEPT ![q].pc = "up", ![q].out = "err"] /\ Silent(wr)
       ELSE g' = [g EXCEPT ![q].pc = "up"] /\ Write(g[q].w, "error", <<<<q, "error">>>>, wr)
    /\ UNCHANGED <<app, pool, ctx, reg, reqs>>

\* Who points c.res at the wrapper: every native middleware, and metrics.
Redirects(q) == g[q].way = "native" \/ (At(q, {"metrics"}) /\ Found(q, g[q].r))

Acquire(q, x) ==
    LET kind == Chain(q)[Depth(q)]
        capture == kind = "etag"
    IN
    /\ ~wr[x].busy /\ wr[x].kind \in {"new", kind}
    /\ wr' = [wr EXCEPT ![x] = [kind |-> kind, busy |-> TRUE, out |-> Blank,
                                sink |-> IF capture THEN Wrap(x) ELSE Sink(g[q].w),
                                thru |-> IF capture THEN {} ELSE {x} \cup Thru(g[q].w)]]

\* Mutant: metrics does not point c.res at its recorder.
EnterWriterBlind(q) ==
    /\ At(q, Writing)
    /\ \E x \in Wrapper :
        /\ Acquire(q, x)
        /\ ctx' = IF g[q].way = "native" THEN [ctx EXCEPT ![g[q].c].res = Wrap(x)] ELSE ctx
        /\ g' = [g EXCEPT ![q].stack = Push(q, x, IF g[q].way = "native"
                                                  THEN ctx[g[q].c].res ELSE Nil),
                          ![q].w = Wrap(x)]
    /\ UNCHANGED <<app, pool, reg, reqs, buf, client, log>>

EnterWriter(q) ==
    /\ At(q, Writing)
    /\ \E x \in Wrapper :
        /\ Acquire(q, x)
        /\ ctx' = IF Redirects(q) THEN [ctx EXCEPT ![g[q].c].res = Wrap(x)] ELSE ctx
        /\ g' = [g EXCEPT ![q].stack = Push(q, x, IF Redirects(q)
                                                  THEN ctx[g[q].c].res ELSE Nil),
                          ![q].w = Wrap(x)]
    /\ UNCHANGED <<app, pool, reg, reqs, buf, client, log>>

----------------------------------------------------------------------------
(* The bottom of the chain.                                                 *)

\* The route handler cannot find its *Context.
HandlerLost(q) ==
    /\ Bottom(q, "route") /\ ~Known(q)
    /\ Write(g[q].w, "error", <<>>, wr)
    /\ log' = [log EXCEPT ![q].lost = TRUE, ![q].due = [status |-> "error", body |-> <<>>]]
    /\ g' = [g EXCEPT ![q].pc = "up"]
    /\ UNCHANGED <<app, pool, ctx, reg, reqs>>

\* The handler runs with c.req and c.res set to what arrived.  log.exact is false
\* when the handler fails after it has begun a response: what is due is open then.
\* log.raw says that it had begun with c.Response(), which leaves c.written FALSE, as
\* the adapted http.Handlers do.
Ran(q, st, what, exact, raw) ==
    log' = [log EXCEPT ![q] = [@ EXCEPT !.ran = TRUE, !.values = reqs[q][g[q].r].values,
                                        !.exact = exact, !.raw = raw,
                                        !.due = [status |-> st, body |-> what]]]

Handled(q, written) ==
    ctx' = [ctx EXCEPT ![g[q].c] = [req |-> g[q].r, res |-> g[q].w, written |-> written]]

\* It answers (or leaves the 200 to net/http) and returns nil.
HandlerAnswers(q) ==
    /\ Bottom(q, "route") /\ Known(q)
    /\ \/ /\ Write(g[q].w, "200", <<<<q, "data">>>>, wr)
          /\ Ran(q, "200", <<<<q, "data">>>>, TRUE, FALSE)
          /\ \E helper \in BOOLEAN : Handled(q, helper)
       \/ Silent(wr) /\ Ran(q, "200", <<>>, TRUE, FALSE) /\ Handled(q, FALSE)
    /\ g' = [g EXCEPT ![q].pc = "up"]
    /\ UNCHANGED <<app, pool, reg, reqs>>

\* Bypass: what was buffered goes out first, and then what is streamed.
Bypassed(q, data) ==
    LET sent == IF buf[q].out.body = <<>> THEN client[q]
                ELSE Put(client[q], Effective(buf[q].out.status), buf[q].out.body)
    IN
    /\ buf' = [buf EXCEPT ![q] = [bypassed |-> TRUE, out |-> [@.out EXCEPT !.body = <<>>]]]
    /\ client' = [client EXCEPT ![q] = Put(sent, "200", data)]

\* Context.Stream and SSE: a buffer right under c.res is bypassed.
HandlerStreams(q) ==
    /\ Bottom(q, "route") /\ Known(q)
    /\ IF g[q].w = Buf(q)
       THEN Bypassed(q, <<<<q, "data">>>>) /\ UNCHANGED wr
       ELSE Write(g[q].w, "200", <<<<q, "data">>>>, wr)
    /\ Ran(q, "200", <<<<q, "data">>>>, TRUE, FALSE) /\ Handled(q, TRUE)
    /\ g' = [g EXCEPT ![q].pc = "up"]
    /\ UNCHANGED <<app, pool, reg, reqs>>

\* A PreHandler hook, the binder or the handler returns an error, possibly after
\* JSON has set c.written (and then failed to encode) or after a raw write.
HandlerFails(q) ==
    /\ Bottom(q, "route") /\ Known(q)
    /\ \/ /\ Silent(wr)
          /\ \E begun \in BOOLEAN :
                Ran(q, "error", <<<<q, "error">>>>, ~begun, FALSE) /\ Handled(q, begun)
       \/ /\ Write(g[q].w, "200", <<<<q, "data">>>>, wr)
          /\ Ran(q, "error", <<<<q, "error">>>>, FALSE, TRUE) /\ Handled(q, FALSE)
    /\ g' = [g EXCEPT ![q].pc = "up", ![q].out = "err"]
    /\ UNCHANGED <<app, pool, reg, reqs>>

\* It panics, before it has written anything or after it has begun a response.
HandlerPanics(q) ==
    /\ Bottom(q, "route") /\ Known(q)
    /\ \/ Silent(wr) /\ Ran(q, "none", <<>>, TRUE, FALSE) /\ Handled(q, FALSE)
       \/ /\ Write(g[q].w, "200", <<<<q, "data">>>>, wr)
          /\ \E helper \in BOOLEAN : Ran(q, "none", <<>>, FALSE, ~helper) /\ Handled(q, helper)
    /\ g' = [g EXCEPT ![q].pc = "up", ![q].out = "panic"]
    /\ UNCHANGED <<app, pool, reg, reqs>>

\* No route: the 404 (or 405) handler answers through c.res, which may not be the
\* writer that came down the chain; without a *Context, http.ServeMux answers.
AnswerNotFound(q, res) ==
    /\ IF Found(q, g[q].r)
       THEN JSON(q, res, "404", "error", wr) /\ Written(q, res)
       ELSE Write(g[q].w, "404", <<<<q, "error">>>>, wr) /\ UNCHANGED ctx
    /\ log' = [log EXCEPT ![q].lost = ~Found(q, g[q].r),
                          ![q].due = [status |-> "404", body |-> <<<<q, "error">>>>]]
    /\ g' = [g EXCEPT ![q].pc = "up"]

NotFound(q) ==
    /\ Bottom(q, "none")
    /\ AnswerNotFound(q, ctx[g[q].c].res)
    /\ UNCHANGED <<app, pool, reg, reqs>>

\* A mounted http.Handler writes to the probe.  Its copy of the request is registered
\* while it runs and unregistered by a deferred call.
MountAnswers(q) ==
    /\ Bottom(q, "mount")
    /\ Write(g[q].w, "200", <<<<q, "data">>>>, wr)
    /\ Due(q, "200", "data")
    /\ g' = [g EXCEPT ![q].pc = "up"]
    /\ UNCHANGED <<app, pool, ctx, reg, reqs>>

\* It writes nothing: the 404 handler, provided that the *Context is found.
MountSilent(q) ==
    /\ Bottom(q, "mount") /\ Found(q, g[q].r)
    /\ AnswerNotFound(q, ctx[g[q].c].res)
    /\ UNCHANGED <<app, pool, reg, reqs>>

MountSilentLost(q) ==
    /\ Bottom(q, "mount") /\ ~Found(q, g[q].r)
    /\ log' = [log EXCEPT ![q].lost = TRUE]
    /\ g' = [g EXCEPT ![q].pc = "up"]
    /\ UNCHANGED <<app, pool, ctx, reg, reqs, wr, buf, client>>

\* It panics, possibly after it has written to the probe, which c.written knows nothing of.
MountPanics(q) ==
    /\ Bottom(q, "mount")
    /\ \/ Silent(wr) /\ UNCHANGED log
       \/ /\ Write(g[q].w, "200", <<<<q, "data">>>>, wr)
          /\ log' = [log EXCEPT ![q].exact = FALSE, ![q].raw = TRUE]
    /\ g' = [g EXCEPT ![q].pc = "up", ![q].out = "panic"]
    /\ UNCHANGED <<app, pool, ctx, reg, reqs>>

----------------------------------------------------------------------------
(* Back up the chain: returns, errors of native middleware, and panics.     *)

Top(q) == Head(g[q].stack)

\* An error of a native chain is answered where the chain of the group or of the
\* application began; on the other paths by the handler that registration built.
AtErrorHandler(q) ==
    g[q].out = "err" /\ (g[q].way = "native" => Len(g[q].stack) \in {0, Len(app.global)})
Rising(q) == g[q].pc = "up" /\ g[q].stack # <<>> /\ ~AtErrorHandler(q)

Pop(q, out) ==
    g' = [g EXCEPT ![q].stack = Tail(@), ![q].r = Top(q).r, ![q].w = Top(q).w, ![q].out = out]

LeavePlain(q) ==
    /\ Rising(q)
    /\ Top(q).kind \notin Writing /\ (Top(q).kind = "recover" => g[q].out # "panic")
    /\ Pop(q, g[q].out)
    /\ UNCHANGED <<app, pool, ctx, reg, reqs, wr, buf, client, log>>

\* The deferred calls: the wrapper goes back to its pool, c.res to what it was.
Released(x) == [wr EXCEPT ![x] = [Free EXCEPT !.kind = wr[x].kind]]
Restore(q) ==
    ctx' = IF Top(q).back = Nil THEN ctx ELSE [ctx EXCEPT ![g[q].c].res = Top(q).back]

\* Access log and metrics read the recorder when next has returned, and not after
\* a panic.
Observes(q, kind, status) ==
    log' = IF g[q].out = "panic" THEN log
           ELSE [log EXCEPT ![q].seen = @ \cup {<<kind, status>>}]

LeaveRecorder(q) ==
    /\ Rising(q) /\ Top(q).kind \in {"log", "metrics"}
    /\ Observes(q, Top(q).kind, Effective(wr[Top(q).x].out.status))
    /\ Silent(Released(Top(q).x)) /\ Restore(q)
    /\ Pop(q, g[q].out)
    /\ UNCHANGED <<app, pool, reg, reqs>>

\* The captured response is sent on, or a 304 in the place of a 200 with a body.
LeaveCapture(q) ==
    LET x == Top(q).x
        st == Effective(wr[x].out.status)
        body == wr[x].out.body
    IN
    /\ Rising(q) /\ Top(q).kind = "etag" /\ g[q].out = "ok"
    /\ \/ Write(Top(q).w, st, body, Released(x))
       \/ st = "200" /\ body # <<>> /\ Write(Top(q).w, "304", <<>>, Released(x))
    /\ Restore(q)
    /\ Pop(q, g[q].out)
    /\ UNCHANGED <<app, pool, reg, reqs, log>>

\* What was captured is dropped with a panic, and with the error of native middleware.
DropCapture(q) ==
    /\ Rising(q) /\ Top(q).kind = "etag" /\ g[q].out # "ok"
    /\ Silent(Released(Top(q).x)) /\ Restore(q)
    /\ Pop(q, g[q].out)
    /\ UNCHANGED <<app, pool, reg, reqs, log>>

\* Mutant: Recovery answers through whatever c.res is.
RecoverThroughRes(q) ==
    /\ Rising(q) /\ Top(q).kind = "recover" /\ g[q].out = "panic"
    /\ IF g[q].way = "native" \/ Found(q, Top(q).r)
       THEN HandleError(q, ctx[g[q].c].res, wr) /\ Due(q, "error", "error")
       ELSE /\ Write(Top(q).w, "error", <<>>, wr) /\ UNCHANGED ctx
            /\ log' = [log EXCEPT ![q].due = [status |-> "error", body |-> <<>>]]
    /\ Pop(q, "ok")
    /\ UNCHANGED <<app, pool, reg, reqs>>

\* Recovery: the stdlib one answers through the writer that it received, provided
\* that its request still leads to the *Context.
Recover(q) ==
    /\ Rising(q) /\ Top(q).kind = "recover" /\ g[q].out = "panic"
    /\ IF g[q].way = "native" \/ Found(q, Top(q).r)
       THEN /\ HandleError(q, IF g[q].way = "native" THEN ctx[g[q].c].res ELSE Top(q).w, wr)
            /\ Due(q, "error", "error")
       ELSE /\ Write(Top(q).w, "error", <<>>, wr) /\ UNCHANGED ctx
            /\ log' = [log EXCEPT ![q].due = [status |-> "error", body |-> <<>>]]
    /\ Pop(q, "ok")
    /\ UNCHANGED <<app, pool, reg, reqs>>

\* The error is answered, unless c.written is set.
AnswerError(q) ==
    /\ g[q].pc = "up" /\ AtErrorHandler(q)
    /\ HandleError(q, ctx[g[q].c].res, wr)
    /\ g' = [g EXCEPT ![q].out = "ok"]
    /\ UNCHANGED <<app, pool, reg, reqs, log>>

----------------------------------------------------------------------------
(* ServeHTTP: after the chain.                                              *)

\* The OnResponse hooks run unless there was a panic; their errors are ignored.
Return(q) ==
    /\ g[q].pc = "up" /\ g[q].stack = <<>> /\ g[q].out # "err"
    /\ \/ g' = [g EXCEPT ![q].pc = "finish"]
       \/ Has("OnResponse") /\ g' = [g EXCEPT ![q].pc = "finish", ![q].out = "panic"]
    /\ UNCHANGED <<app, pool, ctx, reg, reqs, wr, buf, client, log>>

\* flush: the buffered response goes out, unless the buffer was bypassed.
Flushed(q) ==
    IF buf[q].bypassed THEN client
    ELSE [client EXCEPT ![q] = Put(@, Effective(buf[q].out.status), buf[q].out.body)]

\* The deferred function of ServeHTTP: OnSend hooks, flush, registry, pool.  The
\* direct path puts the *Context back only when the handler returns.
Finish(q) ==
    /\ g[q].pc = "finish"
    /\ client' = IF Has("OnSend") THEN Flushed(q) ELSE client
    /\ reg' = CASE g[q].way = "mux" -> Unregister(q, 1)
                [] g[q].way = "stdlib" /\ ~app.bridge -> Unregister(q, ctx[g[q].c].req)
                [] OTHER -> reg
    /\ pool' = IF Direct /\ g[q].way # "stdlib" /\ g[q].out = "panic"
               THEN pool ELSE pool \cup {g[q].c}
    /\ g' = [g EXCEPT ![q].pc = "done"]
    /\ UNCHANGED <<app, ctx, reqs, wr, buf, log>>

\* An OnSend hook panics: the rest of the deferred function is skipped.
SendPanics(q) ==
    /\ g[q].pc = "finish" /\ Has("OnSend")
    /\ g' = [g EXCEPT ![q].pc = "done", ![q].out = "sendPanic"]
    /\ UNCHANGED <<app, pool, ctx, reg, reqs, wr, buf, client, log>>

Next ==
    \E q \in Request :
        \/ Begin(q) \/ Redirect(q)
        \/ RunOnRequest(q) \/ OnRequestFails(q) \/ OnRequestPanics(q)
        \/ Dispatch(q)
        \/ EnterPlain(q) \/ EnterValue(q) \/ EnterValueLost(q) \/ Reject(q) \/ EnterWriter(q)
        \/ HandlerLost(q) \/ HandlerAnswers(q) \/ HandlerStreams(q) \/ HandlerFails(q)
        \/ HandlerPanics(q)
        \/ NotFound(q) \/ MountAnswers(q) \/ MountSilent(q) \/ MountSilentLost(q)
        \/ MountPanics(q)
        \/ LeavePlain(q) \/ LeaveRecorder(q) \/ LeaveCapture(q) \/ DropCapture(q)
        \/ Recover(q) \/ AnswerError(q)
        \/ Return(q) \/ Finish(q) \/ SendPanics(q)

Spec == Init /\ [][Next]_vars

----------------------------------------------------------------------------
(* Properties.                                                              *)

\* The registry holds no entry for a request that was answered (unless an OnSend
\* hook panicked), and its entries lead to the *Context of their own request, under
\* the pointer that the end of ServeHTTP deletes.
RegistryExact ==
    \A q \in Request : \A e \in reg[q] :
        /\ Active(q) \/ g[q].out = "sendPanic"
        /\ e[2] = g[q].c
        /\ e[1] = ctx[g[q].c].req \/ g[q].way = "mux"

\* The documentation of RequestContextBridge: with the bridge, no middleware can hide the
\* *Context from the route and 404 handlers.  The code does not keep this in front of a
\* dynamic route that serveDirect gives to the mux, which registers the request instead.
BridgeKeepsContext == \A q \in Request : log[q].lost => ~app.bridge

\* What the code keeps of BridgeKeepsContext: with the bridge the *Context is lost only
\* on that path; and with or without it, only where a middleware forwards another request.
ContextKept ==
    \A q \in Request : log[q].lost =>
        /\ app.bridge => g[q].way = "mux"
        /\ \E i \in DOMAIN Chain(q) : Chain(q)[i] \in {"clone", "wrap"}

\* A handler that runs sees the context values of the middleware before it: those
\* of requestid and of the authentication plugins always, those of a stdlib
\* middleware unless a SetContextValue after it went back to c.req.  (The guide to
\* middleware says that a stdlib r.WithContext is invisible through c.Context(); the
\* handler of every route sets c.req to the request that reaches it.)
ValuesReachHandler ==
    \A q \in Request : log[q].ran =>
        \A i \in DOMAIN Chain(q) :
            \/ Chain(q)[i] \in {"value", "bind"}
            \/ Chain(q)[i] = "wrap" /\ g[q].way = "native"
            \/ Chain(q)[i] = "clone" /\ \A j \in i .. Len(Chain(q)) : Chain(q)[j] # "value"
            => i \in log[q].values

\* The response of q has not begun before the OnSend hooks, unless the handler streams.
OnSendFirst(q) ==
    Has("OnSend") /\ client[q].status # "none" => buf[q].bypassed \/ g[q].pc = "done"

\* A client gets nothing of another request's response, and with OnSend hooks nothing
\* at all before they have run.  Unless the handler began a response without c.written
\* and then failed, it gets at most one body, and when the request was served the one
\* response that is due: the one of its handler, of the error handler, of the 404
\* handler or of Recovery, through all wrappers.  OneBody shows what happens otherwise.
ResponseFaithful ==
    \A q \in Request :
        /\ OnSendFirst(q)
        /\ \A i \in DOMAIN client[q].body : client[q].body[i][1] = q
        /\ ~log[q].raw => Len(client[q].body) <= 1
        /\ g[q].pc = "done" /\ g[q].out = "ok" /\ log[q].exact =>
            LET got == [client[q] EXCEPT !.status = Effective(@)]
                due == [log[q].due EXCEPT !.status = Effective(@)]
            IN \/ got = due
               \/ /\ \E i \in DOMAIN Chain(q) : Chain(q)[i] = "etag"
                  /\ due.status = "200" /\ got = [status |-> "304", body |-> <<>>]

\* No client ever gets two bodies.  The code does not keep this: a mounted or adapted
\* http.Handler that panics after a write, or a handler that returns an error after a
\* write to c.Response(), finds c.written FALSE, and the error is appended.
OneBody == \A q \in Request : Len(client[q].body) <= 1

Inside(q, kind, outer) ==
    \E i, j \in DOMAIN Chain(q) : i < j /\ Chain(q)[i] = outer /\ Chain(q)[j] = kind

Observed(q, kind) ==
    g[q].pc = "done" /\ g[q].out = "ok" /\ ~Inside(q, kind, "etag") =>
        \A s \in log[q].seen : s[1] = kind => s[2] = Effective(client[q].status)

\* On the stdlib paths the status that the metrics count is the one that the client
\* gets, 404 and recovered panics included.
MetricsTrue == \A q \in Request : g[q].way # "native" => Observed(q, "metrics")

\* Access log and metrics report the final status of the response on every path.
StatusObserved == \A q \in Request : Observed(q, "log") /\ Observed(q, "metrics")

----------------------------------------------------------------------------
(* The parts of the inductive invariant behind the proofs.                  *)

\* A request has its *Context to itself from the pool until it is put back; when an
\* OnSend hook panics, it never is.
Owns(q) == Active(q) \/ g[q].out = "sendPanic"
Ownership ==
    /\ \A q \in Request : Owns(q) => g[q].c \in Ctx \ pool
    /\ \A p, q \in Request : Owns(p) /\ Owns(q) /\ p # q => g[p].c # g[q].c

\* Nothing has happened before the dispatch, and c.req is the request that came in;
\* down the chain, both requests at hand exist.
StageOK(q) ==
    /\ g[q].pc \in {"arrive", "hooks", "dispatch"} =>
         /\ reg[q] = {} /\ g[q].stack = <<>> /\ g[q].way = "none"
         /\ ~log[q].lost /\ ~log[q].ran
    /\ g[q].pc \in {"hooks", "dispatch"} =>
         /\ reqs[q] = <<[by |-> None, values |-> {}]>>
         /\ g[q].r = 1 /\ ctx[g[q].c].req = 1
    /\ g[q].pc = "down" =>
         /\ g[q].r \in DOMAIN reqs[q] /\ ctx[g[q].c].req \in DOMAIN reqs[q]
         /\ g[q].way # "none" /\ Len(g[q].stack) <= Len(Chain(q))
         /\ g[q].hit # "route" => g[q].way = "stdlib"

\* The pointer that came in is the only one that is ever registered, and except on
\* the mux only until c.req is replaced.
RegOK(q) ==
    /\ \A e \in reg[q] : e[1] = 1 /\ e[2] = g[q].c
    /\ reg[q] # {} =>
         /\ Owns(q)
         /\ \/ g[q].way = "mux"
            \/ /\ g[q].way = "stdlib" /\ ~app.bridge /\ ctx[g[q].c].req = 1
               /\ \A r \in DOMAIN reqs[q] : reqs[q][r].by = None

\* Down the chain the request at hand leads to the *Context, always behind the bridge
\* and elsewhere until a middleware forwards another request.
Bridged(q) == g[q].way = "marked" \/ (g[q].way = "stdlib" /\ app.bridge)
FoundOK(q) ==
    g[q].pc = "down" =>
        /\ Bridged(q) => reqs[q][g[q].r].by # None
        /\ \/ Known(q)
           \/ \E i \in 1 .. Len(g[q].stack) : Chain(q)[i] \in {"clone", "wrap"}

\* Down the chain, the values that the middleware so far have set are in the request at
\* hand and, as long as the *Context can be found, in c.req.
Sets(q, i) == Chain(q)[i] \in {"value", "bind"} \/ (Chain(q)[i] = "wrap" /\ g[q].way = "native")
ValuesOK(q) ==
    g[q].pc = "down" =>
        /\ \A i \in 1 .. Len(g[q].stack) :
             \/ Sets(q, i)
             \/ /\ Chain(q)[i] = "clone"
                /\ \A j \in i .. Len(g[q].stack) : Chain(q)[j] # "value"
             => i \in reqs[q][g[q].r].values
        /\ Known(q) => \A i \in 1 .. Len(g[q].stack) :
                         Sets(q, i) => i \in reqs[q][ctx[g[q].c].req].values
        /\ g[q].way = "native" => AllNative(Chain(q))

\* ContextKept and ValuesReachHandler of one request.
MayLose(q) ==
    /\ app.bridge => g[q].way = "mux"
    /\ \E i \in DOMAIN Chain(q) : Chain(q)[i] \in {"clone", "wrap"}
Reached(q, values) ==
    \A i \in DOMAIN Chain(q) :
        \/ Sets(q, i)
        \/ Chain(q)[i] = "clone" /\ \A j \in i .. Len(Chain(q)) : Chain(q)[j] # "value"
        => i \in values
LogOK(q) == (log[q].lost => MayLose(q)) /\ (log[q].ran => Reached(q, log[q].values))

RequestOK(q) ==
    StageOK(q) /\ RegOK(q) /\ FoundOK(q) /\ ValuesOK(q) /\ LogOK(q)

IInv == TypeOK /\ Ownership /\ \A q \in Request : RequestOK(q)
=============================================================================
