----------------------- MODULE RequestLifecycleProofs -----------------------
(***************************************************************************)
(* Proofs about App.ServeHTTP, for any number of concurrent requests,      *)
(* *Context objects and pooled writers, and for every application: any     *)
(* middleware in any order, any hooks, with and without the bridge.        *)
(***************************************************************************)
EXTENDS RequestLifecycle, SequenceTheorems, TLAPS

WrapperState == [kind : Writing \cup {"new"}, busy : BOOLEAN, sink : Writers,
                 thru : SUBSET Wrapper, out : Output]

ResponseType ==
    /\ wr \in [Wrapper -> WrapperState]
    /\ buf \in [Request -> [bypassed : BOOLEAN, out : Output]]
    /\ client \in [Request -> Output]

\* An empty body and the body of one response are bodies.
LEMMA BodyType ==
  ASSUME NEW q \in Request, NEW what \in {"data", "error"}
  PROVE  <<<<q, what>>>> \in Seq(Token) /\ <<>> \in Seq(Token)
  <1>1. <<q, what>> \in Token
    BY DEF Token
  <1> QED
    BY <1>1

\* Put keeps outputs well formed.
LEMMA PutType ==
  ASSUME NEW out \in Output, NEW st \in Status, NEW body \in Seq(Token)
  PROVE  Put(out, st, body) \in Output /\ out.body \o body \in Seq(Token)
  <1>1. out.body \in Seq(Token) /\ out.status \in Status
    BY DEF Output
  <1>2. out.body \o body \in Seq(Token)
    BY <1>1
  <1> QED
    BY <1>1, <1>2 DEF Put, Output

\* The writer below a writer, and the recorders on the way, are what they seem.
LEMMA SinkType ==
  ASSUME TypeOK, NEW w \in Writers
  PROVE  Sink(w) \in Writers /\ Thru(w) \subseteq Wrapper
  <1>1. CASE w[1] = "wrap"
    <2>1. w[2] \in Wrapper
      BY <1>1 DEF Writers, Client, Buf, Wrap, Nil
    <2> QED
      BY <1>1, <2>1 DEF Sink, Thru, TypeOK
  <1>2. CASE w[1] # "wrap"
    BY <1>2 DEF Sink, Thru
  <1> QED
    BY <1>1, <1>2

\* Writing keeps wrappers, buffers and responses well formed.
LEMMA WriteType ==
  ASSUME TypeOK, NEW w \in Writers, NEW st \in Status, NEW body \in Seq(Token),
         NEW wrs \in [Wrapper -> WrapperState], Write(w, st, body, wrs)
  PROVE  ResponseType'
  <1> DEFINE s == Sink(w)
  <1>1. /\ wr' = [x \in Wrapper |->
                CASE s = Wrap(x) -> [wrs[x] EXCEPT !.out = [status |-> st, body |-> @.body \o body]]
                  [] x \in Thru(w) -> [wrs[x] EXCEPT !.out = Put(@, st, <<>>)]
                  [] OTHER -> wrs[x]]
        /\ buf' = [q \in Request |->
                IF s = Buf(q) /\ ~buf[q].bypassed
                THEN [buf[q] EXCEPT !.out = Put(@, st, body)] ELSE buf[q]]
        /\ client' = [q \in Request |->
                IF s = Client(q) \/ (s = Buf(q) /\ buf[q].bypassed)
                THEN Put(client[q], st, body) ELSE client[q]]
    BY DEF Write
  <1> HIDE DEF s
  <1>2. ASSUME NEW x \in Wrapper
        PROVE  /\ [wrs[x] EXCEPT !.out = [status |-> st, body |-> wrs[x].out.body \o body]]
                    \in WrapperState
               /\ [wrs[x] EXCEPT !.out = Put(wrs[x].out, st, <<>>)] \in WrapperState
    <2>1. wrs[x] \in WrapperState /\ wrs[x].out \in Output
      BY DEF WrapperState
    <2>2. /\ Put(wrs[x].out, st, <<>>) \in Output
          /\ wrs[x].out.body \o body \in Seq(Token)
      <3>1. <<>> \in Seq(Token)
        OBVIOUS
      <3> QED
        BY <2>1, <3>1, PutType
    <2>3. [status |-> st, body |-> wrs[x].out.body \o body] \in Output
      BY <2>2 DEF Output
    <2> QED
      BY <2>1, <2>2, <2>3 DEF WrapperState
  <1>3. wr' \in [Wrapper -> WrapperState]
    BY <1>1, <1>2
  <1>4. ASSUME NEW q \in Request
        PROVE  /\ [buf[q] EXCEPT !.out = Put(buf[q].out, st, body)]
                    \in [bypassed : BOOLEAN, out : Output]
               /\ Put(client[q], st, body) \in Output
    BY PutType DEF TypeOK
  <1>5. buf' \in [Request -> [bypassed : BOOLEAN, out : Output]]
    BY <1>1, <1>4 DEF TypeOK
  <1>6. client' \in [Request -> Output]
    BY <1>1, <1>4 DEF TypeOK
  <1> QED
    BY <1>3, <1>5, <1>6 DEF ResponseType

\* So does doing nothing.
LEMMA SilentType ==
  ASSUME TypeOK, NEW wrs \in [Wrapper -> WrapperState], Silent(wrs)
  PROVE  ResponseType'
  BY DEF Silent, ResponseType, TypeOK

----------------------------------------------------------------------------
(* One request at a time.                                                   *)

CtxState == [req : Nat, res : Writers, written : BOOLEAN]

\* The goroutine of q is now v, and nobody else's has changed.
Moves(q, v) == v \in Goroutine /\ g' = [g EXCEPT ![q] = v]

\* What the log remembers of q is now m.
Recalls(q, m) == m \in Memory /\ log' = [log EXCEPT ![q] = m]

\* Only the *Context c has changed, and it is one.
Touches(c) == ctx' \in [Ctx -> CtxState] /\ \A d \in Ctx \ {c} : ctx'[d] = ctx[d]

LEMMA MoveFacts ==
  ASSUME TypeOK, NEW q \in Request, NEW v, Moves(q, v)
  PROVE  /\ g' \in [Request -> Goroutine] /\ g'[q] = v
         /\ \A p \in Request \ {q} : g'[p] = g[p]
  BY DEF TypeOK, Moves

LEMMA RecallFacts ==
  ASSUME TypeOK, NEW q \in Request, NEW m, Recalls(q, m)
  PROVE  /\ log' \in [Request -> Memory] /\ log'[q] = m
         /\ \A p \in Request \ {q} : log'[p] = log[p]
  BY DEF TypeOK, Recalls

\* The middleware chain of a request is a sequence of kinds.
LEMMA ChainType ==
  ASSUME TypeOK, NEW q \in Request
  PROVE  /\ Chain(q) \in Seq(Kind) /\ app.global \in Seq(Kind) /\ app.route \in Seq(Kind)
         /\ Len(Chain(q)) \in Nat /\ DOMAIN Chain(q) = 1 .. Len(Chain(q))
  <1>1. app.global \in Seq(Kind) /\ app.route \in Seq(Kind)
    BY AppAssumption DEF TypeOK
  <1>2. Chain(q) \in Seq(Kind)
    BY <1>1 DEF Chain
  <1> QED
    BY <1>1, <1>2

\* The part of the invariant about p does not change with a step of another request
\* that leaves the *Context of p alone.
LEMMA OthersStay ==
  ASSUME IInv, NEW p \in Request, UNCHANGED app, g'[p] = g[p], reqs'[p] = reqs[p],
         reg'[p] = reg[p], log'[p] = log[p], Owns(p) => ctx'[g[p].c] = ctx[g[p].c]
  PROVE  RequestOK(p)'
  <1>1. RequestOK(p)
    BY DEF IInv
  <1>2. Chain(p)' = Chain(p)
    BY DEF Chain
  <1>3. Known(p)' = Known(p)
    BY DEF Known, Found
  <1>4. \A i : Sets(p, i)' = Sets(p, i)
    BY <1>2 DEF Sets
  <1>5. StageOK(p)'
    BY <1>1, <1>2 DEF RequestOK, StageOK, Owns, Active
  <1>6. RegOK(p)'
    BY <1>1 DEF RequestOK, RegOK, Owns, Active
  <1>7. FoundOK(p)'
    BY <1>1, <1>2, <1>3 DEF RequestOK, FoundOK, Bridged
  <1>8. ValuesOK(p)'
    BY <1>1, <1>2, <1>3, <1>4 DEF RequestOK, ValuesOK, Owns, Active, AllNative
  <1>9. LogOK(p)'
    BY <1>1, <1>2, <1>4 DEF RequestOK, LogOK, MayLose, Reached
  <1> QED
    BY <1>5, <1>6, <1>7, <1>8, <1>9 DEF RequestOK

\* A step of a request on its own *Context.
LEMMA OwnStep ==
  ASSUME IInv, NEW q \in Request, Owns(q), NEW v, Moves(q, v), v.c = g[q].c,
         NEW m, Recalls(q, m), Touches(g[q].c), ResponseType', UNCHANGED <<app, pool>>,
         reg' \in [Request -> SUBSET (Nat \X Ctx)], reqs' \in [Request -> Seq(Pointer)],
         \A p \in Request \ {q} : reg'[p] = reg[p] /\ reqs'[p] = reqs[p],
         RequestOK(q)'
  PROVE  IInv'
  <1>1. /\ g' \in [Request -> Goroutine] /\ g'[q] = v
        /\ \A p \in Request \ {q} : g'[p] = g[p]
    BY MoveFacts DEF IInv
  <1>2. /\ log' \in [Request -> Memory] /\ \A p \in Request \ {q} : log'[p] = log[p]
    BY RecallFacts DEF IInv
  <1>3. TypeOK'
    BY <1>1, <1>2 DEF TypeOK, IInv, ResponseType, WrapperState, Touches, CtxState
  <1>4. \A p \in Request : (Owns(p)' => Owns(p)) /\ g'[p].c = g[p].c
    BY <1>1 DEF Owns, Active
  <1>5. Ownership'
    BY <1>4 DEF IInv, Ownership
  <1>6. ASSUME NEW p \in Request \ {q} PROVE RequestOK(p)'
    <2>1. Owns(p) => ctx'[g[p].c] = ctx[g[p].c]
      BY DEF IInv, Ownership, Touches
    <2> QED
      BY <1>1, <1>2, <2>1, OthersStay
  <1> QED
    BY <1>3, <1>5, <1>6 DEF IInv

\* A step after which the request is on its way out: the registry must be in order,
\* and what the log remembers must be true.
LEMMA LateStep ==
  ASSUME IInv, NEW q \in Request, Active(q), NEW v, Moves(q, v), v.pc \in {"up", "finish"},
         v.c = g[q].c, v.way = g[q].way, v.hit = g[q].hit,
         NEW m, Recalls(q, m), m.lost => MayLose(q), m.ran => Reached(q, m.values),
         Touches(g[q].c), ResponseType', UNCHANGED <<app, pool, reg, reqs>>,
         \/ ctx'[g[q].c].req = ctx[g[q].c].req
         \/ g[q].pc = "down" /\ Known(q) /\ ctx'[g[q].c].req = g[q].r
  PROVE  IInv'
  <1>1. TypeOK /\ RequestOK(q)
    BY DEF IInv
  <1>2. g'[q] = v /\ log'[q] = m
    BY <1>1, MoveFacts, RecallFacts
  <1>3. Chain(q)' = Chain(q) /\ Owns(q)'
    BY <1>2 DEF Chain, Owns, Active
  <1>4. \A i : Sets(q, i)' = Sets(q, i)
    BY <1>2, <1>3 DEF Sets
  <1>5. StageOK(q)' /\ FoundOK(q)' /\ ValuesOK(q)'
    BY <1>2 DEF StageOK, FoundOK, ValuesOK
  <1>6. LogOK(q)'
    BY <1>2, <1>3, <1>4 DEF LogOK, MayLose, Reached
  <1>7. RegOK(q)'
    <2>1. CASE ctx'[g[q].c].req = ctx[g[q].c].req
      BY <1>1, <1>2, <1>3, <2>1 DEF RequestOK, RegOK
    <2>2. CASE g[q].pc = "down" /\ Known(q) /\ ctx'[g[q].c].req = g[q].r
      <3>1. CASE reg[q] # {} /\ g[q].way = "stdlib"
        <4>1. g[q].r \in DOMAIN reqs[q] /\ reqs[q][g[q].r].by = None
          BY <1>1, <2>2, <3>1 DEF RequestOK, StageOK, RegOK
        <4>2. g[q].r = 1
          BY <1>1, <2>2, <3>1, <4>1 DEF RequestOK, RegOK, Known, Found
        <4> QED
          BY <1>1, <1>2, <1>3, <2>2, <4>2 DEF RequestOK, RegOK
      <3>2. CASE ~(reg[q] # {} /\ g[q].way = "stdlib")
        BY <1>1, <1>2, <1>3, <3>2 DEF RequestOK, RegOK
      <3> QED
        BY <3>1, <3>2
    <2> QED
      BY <2>1, <2>2
  <1>8. RequestOK(q)'
    BY <1>5, <1>6, <1>7 DEF RequestOK
  <1> QED
    BY <1>1, <1>8, OwnStep DEF Owns, TypeOK

----------------------------------------------------------------------------
(* What the steps are made of.                                              *)

\* A request that is being served has a *Context.
LEMMA OwnCtx ==
  ASSUME IInv, NEW q \in Request, Active(q)
  PROVE  /\ TypeOK /\ RequestOK(q) /\ Owns(q) /\ g[q].c \in Ctx
         /\ g[q] \in Goroutine /\ log[q] \in Memory /\ ctx[g[q].c] \in CtxState
         /\ ctx[g[q].c].res \in Writers /\ g[q].w \in Writers
         /\ g[q].out \in {"ok", "err", "panic"}
  <1>1. TypeOK /\ RequestOK(q) /\ Owns(q) /\ g[q].c \in Ctx
    BY DEF IInv, Ownership, Owns
  <1>2. g[q] \in Goroutine /\ log[q] \in Memory /\ ctx[g[q].c] \in CtxState
    BY <1>1 DEF TypeOK, CtxState
  <1>3. g[q].out \in {"ok", "err", "panic"}
    BY <1>2 DEF Goroutine, Active
  <1> QED
    BY <1>1, <1>2, <1>3 DEF Goroutine, CtxState

\* The request turns around or changes its outcome.
Turned(q, ph, o) ==
    \/ g' = [g EXCEPT ![q].pc = ph, ![q].out = o]
    \/ g' = [g EXCEPT ![q].pc = ph] /\ o = g[q].out
    \/ g' = [g EXCEPT ![q].out = o] /\ ph = g[q].pc

LEMMA Turns ==
  ASSUME TypeOK, NEW q \in Request, NEW ph \in {"up", "finish"},
         NEW o \in {"ok", "err", "panic"}, Turned(q, ph, o)
  PROVE  \E v : /\ Moves(q, v) /\ v.pc = ph /\ v.c = g[q].c
                /\ v.way = g[q].way /\ v.hit = g[q].hit
  <1> DEFINE v == [g[q] EXCEPT !.pc = ph, !.out = o]
  <1>1. g[q] \in Goroutine
    BY DEF TypeOK
  <1>2. v \in Goroutine
    BY <1>1 DEF Goroutine
  <1>3. v.pc = ph /\ v.c = g[q].c /\ v.way = g[q].way /\ v.hit = g[q].hit
    BY <1>1 DEF Goroutine
  <1>4. g' = [g EXCEPT ![q] = v]
    <2>1. CASE g' = [g EXCEPT ![q].pc = ph, ![q].out = o]
      BY <2>1 DEF TypeOK
    <2>2. CASE g' = [g EXCEPT ![q].pc = ph] /\ o = g[q].out
      <3>1. v = [g[q] EXCEPT !.pc = ph]
        BY <1>1, <2>2 DEF Goroutine
      <3> QED
        BY <2>2, <3>1 DEF TypeOK
    <2>3. CASE g' = [g EXCEPT ![q].out = o] /\ ph = g[q].pc
      <3>1. v = [g[q] EXCEPT !.out = o]
        BY <1>1, <2>3 DEF Goroutine
      <3> QED
        BY <2>3, <3>1 DEF TypeOK
    <2> QED
      BY <2>1, <2>2, <2>3 DEF Turned
  <1>5. Moves(q, v)
    BY <1>2, <1>4 DEF Moves
  <1> HIDE DEF v
  <1> QED
    BY <1>3, <1>5

\* The log stays, learns what is due, or learns that the *Context was lost.
LEMMA LogStays ==
  ASSUME IInv, NEW q \in Request, UNCHANGED log
  PROVE  /\ Recalls(q, log[q])
         /\ log[q].lost => MayLose(q)
         /\ log[q].ran => Reached(q, log[q].values)
  BY DEF IInv, TypeOK, RequestOK, LogOK, Recalls

LEMMA LogLearns ==
  ASSUME IInv, NEW q \in Request, NEW d \in Output, NEW l \in BOOLEAN,
         \/ log' = [log EXCEPT ![q].lost = l, ![q].due = d]
         \/ log' = [log EXCEPT ![q].due = d] /\ l = log[q].lost
         \/ log' = [log EXCEPT ![q].lost = l] /\ d = log[q].due,
         l => log[q].lost \/ MayLose(q)
  PROVE  LET m == [log[q] EXCEPT !.lost = l, !.due = d] IN
         /\ Recalls(q, m)
         /\ m.lost => MayLose(q)
         /\ m.ran => Reached(q, m.values)
  <1> DEFINE m == [log[q] EXCEPT !.lost = l, !.due = d]
  <1>1. log[q] \in Memory
    BY DEF IInv, TypeOK
  <1>2. m \in Memory /\ m.lost = l /\ m.ran = log[q].ran /\ m.values = log[q].values
    BY <1>1 DEF Memory
  <1>3. log' = [log EXCEPT ![q] = m]
    <2>1. CASE log' = [log EXCEPT ![q].lost = l, ![q].due = d]
      BY <2>1 DEF IInv, TypeOK
    <2>2. CASE log' = [log EXCEPT ![q].due = d] /\ l = log[q].lost
      <3>1. m = [log[q] EXCEPT !.due = d]
        BY <1>1, <2>2 DEF Memory
      <3> QED
        BY <2>2, <3>1 DEF IInv, TypeOK
    <2>3. CASE log' = [log EXCEPT ![q].lost = l] /\ d = log[q].due
      <3>1. m = [log[q] EXCEPT !.lost = l]
        BY <1>1, <2>3 DEF Memory
      <3> QED
        BY <2>3, <3>1 DEF IInv, TypeOK
    <2> QED
      BY <2>1, <2>2, <2>3
  <1>4. (log[q].lost => MayLose(q)) /\ (log[q].ran => Reached(q, log[q].values))
    BY DEF IInv, RequestOK, LogOK
  <1> HIDE DEF m
  <1>5. (m.lost => MayLose(q)) /\ (m.ran => Reached(q, m.values))
    BY <1>2, <1>4
  <1> QED
    BY <1>2, <1>3, <1>5 DEF Recalls, m

\* A response of a status and at most one body.
LEMMA DueType ==
  ASSUME NEW q \in Request, NEW st \in Status, NEW what \in {"data", "error"}
  PROVE  /\ [status |-> st, body |-> <<<<q, what>>>>] \in Output
         /\ [status |-> st, body |-> <<>>] \in Output
  BY BodyType DEF Output

\* The *Context stays, its c.res is redirected, or the response is marked written.
CtxKept(q) == Touches(g[q].c) /\ ctx'[g[q].c].req = ctx[g[q].c].req

LEMMA CtxStays ==
  ASSUME TypeOK, NEW q \in Request, UNCHANGED ctx PROVE CtxKept(q)
  BY DEF CtxKept, Touches, TypeOK, CtxState

LEMMA CtxWritten ==
  ASSUME TypeOK, NEW q \in Request, g[q].c \in Ctx, NEW res \in Writers, Written(q, res)
  PROVE  CtxKept(q)
  <1>1. ctx[g[q].c] \in CtxState
    BY DEF TypeOK, CtxState
  <1>2. [ctx[g[q].c] EXCEPT !.res = res, !.written = TRUE] \in CtxState
    BY <1>1 DEF CtxState
  <1>3. ctx' = [ctx EXCEPT ![g[q].c] = [ctx[g[q].c] EXCEPT !.res = res, !.written = TRUE]]
    BY DEF Written, TypeOK
  <1>4. ctx' \in [Ctx -> CtxState]
    BY <1>2, <1>3 DEF TypeOK, CtxState
  <1> QED
    BY <1>1, <1>3, <1>4 DEF CtxKept, Touches, TypeOK, CtxState

LEMMA CtxRedirected ==
  ASSUME TypeOK, NEW q \in Request, g[q].c \in Ctx, NEW res \in Writers,
         ctx' = [ctx EXCEPT ![g[q].c].res = res]
  PROVE  CtxKept(q)
  <1>1. ctx[g[q].c] \in CtxState
    BY DEF TypeOK, CtxState
  <1>2. [ctx[g[q].c] EXCEPT !.res = res] \in CtxState
    BY <1>1 DEF CtxState
  <1>3. ctx' = [ctx EXCEPT ![g[q].c] = [ctx[g[q].c] EXCEPT !.res = res]]
    BY DEF TypeOK
  <1>4. ctx' \in [Ctx -> CtxState]
    BY <1>2, <1>3 DEF TypeOK, CtxState
  <1> QED
    BY <1>1, <1>3, <1>4 DEF CtxKept, Touches, TypeOK, CtxState

\* Context.JSON and the error handler.
LEMMA JSONType ==
  ASSUME TypeOK, NEW q \in Request, NEW res \in Writers, NEW st \in Status,
         NEW what \in {"data", "error"}, JSON(q, res, st, what, wr)
  PROVE  ResponseType'
  <1>1. wr \in [Wrapper -> WrapperState]
    BY DEF TypeOK, WrapperState
  <1>2. CASE Silent(wr)
    BY <1>1, <1>2, SilentType
  <1>3. CASE Write(res, st, <<<<q, what>>>>, wr)
    BY <1>1, <1>3, WriteType, BodyType
  <1> QED
    BY <1>2, <1>3 DEF JSON

LEMMA ErrorAnswered ==
  ASSUME TypeOK, NEW q \in Request, g[q].c \in Ctx, NEW res \in Writers,
         HandleError(q, res, wr)
  PROVE  ResponseType' /\ CtxKept(q)
  BY JSONType, CtxWritten DEF HandleError, Status

\* At the bottom of the chain every middleware has been passed: the *Context is missing
\* only where it may be, and the request at hand has the values.
LEMMA AtBottom ==
  ASSUME IInv, NEW q \in Request, NEW hit, Bottom(q, hit)
  PROVE  /\ Active(q) /\ g[q].pc = "down"
         /\ ~Known(q) => MayLose(q)
         /\ g[q].hit # "route" => (Known(q) <=> Found(q, g[q].r))
         /\ Reached(q, reqs[q][g[q].r].values)
  <1>1. g[q].pc = "down" /\ Active(q) /\ Depth(q) > Len(Chain(q))
    BY DEF Bottom, Active
  <1>2. TypeOK /\ StageOK(q) /\ FoundOK(q) /\ ValuesOK(q)
    BY DEF IInv, RequestOK
  <1>3. Len(g[q].stack) \in Nat /\ g[q].way \in {"none", "native", "stdlib", "marked", "mux"}
    BY <1>2 DEF TypeOK, Goroutine
  <1>4. Len(Chain(q)) \in Nat /\ DOMAIN Chain(q) = 1 .. Len(Chain(q))
    BY <1>2, ChainType
  <1>5. Len(g[q].stack) = Len(Chain(q))
    BY <1>1, <1>2, <1>3, <1>4 DEF StageOK, Depth
  <1>6. ASSUME ~Known(q) PROVE MayLose(q)
    <2>1. ~Bridged(q) /\ g[q].way # "native" /\ g[q].way # "none"
      BY <1>1, <1>2, <1>6 DEF FoundOK, Known, Found, StageOK
    <2>2. app.bridge => g[q].way = "mux"
      BY <1>3, <2>1 DEF Bridged
    <2>3. \E i \in DOMAIN Chain(q) : Chain(q)[i] \in {"clone", "wrap"}
      BY <1>1, <1>2, <1>4, <1>5, <1>6 DEF FoundOK
    <2> QED
      BY <2>2, <2>3 DEF MayLose
  <1>7. g[q].hit # "route" => (Known(q) <=> Found(q, g[q].r))
    BY <1>1, <1>2 DEF StageOK, Known
  <1>8. Reached(q, reqs[q][g[q].r].values)
    BY <1>1, <1>2, <1>4, <1>5 DEF ValuesOK, Reached
  <1> QED
    BY <1>1, <1>6, <1>7, <1>8

----------------------------------------------------------------------------
(* The hooks before the dispatch, rejection and the bottom of the chain.    *)

\* A failing OnRequest hook.
LEMMA HooksFail ==
  ASSUME IInv, NEW q \in Request, OnRequestFails(q) \/ OnRequestPanics(q)
  PROVE  IInv'
  <1>1. Active(q) /\ UNCHANGED <<app, pool, reg, reqs>>
    BY DEF OnRequestFails, OnRequestPanics, Active
  <1>2. /\ TypeOK /\ g[q].c \in Ctx /\ ctx[g[q].c].res \in Writers /\ log[q] \in Memory
        /\ g[q] \in Goroutine
    BY <1>1, OwnCtx
  <1>3. CASE OnRequestFails(q)
    <2>1. ResponseType' /\ CtxKept(q)
      BY <1>2, <1>3, ErrorAnswered DEF OnRequestFails
    <2>2. PICK m : Recalls(q, m) /\ (m.lost => MayLose(q)) /\ (m.ran => Reached(q, m.values))
      <3>1. [status |-> "error", body |-> <<<<q, "error">>>>] \in Output
        BY DueType DEF Status
      <3>2. log[q].lost \in BOOLEAN
        BY <1>2 DEF Memory
      <3>3. log' = [log EXCEPT ![q].due = [status |-> "error", body |-> <<<<q, "error">>>>]]
        BY <1>3 DEF OnRequestFails, Due
      <3> QED
        BY <3>1, <3>2, <3>3, LogLearns
    <2>3. PICK v : /\ Moves(q, v) /\ v.pc = "finish" /\ v.c = g[q].c
                   /\ v.way = g[q].way /\ v.hit = g[q].hit
      <3>1. g[q].out \in {"ok", "err", "panic"}
        BY <1>1, OwnCtx
      <3>2. Turned(q, "finish", g[q].out)
        BY <1>3 DEF OnRequestFails, Turned
      <3> QED
        BY <1>2, <3>1, <3>2, Turns
    <2> QED
      BY <1>1, <2>1, <2>2, <2>3, LateStep DEF CtxKept
  <1>4. CASE OnRequestPanics(q)
    <2>1. ResponseType'
      BY <1>2, <1>4 DEF OnRequestPanics, ResponseType, TypeOK, WrapperState
    <2>2. CtxKept(q)
      BY <1>2, <1>4, CtxStays DEF OnRequestPanics
    <2>3. Recalls(q, log[q]) /\ (log[q].lost => MayLose(q))
          /\ (log[q].ran => Reached(q, log[q].values))
      BY <1>4, LogStays DEF OnRequestPanics
    <2>4. PICK v : /\ Moves(q, v) /\ v.pc = "finish" /\ v.c = g[q].c
                   /\ v.way = g[q].way /\ v.hit = g[q].hit
      <3>1. Turned(q, "finish", "panic")
        BY <1>4 DEF OnRequestPanics, Turned
      <3> QED
        BY <1>2, <3>1, Turns
    <2> QED
      BY <1>1, <2>1, <2>2, <2>3, <2>4, LateStep DEF CtxKept
  <1> QED
    BY <1>3, <1>4

\* The request turns back with a response that was written through g.w, or with none.
LEMMA TurnBack ==
  ASSUME IInv, NEW q \in Request, g[q].pc = "down", NEW o \in {"ok", "err", "panic"},
         \/ g' = [g EXCEPT ![q].pc = "up", ![q].out = o]
         \/ g' = [g EXCEPT ![q].pc = "up"],
         NEW m, Recalls(q, m), m.lost => MayLose(q), m.ran => Reached(q, m.values),
         ResponseType', Touches(g[q].c),
         \/ ctx'[g[q].c].req = ctx[g[q].c].req
         \/ Known(q) /\ ctx'[g[q].c].req = g[q].r,
         UNCHANGED <<app, pool, reg, reqs>>
  PROVE  IInv'
  <1>1. Active(q)
    BY DEF Active
  <1>2. TypeOK /\ g[q].out \in {"ok", "err", "panic"}
    BY <1>1, OwnCtx
  <1>3. PICK v : /\ Moves(q, v) /\ v.pc = "up" /\ v.c = g[q].c
                 /\ v.way = g[q].way /\ v.hit = g[q].hit
    <2>1. Turned(q, "up", o) \/ Turned(q, "up", g[q].out)
      BY DEF Turned
    <2> QED
      BY <1>2, <2>1, Turns
  <1> QED
    BY <1>1, <1>3, LateStep

\* What a handler's status and body may be, written through the writer at hand.
LEMMA DirectWrite ==
  ASSUME IInv, NEW q \in Request, Active(q), NEW st \in Status, NEW body \in Seq(Token),
         Write(g[q].w, st, body, wr) \/ Silent(wr)
  PROVE  ResponseType'
  <1>1. TypeOK /\ g[q].w \in Writers
    BY OwnCtx
  <1>2. wr \in [Wrapper -> WrapperState]
    BY <1>1 DEF TypeOK, WrapperState
  <1> QED
    BY <1>1, <1>2, WriteType, SilentType

\* Bad credentials.
LEMMA RejectOK ==
  ASSUME IInv, NEW q \in Request, Reject(q) PROVE IInv'
  <1>1. g[q].pc = "down" /\ Active(q) /\ UNCHANGED <<app, pool, ctx, reg, reqs>>
    BY DEF Reject, At, Active
  <1>2. TypeOK /\ log[q] \in Memory
    BY <1>1, OwnCtx
  <1>3. PICK m : Recalls(q, m) /\ (m.lost => MayLose(q)) /\ (m.ran => Reached(q, m.values))
    <2>1. [status |-> "error", body |-> <<<<q, "error">>>>] \in Output
      BY DueType DEF Status
    <2>2. log[q].lost \in BOOLEAN
      BY <1>2 DEF Memory
    <2> QED
      BY <2>1, <2>2, LogLearns DEF Reject, Due
  <1>4. ResponseType'
    BY <1>1, DirectWrite, BodyType DEF Reject, Status
  <1>5. CtxKept(q)
    BY <1>1, <1>2, CtxStays
  <1>6. g' = [g EXCEPT ![q].pc = "up", ![q].out = "err"] \/ g' = [g EXCEPT ![q].pc = "up"]
    BY DEF Reject
  <1> QED
    BY <1>1, <1>3, <1>4, <1>5, <1>6, TurnBack DEF CtxKept

\* A route handler that does not find its *Context.
LEMMA HandlerLostOK ==
  ASSUME IInv, NEW q \in Request, HandlerLost(q) PROVE IInv'
  <1>1. /\ g[q].pc = "down" /\ Active(q) /\ UNCHANGED <<app, pool, ctx, reg, reqs>>
        /\ MayLose(q)
    BY AtBottom DEF HandlerLost
  <1>2. TypeOK
    BY DEF IInv
  <1>3. PICK m : Recalls(q, m) /\ (m.lost => MayLose(q)) /\ (m.ran => Reached(q, m.values))
    <2>1. [status |-> "error", body |-> <<>>] \in Output
      BY DueType DEF Status
    <2> QED
      BY <1>1, <2>1, LogLearns DEF HandlerLost
  <1>4. ResponseType'
    BY <1>1, DirectWrite, BodyType DEF HandlerLost, Status
  <1>5. CtxKept(q)
    BY <1>1, <1>2, CtxStays
  <1>6. g' = [g EXCEPT ![q].pc = "up"]
    BY DEF HandlerLost
  <1> QED
    BY <1>1, <1>3, <1>4, <1>5, <1>6, TurnBack DEF CtxKept

\* A handler that ran, with the request at hand bound to its *Context.
LEMMA HandlerRan ==
  ASSUME IInv, NEW q \in Request, Bottom(q, "route"), Known(q),
         NEW st \in Status, NEW what \in Seq(Token), NEW exact \in BOOLEAN,
         NEW raw \in BOOLEAN, Ran(q, st, what, exact, raw), NEW written \in BOOLEAN, Handled(q, written),
         ResponseType', NEW o \in {"ok", "err", "panic"},
         \/ g' = [g EXCEPT ![q].pc = "up", ![q].out = o]
         \/ g' = [g EXCEPT ![q].pc = "up"],
         UNCHANGED <<app, pool, reg, reqs>>
  PROVE  IInv'
  <1>1. Active(q) /\ g[q].pc = "down" /\ Reached(q, reqs[q][g[q].r].values)
    BY AtBottom
  <1>2. /\ TypeOK /\ g[q].c \in Ctx /\ g[q] \in Goroutine /\ log[q] \in Memory
        /\ g[q].w \in Writers /\ RequestOK(q)
    BY <1>1, OwnCtx
  <1>3. g[q].r \in Nat /\ reqs[q][g[q].r].values \in SUBSET Nat
    <2>1. g[q].r \in DOMAIN reqs[q] /\ reqs[q] \in Seq(Pointer)
      BY <1>1, <1>2 DEF RequestOK, StageOK, TypeOK
    <2>2. reqs[q][g[q].r] \in Pointer
      BY <2>1
    <2> QED
      BY <1>2, <2>2 DEF Goroutine, Pointer
  <1> DEFINE m == [log[q] EXCEPT !.ran = TRUE, !.values = reqs[q][g[q].r].values,
                                 !.exact = exact, !.raw = raw,
                                 !.due = [status |-> st, body |-> what]]
  <1>4. m \in Memory /\ m.lost = log[q].lost /\ m.values = reqs[q][g[q].r].values
    <2>1. [status |-> st, body |-> what] \in Output
      BY DEF Output
    <2> QED
      BY <1>2, <1>3, <2>1 DEF Memory
  <1>5. Recalls(q, m)
    BY <1>4 DEF Ran, Recalls
  <1>6. (m.lost => MayLose(q)) /\ (m.ran => Reached(q, m.values))
    <2>1. log[q].lost => MayLose(q)
      BY <1>2 DEF RequestOK, LogOK
    <2> HIDE DEF m
    <2> QED
      BY <1>1, <1>4, <2>1
  <1>7. Touches(g[q].c) /\ ctx'[g[q].c].req = g[q].r
    <2>1. [req |-> g[q].r, res |-> g[q].w, written |-> written] \in CtxState
      BY <1>2, <1>3 DEF CtxState
    <2> QED
      BY <1>2, <2>1 DEF Handled, Touches, TypeOK, CtxState
  <1> HIDE DEF m
  <1> QED
    BY <1>1, <1>5, <1>6, <1>7, TurnBack

\* It answers, fails or panics.
LEMMA HandlerOK ==
  ASSUME IInv, NEW q \in Request, HandlerAnswers(q) \/ HandlerFails(q) \/ HandlerPanics(q)
  PROVE  IInv'
  <1>1. Bottom(q, "route") /\ Known(q) /\ Active(q) /\ UNCHANGED <<app, pool, reg, reqs>>
    BY AtBottom DEF HandlerAnswers, HandlerFails, HandlerPanics
  <1>2. /\ <<<<q, "data">>>> \in Seq(Token) /\ <<<<q, "error">>>> \in Seq(Token)
        /\ <<>> \in Seq(Token)
    BY BodyType
  <1>3. Write(g[q].w, "200", <<<<q, "data">>>>, wr) \/ Silent(wr)
    BY DEF HandlerAnswers, HandlerFails, HandlerPanics
  <1>4. ResponseType'
    BY <1>1, <1>2, <1>3, DirectWrite DEF Status
  <1>5. CASE HandlerAnswers(q)
    <2>1. PICK what \in Seq(Token), written \in BOOLEAN :
             Ran(q, "200", what, TRUE, FALSE) /\ Handled(q, written)
      BY <1>2, <1>5 DEF HandlerAnswers
    <2>2. g' = [g EXCEPT ![q].pc = "up"]
      BY <1>5 DEF HandlerAnswers
    <2> QED
      BY <1>1, <1>4, <2>1, <2>2, HandlerRan DEF Status
  <1>6. CASE HandlerFails(q)
    <2>1. PICK exact \in BOOLEAN, raw \in BOOLEAN, written \in BOOLEAN :
             Ran(q, "error", <<<<q, "error">>>>, exact, raw) /\ Handled(q, written)
      <3>1. CASE \E begun \in BOOLEAN :
                   Ran(q, "error", <<<<q, "error">>>>, ~begun, FALSE) /\ Handled(q, begun)
        BY <3>1
      <3>2. CASE Ran(q, "error", <<<<q, "error">>>>, FALSE, TRUE) /\ Handled(q, FALSE)
        BY <3>2
      <3> QED
        BY <1>6, <3>1, <3>2 DEF HandlerFails
    <2>2. g' = [g EXCEPT ![q].pc = "up", ![q].out = "err"]
      BY <1>6 DEF HandlerFails
    <2> QED
      BY <1>1, <1>2, <1>4, <2>1, <2>2, HandlerRan DEF Status
  <1>7. CASE HandlerPanics(q)
    <2>1. PICK exact \in BOOLEAN, raw \in BOOLEAN, written \in BOOLEAN :
             Ran(q, "none", <<>>, exact, raw) /\ Handled(q, written)
      BY <1>7 DEF HandlerPanics
    <2>2. g' = [g EXCEPT ![q].pc = "up", ![q].out = "panic"]
      BY <1>7 DEF HandlerPanics
    <2> QED
      BY <1>1, <1>2, <1>4, <2>1, <2>2, HandlerRan DEF Status
  <1> QED
    BY <1>5, <1>6, <1>7

\* It streams, past the buffer when that is right under c.res.
LEMMA StreamOK ==
  ASSUME IInv, NEW q \in Request, HandlerStreams(q) PROVE IInv'
  <1>1. Bottom(q, "route") /\ Known(q) /\ Active(q) /\ UNCHANGED <<app, pool, reg, reqs>>
    BY AtBottom DEF HandlerStreams
  <1>2. <<<<q, "data">>>> \in Seq(Token) /\ <<>> \in Seq(Token)
    BY BodyType
  <1>3. ResponseType'
    <2>1. CASE g[q].w = Buf(q)
      <3>1. UNCHANGED wr /\ Bypassed(q, <<<<q, "data">>>>)
        BY <2>1 DEF HandlerStreams
      <3>2. buf[q] \in [bypassed : BOOLEAN, out : Output] /\ client[q] \in Output
        BY DEF IInv, TypeOK
      <3>3. Effective(buf[q].out.status) \in Status /\ buf[q].out.body \in Seq(Token)
        BY <3>2 DEF Effective, Output, Status
      <3>4. Put(client[q], Effective(buf[q].out.status), buf[q].out.body) \in Output
        BY <3>2, <3>3, PutType
      <3> DEFINE sent == IF buf[q].out.body = <<>> THEN client[q]
                         ELSE Put(client[q], Effective(buf[q].out.status), buf[q].out.body)
      <3>5. sent \in Output
        BY <3>2, <3>4
      <3> HIDE DEF sent
      <3>6. Put(sent, "200", <<<<q, "data">>>>) \in Output
        BY <1>2, <3>5, PutType DEF Status
      <3>7. client' = [client EXCEPT ![q] = Put(sent, "200", <<<<q, "data">>>>)]
        BY <3>1 DEF Bypassed, sent
      <3>8. client' \in [Request -> Output]
        BY <3>6, <3>7 DEF IInv, TypeOK
      <3>9. [bypassed |-> TRUE, out |-> [buf[q].out EXCEPT !.body = <<>>]]
              \in [bypassed : BOOLEAN, out : Output]
        BY <1>2, <3>2 DEF Output
      <3>10. buf' \in [Request -> [bypassed : BOOLEAN, out : Output]]
        BY <3>1, <3>9 DEF Bypassed, IInv, TypeOK
      <3> QED
        BY <3>1, <3>8, <3>10 DEF ResponseType, IInv, TypeOK, WrapperState
    <2>2. CASE g[q].w # Buf(q)
      BY <1>1, <1>2, <2>2, DirectWrite DEF HandlerStreams, Status
    <2> QED
      BY <2>1, <2>2
  <1> QED
    BY <1>1, <1>2, <1>3, HandlerRan DEF HandlerStreams, Status

\* The 404 handler, with or without the *Context.
LEMMA NotFoundOK ==
  ASSUME IInv, NEW q \in Request, NEW hit \in {"none", "mount"}, Bottom(q, hit),
         AnswerNotFound(q, ctx[g[q].c].res), UNCHANGED <<app, pool, reg, reqs>>
  PROVE  IInv'
  <1>1. /\ Active(q) /\ g[q].pc = "down" /\ (~Found(q, g[q].r) => MayLose(q))
    BY AtBottom DEF Bottom
  <1>2. /\ TypeOK /\ g[q].c \in Ctx /\ ctx[g[q].c].res \in Writers
    BY <1>1, OwnCtx
  <1>3. PICK m : Recalls(q, m) /\ (m.lost => MayLose(q)) /\ (m.ran => Reached(q, m.values))
    <2>1. [status |-> "404", body |-> <<<<q, "error">>>>] \in Output
      BY DueType DEF Status
    <2>2. (~Found(q, g[q].r)) \in BOOLEAN
      BY DEF Found
    <2> QED
      BY <1>1, <2>1, <2>2, LogLearns DEF AnswerNotFound
  <1>4. ResponseType' /\ CtxKept(q)
    <2>1. CASE Found(q, g[q].r)
      BY <1>2, <2>1, JSONType, CtxWritten DEF AnswerNotFound, Status
    <2>2. CASE ~Found(q, g[q].r)
      BY <1>1, <1>2, <2>2, DirectWrite, BodyType, CtxStays DEF AnswerNotFound, Status
    <2> QED
      BY <2>1, <2>2
  <1>5. g' = [g EXCEPT ![q].pc = "up"]
    BY DEF AnswerNotFound
  <1> QED
    BY <1>1, <1>3, <1>4, <1>5, TurnBack DEF CtxKept

\* A mounted handler that answers, panics, or says nothing and has lost the *Context.
LEMMA MountOK ==
  ASSUME IInv, NEW q \in Request, MountAnswers(q) \/ MountPanics(q) \/ MountSilentLost(q)
  PROVE  IInv'
  <1>1. Bottom(q, "mount") /\ UNCHANGED <<app, pool, ctx, reg, reqs>>
    BY DEF MountAnswers, MountPanics, MountSilentLost
  <1>2. /\ Active(q) /\ g[q].pc = "down" /\ (~Found(q, g[q].r) => MayLose(q))
    BY <1>1, AtBottom DEF Bottom
  <1>3. TypeOK /\ log[q] \in Memory /\ CtxKept(q)
    BY <1>1, <1>2, OwnCtx, CtxStays
  <1>4. PICK m : Recalls(q, m) /\ (m.lost => MayLose(q)) /\ (m.ran => Reached(q, m.values))
    <2>1. CASE MountAnswers(q)
      <3>1. [status |-> "200", body |-> <<<<q, "data">>>>] \in Output
        BY DueType DEF Status
      <3>2. log[q].lost \in BOOLEAN
        BY <1>3 DEF Memory
      <3> QED
        BY <2>1, <3>1, <3>2, LogLearns DEF MountAnswers, Due
    <2>2. CASE MountPanics(q) /\ UNCHANGED log
      BY <2>2, LogStays
    <2>4. CASE log' = [log EXCEPT ![q].exact = FALSE, ![q].raw = TRUE]
      <3> DEFINE m == [log[q] EXCEPT !.exact = FALSE, !.raw = TRUE]
      <3>1. (log[q].lost => MayLose(q)) /\ (log[q].ran => Reached(q, log[q].values))
        BY DEF IInv, RequestOK, LogOK
      <3>2. m \in Memory /\ m.lost = log[q].lost /\ m.ran = log[q].ran /\ m.values = log[q].values
        BY <1>3 DEF Memory
      <3>3. log' = [log EXCEPT ![q] = m]
        BY <1>3, <2>4 DEF TypeOK
      <3> HIDE DEF m
      <3>4. Recalls(q, m)
        BY <3>2, <3>3 DEF Recalls
      <3> QED
        BY <3>1, <3>2, <3>4
    <2>3. CASE MountSilentLost(q)
      <3>1. log[q].due \in Output
        BY <1>3 DEF Memory
      <3> QED
        BY <1>2, <2>3, <3>1, LogLearns DEF MountSilentLost
    <2> QED
      BY <2>1, <2>2, <2>3, <2>4 DEF MountPanics
  <1>5. ResponseType'
    <2>1. CASE Write(g[q].w, "200", <<<<q, "data">>>>, wr)
      BY <1>2, <2>1, DirectWrite, BodyType DEF Status
    <2>2. CASE wr' = wr /\ UNCHANGED <<buf, client>>
      BY <1>3, <2>2 DEF ResponseType, TypeOK, WrapperState
    <2> QED
      BY <2>1, <2>2 DEF MountAnswers, MountPanics, MountSilentLost, Silent
  <1>6. g' = [g EXCEPT ![q].pc = "up", ![q].out = "panic"] \/ g' = [g EXCEPT ![q].pc = "up"]
    BY DEF MountAnswers, MountPanics, MountSilentLost
  <1> QED
    BY <1>1, <1>2, <1>3, <1>4, <1>5, <1>6, TurnBack DEF CtxKept

----------------------------------------------------------------------------
(* Back up the chain.                                                       *)

\* Leaving a middleware gives back what it had received.
LEMMA Pops ==
  ASSUME TypeOK, NEW q \in Request, Rising(q), NEW o \in {"ok", "err", "panic"},
         Pop(q, o)
  PROVE  \E v : /\ Moves(q, v) /\ v.pc = "up" /\ v.c = g[q].c
                /\ v.way = g[q].way /\ v.hit = g[q].hit
  <1> DEFINE v == [g[q] EXCEPT !.stack = Tail(g[q].stack), !.r = Top(q).r, !.w = Top(q).w,
                               !.out = o]
  <1>1. g[q] \in Goroutine /\ g[q].pc = "up"
    BY DEF TypeOK, Rising
  <1>2. g[q].stack \in Seq(Frame) /\ g[q].stack # <<>>
    BY <1>1 DEF Goroutine, Rising
  <1>3. Tail(g[q].stack) \in Seq(Frame) /\ Top(q) \in Frame
    BY <1>2 DEF Top
  <1>4. Top(q).r \in Nat /\ Top(q).w \in Writers
    BY <1>3 DEF Frame
  <1>5. v \in Goroutine
    BY <1>1, <1>3, <1>4 DEF Goroutine
  <1>6. v.pc = "up" /\ v.c = g[q].c /\ v.way = g[q].way /\ v.hit = g[q].hit
    BY <1>1 DEF Goroutine
  <1>7. g' = [g EXCEPT ![q] = v]
    BY DEF Pop, TypeOK
  <1>8. Moves(q, v)
    BY <1>5, <1>7 DEF Moves
  <1> HIDE DEF v
  <1> QED
    BY <1>6, <1>8

\* The frame on top, and the wrapper of a middleware that writes.
LEMMA TopType ==
  ASSUME IInv, NEW q \in Request, Rising(q)
  PROVE  /\ Active(q) /\ Top(q).w \in Writers /\ Top(q).back \in Writers
         /\ g[q].out \in {"ok", "err", "panic"}
         /\ Top(q).kind \in Writing =>
              /\ Top(q).x \in Wrapper
              /\ Effective(wr[Top(q).x].out.status) \in Status
              /\ wr[Top(q).x].out.body \in Seq(Token)
              /\ Released(Top(q).x) \in [Wrapper -> WrapperState]
  <1>1. Active(q) /\ g[q].pc = "up" /\ g[q].stack # <<>>
    BY DEF Rising, Active
  <1>2. TypeOK /\ g[q] \in Goroutine /\ g[q].out \in {"ok", "err", "panic"}
    BY <1>1, OwnCtx
  <1>3. g[q].stack \in Seq(Frame)
    BY <1>2 DEF Goroutine
  <1>4. Top(q) \in Frame
    BY <1>1, <1>3 DEF Top
  <1>5. Top(q).w \in Writers /\ Top(q).back \in Writers
    BY <1>4 DEF Frame
  <1>6. ASSUME Top(q).kind \in Writing
        PROVE  /\ Top(q).x \in Wrapper
               /\ Effective(wr[Top(q).x].out.status) \in Status
               /\ wr[Top(q).x].out.body \in Seq(Token)
               /\ Released(Top(q).x) \in [Wrapper -> WrapperState]
    <2>1. Top(q).x \in Wrapper
      BY <1>4, <1>6 DEF Frame
    <2>2. wr \in [Wrapper -> WrapperState]
      BY <1>2 DEF TypeOK, WrapperState
    <2>3. wr[Top(q).x].out \in Output /\ wr[Top(q).x].kind \in Writing \cup {"new"}
      BY <2>1, <2>2 DEF WrapperState
    <2>4. [Free EXCEPT !.kind = wr[Top(q).x].kind] \in WrapperState
      <3>1. Blank \in Output /\ Nil \in Writers
        BY BodyType DEF Blank, Output, Status, Writers
      <3> QED
        BY <2>3, <3>1 DEF Free, WrapperState
    <2>5. Released(Top(q).x) \in [Wrapper -> WrapperState]
      BY <2>2, <2>4 DEF Released
    <2> QED
      BY <2>1, <2>3, <2>5 DEF Output, Effective, Status
  <1> QED
    BY <1>1, <1>2, <1>5, <1>6

LEMMA RestoreKeeps ==
  ASSUME IInv, NEW q \in Request, Rising(q), Restore(q)
  PROVE  CtxKept(q)
  <1>1. TypeOK /\ g[q].c \in Ctx /\ Top(q).back \in Writers
    BY TopType, OwnCtx
  <1>2. CASE Top(q).back = Nil
    BY <1>1, <1>2, CtxStays DEF Restore
  <1>3. CASE Top(q).back # Nil
    BY <1>1, <1>3, CtxRedirected DEF Restore
  <1> QED
    BY <1>2, <1>3

\* Leaving a middleware, whatever it does to the response, keeps the invariant.
LEMMA Leaving ==
  ASSUME IInv, NEW q \in Request, Rising(q), NEW o \in {"ok", "err", "panic"},
         Pop(q, o), CtxKept(q), ResponseType', UNCHANGED <<app, pool, reg, reqs>>,
         NEW m, Recalls(q, m), m.lost => MayLose(q), m.ran => Reached(q, m.values)
  PROVE  IInv'
  <1>1. TypeOK /\ Active(q)
    BY TopType DEF IInv
  <1>2. PICK v : /\ Moves(q, v) /\ v.pc = "up" /\ v.c = g[q].c
                 /\ v.way = g[q].way /\ v.hit = g[q].hit
    BY <1>1, Pops
  <1> QED
    BY <1>1, <1>2, LateStep DEF CtxKept

LEMMA LeavePlainOK ==
  ASSUME IInv, NEW q \in Request, LeavePlain(q) PROVE IInv'
  <1>1. Rising(q) /\ Pop(q, g[q].out) /\ UNCHANGED <<app, pool, ctx, reg, reqs, wr, buf, client, log>>
    BY DEF LeavePlain
  <1>2. TypeOK /\ g[q].out \in {"ok", "err", "panic"}
    BY <1>1, TopType DEF IInv
  <1>3. ResponseType'
    BY <1>1, <1>2 DEF ResponseType, TypeOK, WrapperState
  <1>4. CtxKept(q)
    BY <1>1, <1>2, CtxStays
  <1>5. /\ Recalls(q, log[q]) /\ (log[q].lost => MayLose(q))
        /\ (log[q].ran => Reached(q, log[q].values))
    BY <1>1, LogStays
  <1> QED
    BY <1>1, <1>2, <1>3, <1>4, <1>5, Leaving

LEMMA LeaveRecorderOK ==
  ASSUME IInv, NEW q \in Request, LeaveRecorder(q) PROVE IInv'
  <1> DEFINE st == Effective(wr[Top(q).x].out.status)
  <1>1. /\ Rising(q) /\ Pop(q, g[q].out) /\ Restore(q) /\ Silent(Released(Top(q).x))
        /\ UNCHANGED <<app, pool, reg, reqs>>
        /\ Top(q).kind \in Writing /\ Observes(q, Top(q).kind, st)
    BY DEF LeaveRecorder, Writing
  <1>2. /\ TypeOK /\ g[q].out \in {"ok", "err", "panic"} /\ st \in Status
        /\ Released(Top(q).x) \in [Wrapper -> WrapperState]
    BY <1>1, TopType DEF IInv
  <1> HIDE DEF st
  <1>3. ResponseType'
    BY <1>1, <1>2, SilentType
  <1>4. CtxKept(q)
    BY <1>1, RestoreKeeps
  <1>5. PICK m : Recalls(q, m) /\ (m.lost => MayLose(q)) /\ (m.ran => Reached(q, m.values))
    <2>1. CASE g[q].out = "panic"
      BY <1>1, <2>1, LogStays DEF Observes
    <2>2. CASE g[q].out # "panic"
      <3> DEFINE m == [log[q] EXCEPT !.seen = log[q].seen \cup {<<Top(q).kind, st>>}]
      <3>1. log[q] \in Memory /\ (log[q].lost => MayLose(q))
            /\ (log[q].ran => Reached(q, log[q].values))
        BY DEF IInv, TypeOK, RequestOK, LogOK
      <3>2. log[q].seen \cup {<<Top(q).kind, st>>} \in SUBSET (Writing \X Status)
        BY <1>1, <1>2, <3>1 DEF Memory
      <3>3. m \in Memory /\ m.lost = log[q].lost /\ m.ran = log[q].ran
            /\ m.values = log[q].values
        BY <3>1, <3>2 DEF Memory
      <3>4. log' = [log EXCEPT ![q] = m]
        BY <1>1, <2>2 DEF Observes, IInv, TypeOK
      <3> HIDE DEF m
      <3>5. Recalls(q, m)
        BY <3>3, <3>4 DEF Recalls
      <3> QED
        BY <3>1, <3>3, <3>5
    <2> QED
      BY <2>1, <2>2
  <1> QED
    BY <1>1, <1>2, <1>3, <1>4, <1>5, Leaving

LEMMA CaptureOK ==
  ASSUME IInv, NEW q \in Request, LeaveCapture(q) \/ DropCapture(q) PROVE IInv'
  <1> DEFINE x == Top(q).x
             st == Effective(wr[x].out.status)
             body == wr[x].out.body
  <1>1. /\ Rising(q) /\ Pop(q, g[q].out) /\ Restore(q) /\ UNCHANGED <<app, pool, reg, reqs, log>>
        /\ Top(q).kind \in Writing
    BY DEF LeaveCapture, DropCapture, Writing
  <1>2. \/ Write(Top(q).w, st, body, Released(x)) \/ Write(Top(q).w, "304", <<>>, Released(x))
        \/ Silent(Released(x))
    BY DEF LeaveCapture, DropCapture
  <1>3. /\ TypeOK /\ g[q].out \in {"ok", "err", "panic"} /\ st \in Status
        /\ body \in Seq(Token) /\ Released(x) \in [Wrapper -> WrapperState]
        /\ Top(q).w \in Writers
    BY <1>1, TopType DEF IInv
  <1> HIDE DEF x, st, body
  <1>4. ResponseType'
    <2>1. "304" \in Status /\ <<>> \in Seq(Token)
      BY DEF Status
    <2> QED
      BY <1>2, <1>3, <2>1, WriteType, SilentType
  <1>5. CtxKept(q)
    BY <1>1, RestoreKeeps
  <1>6. /\ Recalls(q, log[q]) /\ (log[q].lost => MayLose(q))
        /\ (log[q].ran => Reached(q, log[q].values))
    BY <1>1, LogStays
  <1> QED
    BY <1>1, <1>3, <1>4, <1>5, <1>6, Leaving

LEMMA RecoverOK ==
  ASSUME IInv, NEW q \in Request, Recover(q) PROVE IInv'
  <1>1. Rising(q) /\ Pop(q, "ok") /\ UNCHANGED <<app, pool, reg, reqs>>
    BY DEF Recover
  <1>2. TypeOK /\ g[q].c \in Ctx /\ ctx[g[q].c].res \in Writers /\ Top(q).w \in Writers
        /\ log[q] \in Memory
    BY <1>1, TopType, OwnCtx
  <1>3. log[q].lost \in BOOLEAN
    BY <1>2 DEF Memory
  <1>4. CASE g[q].way = "native" \/ Found(q, Top(q).r)
    <2>1. ResponseType' /\ CtxKept(q)
      BY <1>2, <1>4, ErrorAnswered DEF Recover
    <2>2. PICK m : Recalls(q, m) /\ (m.lost => MayLose(q)) /\ (m.ran => Reached(q, m.values))
      <3>1. [status |-> "error", body |-> <<<<q, "error">>>>] \in Output
        BY DueType DEF Status
      <3>2. log' = [log EXCEPT ![q].due = [status |-> "error", body |-> <<<<q, "error">>>>]]
        BY <1>4 DEF Recover, Due
      <3> QED
        BY <1>3, <3>1, <3>2, LogLearns
    <2> QED
      BY <1>1, <2>1, <2>2, Leaving
  <1>5. CASE ~(g[q].way = "native" \/ Found(q, Top(q).r))
    <2>1. Write(Top(q).w, "error", <<>>, wr) /\ UNCHANGED ctx
      BY <1>5 DEF Recover
    <2>2. ResponseType'
      <3>1. "error" \in Status /\ <<>> \in Seq(Token) /\ wr \in [Wrapper -> WrapperState]
        BY <1>2 DEF Status, TypeOK, WrapperState
      <3> QED
        BY <1>2, <2>1, <3>1, WriteType
    <2>3. CtxKept(q)
      BY <1>2, <2>1, CtxStays
    <2>4. PICK m : Recalls(q, m) /\ (m.lost => MayLose(q)) /\ (m.ran => Reached(q, m.values))
      <3>1. [status |-> "error", body |-> <<>>] \in Output
        BY DueType DEF Status
      <3>2. log' = [log EXCEPT ![q].due = [status |-> "error", body |-> <<>>]]
        BY <1>5 DEF Recover
      <3> QED
        BY <1>3, <3>1, <3>2, LogLearns
    <2> QED
      BY <1>1, <2>2, <2>3, <2>4, Leaving
  <1> QED
    BY <1>4, <1>5

\* The error of a native chain is answered, and the end of the chain.
LEMMA ReturnOK ==
  ASSUME IInv, NEW q \in Request, AnswerError(q) \/ Return(q) PROVE IInv'
  <1>1. Active(q) /\ g[q].pc = "up" /\ UNCHANGED <<app, pool, reg, reqs, log>>
    BY DEF AnswerError, Return, Active
  <1>2. /\ TypeOK /\ g[q].c \in Ctx /\ ctx[g[q].c].res \in Writers /\ g[q] \in Goroutine
    BY <1>1, OwnCtx
  <1>3. /\ Recalls(q, log[q]) /\ (log[q].lost => MayLose(q))
        /\ (log[q].ran => Reached(q, log[q].values))
    BY <1>1, LogStays
  <1>4. ResponseType' /\ CtxKept(q)
    <2>1. CASE AnswerError(q)
      BY <1>2, <2>1, ErrorAnswered DEF AnswerError
    <2>2. CASE Return(q)
      <3>1. UNCHANGED <<ctx, wr, buf, client>>
        BY <2>2 DEF Return
      <3> QED
        BY <1>2, <3>1, CtxStays DEF ResponseType, TypeOK, WrapperState
    <2> QED
      BY <2>1, <2>2
  <1>5. PICK v : /\ Moves(q, v) /\ v.pc \in {"up", "finish"} /\ v.c = g[q].c
                 /\ v.way = g[q].way /\ v.hit = g[q].hit
    <2>1. g[q].out \in {"ok", "err", "panic"}
      BY <1>1, OwnCtx
    <2>2. \/ Turned(q, "up", "ok") \/ Turned(q, "finish", g[q].out)
          \/ Turned(q, "finish", "panic")
      BY <1>1 DEF AnswerError, Return, Turned
    <2> QED
      BY <1>2, <2>1, <2>2, Turns
  <1> QED
    BY <1>1, <1>3, <1>4, <1>5, LateStep DEF CtxKept

----------------------------------------------------------------------------
(* Down the chain.                                                          *)

\* A copy of a request is a new pointer; the others stay.
Copied(q, r, by, vs) ==
    /\ reqs' \in [Request -> Seq(Pointer)]
    /\ \A p \in Request \ {q} : reqs'[p] = reqs[p]
    /\ Fresh(q) \in Nat /\ Fresh(q) > 1 /\ DOMAIN reqs'[q] = 1 .. Fresh(q)
    /\ \A i \in DOMAIN reqs[q] : i \in DOMAIN reqs'[q] /\ reqs'[q][i] = reqs[q][i]
    /\ \A i \in DOMAIN reqs'[q] : i = Fresh(q) \/ i \in DOMAIN reqs[q]
    /\ Fresh(q) \in DOMAIN reqs'[q] /\ reqs'[q][Fresh(q)].by = by
    /\ reqs'[q][Fresh(q)].values = reqs[q][r].values \cup vs

LEMMA CopyFacts ==
  ASSUME TypeOK, NEW q \in Request, NEW r \in DOMAIN reqs[q], NEW by \in Ctx \cup {None},
         NEW vs, vs \subseteq Nat, Copy(q, r, by, vs)
  PROVE  Copied(q, r, by, vs)
  <1> DEFINE e == [by |-> by, values |-> reqs[q][r].values \cup vs]
  <1>1. reqs[q] \in Seq(Pointer)
    BY DEF TypeOK
  <1>2. reqs[q][r] \in Pointer
    BY <1>1
  <1>3. e \in Pointer
    BY <1>2 DEF Pointer
  <1>4. e.by = by /\ e.values = reqs[q][r].values \cup vs
    OBVIOUS
  <1>5. reqs' = [reqs EXCEPT ![q] = Append(reqs[q], e)]
    BY DEF Copy
  <1> HIDE DEF e
  <1>6. Append(reqs[q], e) \in Seq(Pointer)
    BY <1>1, <1>3
  <1>7. reqs' \in [Request -> Seq(Pointer)] /\ reqs'[q] = Append(reqs[q], e)
        /\ \A p \in Request \ {q} : reqs'[p] = reqs[p]
    BY <1>5, <1>6 DEF TypeOK
  <1>8. Len(reqs[q]) \in Nat /\ DOMAIN reqs[q] = 1 .. Len(reqs[q])
    BY <1>1
  <1>9. Fresh(q) \in Nat /\ Fresh(q) > 1
    BY <1>8 DEF Fresh
  <1>10. /\ Len(reqs'[q]) = Fresh(q) /\ DOMAIN reqs'[q] = 1 .. Fresh(q)
         /\ reqs'[q][Fresh(q)] = e /\ \A i \in DOMAIN reqs[q] : reqs'[q][i] = reqs[q][i]
    BY <1>1, <1>3, <1>7, <1>8 DEF Fresh
  <1>11. \A i \in DOMAIN reqs[q] : i \in DOMAIN reqs'[q]
    BY <1>8, <1>10 DEF Fresh
  <1>12. \A i \in DOMAIN reqs'[q] : i = Fresh(q) \/ i \in DOMAIN reqs[q]
    BY <1>8, <1>10 DEF Fresh
  <1>13. Fresh(q) \in DOMAIN reqs'[q]
    BY <1>9, <1>10
  <1> QED
    BY <1>4, <1>7, <1>9, <1>10, <1>11, <1>12, <1>13 DEF Copied

\* What is at hand when a request meets a middleware.
LEMMA AtHand ==
  ASSUME IInv, NEW q \in Request, NEW kinds, At(q, kinds)
  PROVE  /\ g[q].pc = "down" /\ Active(q) /\ Chain(q)[Depth(q)] \in kinds
         /\ g[q].r \in DOMAIN reqs[q] /\ ctx[g[q].c].req \in DOMAIN reqs[q]
         /\ g[q].r \in Nat /\ g[q].stack \in Seq(Frame) /\ Len(g[q].stack) \in Nat
         /\ Depth(q) = Len(g[q].stack) + 1 /\ Depth(q) \in DOMAIN Chain(q)
         /\ Depth(q) <= Len(Chain(q)) /\ {Depth(q)} \in SUBSET Nat
         /\ Chain(q)[Depth(q)] \in Kind
  <1>1. g[q].pc = "down" /\ Active(q)
    BY DEF At, Active
  <1>2. TypeOK /\ RequestOK(q) /\ g[q] \in Goroutine
    BY <1>1, OwnCtx
  <1>3. g[q].r \in DOMAIN reqs[q] /\ ctx[g[q].c].req \in DOMAIN reqs[q]
    BY <1>1, <1>2 DEF RequestOK, StageOK
  <1>4. g[q].stack \in Seq(Frame) /\ Len(g[q].stack) \in Nat /\ g[q].r \in Nat
    BY <1>2 DEF Goroutine
  <1>5. /\ Chain(q) \in Seq(Kind) /\ Len(Chain(q)) \in Nat
        /\ DOMAIN Chain(q) = 1 .. Len(Chain(q))
    BY <1>2, ChainType
  <1>6. Depth(q) = Len(g[q].stack) + 1 /\ Depth(q) <= Len(Chain(q))
        /\ Chain(q)[Depth(q)] \in kinds
    BY DEF At, Depth
  <1>7. Depth(q) \in DOMAIN Chain(q) /\ {Depth(q)} \in SUBSET Nat
    BY <1>4, <1>5, <1>6
  <1>8. Chain(q)[Depth(q)] \in Kind
    BY <1>5, <1>7
  <1> QED
    BY <1>1, <1>3, <1>4, <1>6, <1>7, <1>8

\* Entering a middleware adds its frame.
Entered(q, x, back, r, w) ==
    \/ g' = [g EXCEPT ![q].stack = Push(q, x, back), ![q].r = r] /\ w = g[q].w
    \/ g' = [g EXCEPT ![q].stack = Push(q, x, back), ![q].w = w] /\ r = g[q].r
    \/ g' = [g EXCEPT ![q].stack = Push(q, x, back)] /\ r = g[q].r /\ w = g[q].w

Deeper(q, v, r) ==
    /\ Moves(q, v) /\ v.pc = "down" /\ v.c = g[q].c /\ v.way = g[q].way /\ v.hit = g[q].hit
    /\ v.r = r /\ Len(v.stack) = Depth(q)

LEMMA Enters ==
  ASSUME IInv, NEW q \in Request, At(q, Kind), NEW x \in Wrapper \cup {None},
         Chain(q)[Depth(q)] \in Writing => x \in Wrapper,
         NEW back \in Writers, NEW r \in Nat, NEW w \in Writers, Entered(q, x, back, r, w)
  PROVE  \E v : Deeper(q, v, r)
  <1> DEFINE f == [kind |-> Chain(q)[Depth(q)], r |-> g[q].r, w |-> g[q].w, x |-> x,
                   back |-> back]
  <1>1. /\ g[q].pc = "down" /\ Active(q) /\ g[q].r \in Nat /\ g[q].stack \in Seq(Frame)
        /\ Depth(q) = Len(g[q].stack) + 1 /\ Chain(q)[Depth(q)] \in Kind
    BY AtHand
  <1>2. TypeOK /\ g[q] \in Goroutine /\ g[q].w \in Writers
    BY <1>1, OwnCtx
  <1>3. f \in Frame
    BY <1>1, <1>2 DEF Frame
  <1>4. Push(q, x, back) = <<f>> \o g[q].stack
    BY DEF Push
  <1> HIDE DEF f
  <1>5. Push(q, x, back) \in Seq(Frame) /\ Len(Push(q, x, back)) = Depth(q)
    BY <1>1, <1>3, <1>4
  <1> DEFINE v == [g[q] EXCEPT !.stack = Push(q, x, back), !.r = r, !.w = w]
  <1>6. v \in Goroutine
    BY <1>2, <1>5 DEF Goroutine
  <1>7. /\ v.pc = "down" /\ v.c = g[q].c /\ v.way = g[q].way /\ v.hit = g[q].hit
        /\ v.r = r /\ v.stack = Push(q, x, back)
    BY <1>1, <1>2 DEF Goroutine
  <1>8. g' = [g EXCEPT ![q] = v]
    <2>1. CASE g' = [g EXCEPT ![q].stack = Push(q, x, back), ![q].r = r] /\ w = g[q].w
      <3>1. v = [g[q] EXCEPT !.stack = Push(q, x, back), !.r = r]
        BY <1>2, <2>1 DEF Goroutine
      <3> QED
        BY <1>2, <2>1, <3>1 DEF TypeOK
    <2>2. CASE g' = [g EXCEPT ![q].stack = Push(q, x, back), ![q].w = w] /\ r = g[q].r
      <3>1. v = [g[q] EXCEPT !.stack = Push(q, x, back), !.w = w]
        BY <1>2, <2>2 DEF Goroutine
      <3> QED
        BY <1>2, <2>2, <3>1 DEF TypeOK
    <2>3. CASE g' = [g EXCEPT ![q].stack = Push(q, x, back)] /\ r = g[q].r /\ w = g[q].w
      <3>1. v = [g[q] EXCEPT !.stack = Push(q, x, back)]
        BY <1>2, <2>3 DEF Goroutine
      <3> QED
        BY <1>2, <2>3, <3>1 DEF TypeOK
    <2> QED
      BY <2>1, <2>2, <2>3 DEF Entered
  <1>9. Moves(q, v)
    BY <1>6, <1>8 DEF Moves
  <1> HIDE DEF v
  <1> QED
    BY <1>5, <1>7, <1>9 DEF Deeper

\* What a middleware must do with the request for those below it: the *Context stays
\* behind the bridge, and is lost only by the kinds that may; the values set above stay
\* in the request that is forwarded and, with the *Context, in c.req; its own is there.
Forwards(q, r, req) ==
    LET k == Chain(q)[Depth(q)] IN
    /\ r \in DOMAIN reqs'[q] /\ req \in DOMAIN reqs'[q]
    /\ Bridged(q) => reqs'[q][r].by # None
    /\ Known(q)' \/ ~Known(q) \/ k \in {"clone", "wrap"}
    /\ \A i \in 1 .. Len(g[q].stack) :
         Sets(q, i) \/ (Chain(q)[i] = "clone" /\ k # "value") =>
            (i \in reqs[q][g[q].r].values => i \in reqs'[q][r].values)
    /\ Sets(q, Depth(q)) \/ k = "clone" => Depth(q) \in reqs'[q][r].values
    /\ Known(q)' => \A i \in 1 .. Depth(q) : Sets(q, i) => i \in reqs'[q][req].values

LEMMA DownStep ==
  ASSUME IInv, NEW q \in Request, At(q, Kind), NEW r, NEW v, Deeper(q, v, r),
         Touches(g[q].c), ResponseType', UNCHANGED <<app, pool, log>>,
         reg' \in [Request -> SUBSET (Nat \X Ctx)], reqs' \in [Request -> Seq(Pointer)],
         \A p \in Request \ {q} : reg'[p] = reg[p] /\ reqs'[p] = reqs[p],
         RegOK(q)', Forwards(q, r, ctx'[g[q].c].req)
  PROVE  IInv'
  <1>1. /\ g[q].pc = "down" /\ Active(q) /\ Depth(q) = Len(g[q].stack) + 1
        /\ Len(g[q].stack) \in Nat /\ Depth(q) <= Len(Chain(q))
    BY AtHand
  <1>2. TypeOK /\ RequestOK(q) /\ Owns(q) /\ Len(Chain(q)) \in Nat
    BY <1>1, OwnCtx, ChainType
  <1>3. /\ g'[q] = v /\ v.pc = "down" /\ v.c = g[q].c /\ v.way = g[q].way
        /\ v.hit = g[q].hit /\ v.r = r /\ Len(v.stack) = Depth(q)
    BY <1>2, MoveFacts DEF Deeper
  <1>4. Chain(q)' = Chain(q)
    BY <1>3 DEF Chain
  <1>5. (\A i : Sets(q, i)' = Sets(q, i)) /\ Bridged(q)' = Bridged(q)
    BY <1>3, <1>4 DEF Sets, Bridged
  <1>6. /\ Recalls(q, log[q]) /\ (log[q].lost => MayLose(q))
        /\ (log[q].ran => Reached(q, log[q].values))
    BY LogStays
  <1>7. LogOK(q)'
    BY <1>3, <1>4, <1>5, <1>6 DEF LogOK, MayLose, Reached
  <1>8. StageOK(q)'
    BY <1>1, <1>2, <1>3, <1>4 DEF RequestOK, StageOK, Forwards
  <1>9. FoundOK(q)'
    <2>1. Bridged(q) => reqs'[q][r].by # None
      BY DEF Forwards
    <2>2. Known(q)' \/ \E i \in 1 .. Depth(q) : Chain(q)[i] \in {"clone", "wrap"}
      <3>1. CASE Known(q)' \/ Chain(q)[Depth(q)] \in {"clone", "wrap"}
        BY <1>1, <3>1
      <3>2. CASE ~Known(q)
        <4>1. \E i \in 1 .. Len(g[q].stack) : Chain(q)[i] \in {"clone", "wrap"}
          BY <1>1, <1>2, <3>2 DEF RequestOK, FoundOK
        <4> QED
          BY <1>1, <4>1
      <3> QED
        BY <3>1, <3>2 DEF Forwards
    <2> QED
      BY <1>3, <1>4, <1>5, <2>1, <2>2 DEF FoundOK
  <1>10. ValuesOK(q)'
    <2>1. ASSUME NEW i \in 1 .. Depth(q),
                 \/ Sets(q, i)
                 \/ Chain(q)[i] = "clone" /\ \A j \in i .. Depth(q) : Chain(q)[j] # "value"
          PROVE  i \in reqs'[q][r].values
      <3>1. CASE i = Depth(q)
        BY <2>1, <3>1 DEF Forwards
      <3>2. CASE i # Depth(q)
        <4>1. i \in 1 .. Len(g[q].stack)
          BY <1>1, <3>2
        <4>2. \A j \in i .. Len(g[q].stack) : j \in i .. Depth(q)
          BY <1>1, <4>1
        <4>3. Depth(q) \in i .. Depth(q)
          BY <1>1, <4>1
        <4>4. i \in reqs[q][g[q].r].values
          BY <1>1, <1>2, <2>1, <4>1, <4>2 DEF RequestOK, ValuesOK
        <4> QED
          BY <2>1, <4>1, <4>3, <4>4 DEF Forwards
      <3> QED
        BY <3>1, <3>2
    <2>2. Known(q)' => \A i \in 1 .. Depth(q) :
                          Sets(q, i) => i \in reqs'[q][ctx'[g[q].c].req].values
      BY DEF Forwards
    <2>3. g[q].way = "native" => AllNative(Chain(q))
      BY <1>1, <1>2 DEF RequestOK, ValuesOK
    <2> QED
      BY <1>3, <1>4, <1>5, <2>1, <2>2, <2>3 DEF ValuesOK, AllNative
  <1>11. RequestOK(q)'
    BY <1>7, <1>8, <1>9, <1>10 DEF RequestOK
  <1> QED
    BY <1>2, <1>3, <1>6, <1>11, OwnStep DEF Deeper

\* A middleware that leaves the request alone.
LEMMA SameRequest ==
  ASSUME IInv, NEW q \in Request, At(q, Kind), NEW v, Deeper(q, v, g[q].r),
         Chain(q)[Depth(q)] \notin {"value", "bind", "clone"},
         Chain(q)[Depth(q)] = "wrap" => g[q].way # "native",
         CtxKept(q), ResponseType', UNCHANGED <<app, pool, reg, reqs, log>>
  PROVE  IInv'
  <1>1. /\ g[q].pc = "down" /\ Active(q) /\ Depth(q) = Len(g[q].stack) + 1
        /\ Len(g[q].stack) \in Nat /\ g[q].r \in DOMAIN reqs[q]
        /\ ctx[g[q].c].req \in DOMAIN reqs[q]
    BY AtHand
  <1>2. TypeOK /\ RequestOK(q)
    BY <1>1, OwnCtx
  <1>3. g'[q] = v
    BY <1>2, MoveFacts DEF Deeper
  <1>4. Known(q)' = Known(q)
    BY <1>3 DEF Known, Found, Deeper
  <1>5. RegOK(q)'
    BY <1>1, <1>2, <1>3 DEF RequestOK, RegOK, Owns, Active, Deeper, CtxKept
  <1>6. ~Sets(q, Depth(q))
    BY DEF Sets
  <1>7. Known(q) => \A i \in 1 .. Depth(q) :
                       Sets(q, i) => i \in reqs[q][ctx[g[q].c].req].values
    BY <1>1, <1>2, <1>6 DEF RequestOK, ValuesOK
  <1>8. Forwards(q, g[q].r, ctx'[g[q].c].req)
    BY <1>1, <1>2, <1>4, <1>6, <1>7 DEF Forwards, RequestOK, FoundOK, CtxKept
  <1> QED
    BY <1>2, <1>5, <1>8, DownStep DEF TypeOK, CtxKept

\* Stdlib-only middleware and Recovery.
LEMMA EnterPlainOK ==
  ASSUME IInv, NEW q \in Request, EnterPlain(q) PROVE IInv'
  <1>1. At(q, Kind) /\ UNCHANGED <<app, pool, ctx, reg, wr, buf, client, log>>
        /\ Chain(q)[Depth(q)] \in {"plain", "recover", "clone"}
    BY DEF EnterPlain, At, Kind, NativeKind
  <1>2. /\ g[q].pc = "down" /\ Active(q) /\ Depth(q) = Len(g[q].stack) + 1
        /\ Len(g[q].stack) \in Nat /\ g[q].r \in DOMAIN reqs[q] /\ g[q].r \in Nat
        /\ ctx[g[q].c].req \in DOMAIN reqs[q] /\ {Depth(q)} \in SUBSET Nat
        /\ Depth(q) \in DOMAIN Chain(q)
    BY <1>1, AtHand
  <1>3. TypeOK /\ RequestOK(q) /\ g[q].w \in Writers
    BY <1>2, OwnCtx
  <1>4. ResponseType' /\ CtxKept(q) /\ Nil \in Writers /\ Chain(q)[Depth(q)] \notin Writing
    BY <1>1, <1>3, CtxStays DEF ResponseType, TypeOK, WrapperState, Writers, Writing
  <1>5. CASE ~At(q, {"clone"})
    <2>1. Entered(q, None, Nil, g[q].r, g[q].w) /\ UNCHANGED reqs
      BY <1>5 DEF EnterPlain, Entered
    <2>2. PICK v : Deeper(q, v, g[q].r)
      BY <1>1, <1>2, <1>3, <1>4, <2>1, Enters
    <2>3. Chain(q)[Depth(q)] \in {"plain", "recover"}
      BY <1>1, <1>5 DEF At
    <2> QED
      BY <1>1, <1>4, <2>1, <2>2, <2>3, SameRequest
  <1>6. CASE At(q, {"clone"})
    <2>1. /\ Copy(q, g[q].r, reqs[q][g[q].r].by, {Depth(q)})
          /\ Entered(q, None, Nil, Fresh(q), g[q].w)
      BY <1>6 DEF EnterPlain, Entered
    <2>2. reqs[q][g[q].r].by \in Ctx \cup {None}
      <3>1. reqs[q][g[q].r] \in Pointer
        BY <1>2, <1>3 DEF TypeOK
      <3> QED
        BY <3>1 DEF Pointer
    <2>3. Copied(q, g[q].r, reqs[q][g[q].r].by, {Depth(q)})
      <3>1. {Depth(q)} \subseteq Nat
        BY <1>2
      <3> QED
        BY <1>2, <1>3, <2>1, <2>2, <3>1, CopyFacts
    <2>4. PICK v : Deeper(q, v, Fresh(q))
      BY <1>1, <1>3, <1>4, <2>1, <2>3, Enters DEF Copied
    <2>5. g'[q] = v
      BY <1>3, <2>4, MoveFacts DEF Deeper
    <2>6. RegOK(q)'
      BY <1>1, <1>2, <1>3, <2>3, <2>4, <2>5 DEF RequestOK, RegOK, Owns, Active, Deeper, Copied
    <2>7. Chain(q)[Depth(q)] = "clone" /\ ~Sets(q, Depth(q))
      BY <1>6 DEF At, Sets
    <2>8. g[q].way # "native"
      BY <1>2, <1>3, <2>7 DEF RequestOK, ValuesOK, AllNative, NativeKind
    <2>9. Known(q)' => Known(q)
      BY <1>1, <1>3, <2>3, <2>4, <2>5, <2>8 DEF Known, Found, Deeper, RequestOK, RegOK, Copied
    <2>10. Known(q) => \A i \in 1 .. Depth(q) :
                         Sets(q, i) => i \in reqs[q][ctx[g[q].c].req].values
      BY <1>2, <1>3, <2>7 DEF RequestOK, ValuesOK
    <2>11. Bridged(q) => reqs'[q][Fresh(q)].by # None
      BY <1>2, <1>3, <2>3 DEF RequestOK, FoundOK, Copied
    <2>12. Forwards(q, Fresh(q), ctx'[g[q].c].req)
      BY <1>1, <1>2, <2>3, <2>7, <2>9, <2>10, <2>11 DEF Forwards, Copied
    <2> QED
      BY <1>1, <1>3, <1>4, <2>3, <2>4, <2>6, <2>12, DownStep
         DEF TypeOK, CtxKept, Copied
  <1> QED
    BY <1>5, <1>6

\* SetContext, SetContextValue and BindRequest on the *Context of the request.
LEMMA EnterValueOK ==
  ASSUME IInv, NEW q \in Request, EnterValue(q) PROVE IInv'
  <1> DEFINE src == IF At(q, {"bind"}) THEN g[q].r ELSE ctx[g[q].c].req
             fwd == IF At(q, {"wrap"}) /\ g[q].way # "native" THEN g[q].r ELSE Fresh(q)
             k == Chain(q)[Depth(q)]
  <1>1. /\ At(q, Kind) /\ Known(q) /\ UNCHANGED <<app, pool, wr, buf, client, log>>
        /\ k \in {"value", "bind", "wrap"} /\ Copy(q, src, g[q].c, {Depth(q)})
        /\ SetReq(q, Fresh(q)) /\ Entered(q, None, Nil, fwd, g[q].w)
        /\ reg' = IF app.bridge THEN reg ELSE Unregister(q, ctx[g[q].c].req)
    BY DEF EnterValue, At, Kind, NativeKind, Entered
  <1>2. /\ g[q].pc = "down" /\ Active(q) /\ Depth(q) = Len(g[q].stack) + 1
        /\ Len(g[q].stack) \in Nat /\ g[q].r \in DOMAIN reqs[q] /\ g[q].r \in Nat
        /\ ctx[g[q].c].req \in DOMAIN reqs[q] /\ Depth(q) \in DOMAIN Chain(q)
        /\ Depth(q) <= Len(Chain(q))
    BY <1>1, AtHand
  <1>3. /\ TypeOK /\ RequestOK(q) /\ g[q].w \in Writers /\ g[q].c \in Ctx
        /\ ctx[g[q].c] \in CtxState
    BY <1>2, OwnCtx
  <1>4. /\ At(q, {"bind"}) <=> k = "bind"
        /\ At(q, {"wrap"}) <=> k = "wrap"
    BY <1>2 DEF At
  <1>5. Copied(q, src, g[q].c, {Depth(q)})
    <2>1. {Depth(q)} \subseteq Nat /\ src \in DOMAIN reqs[q]
      BY <1>2
    <2> HIDE DEF src
    <2> QED
      BY <1>1, <1>3, <2>1, CopyFacts
  <1>6. /\ src = IF k = "bind" THEN g[q].r ELSE ctx[g[q].c].req
        /\ fwd = IF k = "wrap" /\ g[q].way # "native" THEN g[q].r ELSE Fresh(q)
    BY <1>4
  <1> HIDE DEF src, fwd, k
  <1>7. PICK v : Deeper(q, v, fwd)
    <2>1. fwd \in Nat /\ Nil \in Writers /\ k \notin Writing
      BY <1>1, <1>2, <1>5, <1>6 DEF Copied, Writers, Writing
    <2> QED
      BY <1>1, <1>3, <2>1, Enters DEF k
  <1>8. g'[q] = v
    BY <1>3, <1>7, MoveFacts DEF Deeper
  <1>9. ResponseType'
    BY <1>1, <1>3 DEF ResponseType, TypeOK, WrapperState
  <1>10. Touches(g[q].c) /\ ctx'[g[q].c].req = Fresh(q)
    <2>1. [ctx[g[q].c] EXCEPT !.req = Fresh(q)] \in CtxState
      BY <1>3, <1>5 DEF CtxState, Copied
    <2>2. ctx' = [ctx EXCEPT ![g[q].c] = [ctx[g[q].c] EXCEPT !.req = Fresh(q)]]
      BY <1>1 DEF SetReq
    <2>3. ctx \in [Ctx -> CtxState]
      BY <1>3 DEF TypeOK, CtxState
    <2>4. ctx' \in [Ctx -> CtxState] /\ ctx'[g[q].c] = [ctx[g[q].c] EXCEPT !.req = Fresh(q)]
          /\ \A d \in Ctx \ {g[q].c} : ctx'[d] = ctx[d]
      BY <1>3, <2>1, <2>2, <2>3
    <2>5. ctx'[g[q].c].req = Fresh(q)
      BY <1>3, <2>4 DEF CtxState
    <2> QED
      BY <2>4, <2>5 DEF Touches
  <1>11. /\ reg' \in [Request -> SUBSET (Nat \X Ctx)] /\ reg'[q] \subseteq reg[q]
         /\ \A p \in Request \ {q} : reg'[p] = reg[p]
         /\ ~app.bridge => reg'[q] = {e \in reg[q] : e[1] # ctx[g[q].c].req}
    <2>1. CASE app.bridge
      BY <1>1, <1>3, <2>1 DEF TypeOK
    <2>2. CASE ~app.bridge
      <3>1. reg' = [reg EXCEPT ![q] = {e \in reg[q] : e[1] # ctx[g[q].c].req}]
        BY <1>1, <2>2 DEF Unregister
      <3> QED
        BY <1>3, <2>2, <3>1 DEF TypeOK
    <2> QED
      BY <2>1, <2>2
  <1>12. RegOK(q)'
    <2>1. reg'[q] # {} => g[q].way = "mux"
      BY <1>3, <1>11 DEF RequestOK, RegOK
    <2> QED
      BY <1>2, <1>3, <1>7, <1>8, <1>11, <2>1 DEF RequestOK, RegOK, Owns, Active, Deeper
  <1>13. g[q].c # None
    BY <1>3, NoneAssumption
  <1>14. Bridged(q) => reqs'[q][fwd].by # None
    BY <1>2, <1>3, <1>5, <1>6, <1>13 DEF RequestOK, FoundOK, Copied
  <1>15. Known(q)' \/ k = "wrap"
    BY <1>5, <1>6, <1>7, <1>8, <1>13 DEF Copied, Known, Found, Deeper
  <1>16. \A i \in 1 .. Len(g[q].stack) : Sets(q, i) =>
            i \in reqs[q][g[q].r].values /\ i \in reqs[q][ctx[g[q].c].req].values
    BY <1>1, <1>2, <1>3 DEF RequestOK, ValuesOK
  <1>17. \A i \in 1 .. Len(g[q].stack) :
            Sets(q, i) \/ (Chain(q)[i] = "clone" /\ k # "value") =>
               (i \in reqs[q][g[q].r].values => i \in reqs'[q][fwd].values)
    <2> SUFFICES ASSUME NEW i \in 1 .. Len(g[q].stack),
                        Sets(q, i) \/ (Chain(q)[i] = "clone" /\ k # "value"),
                        i \in reqs[q][g[q].r].values
                 PROVE  i \in reqs'[q][fwd].values
      OBVIOUS
    <2>1. CASE fwd = g[q].r
      BY <1>2, <1>5, <2>1 DEF Copied
    <2>2. CASE fwd # g[q].r
      <3>1. fwd = Fresh(q) /\ (k = "wrap" => g[q].way = "native")
        BY <1>6, <2>2
      <3>2. CASE Sets(q, i)
        BY <1>5, <1>6, <1>16, <3>1, <3>2 DEF Copied
      <3>3. CASE Chain(q)[i] = "clone" /\ k # "value"
        <4>1. i \in DOMAIN Chain(q)
          BY <1>2, <1>3, ChainType
        <4>2. k = "bind"
          BY <1>1, <1>2, <1>3, <3>1, <3>3, <4>1
          DEF RequestOK, ValuesOK, AllNative, NativeKind
        <4> QED
          BY <1>5, <1>6, <3>1, <4>2 DEF Copied
      <3> QED
        BY <3>2, <3>3
    <2> QED
      BY <2>1, <2>2
  <1>18. Sets(q, Depth(q)) \/ k = "clone" => Depth(q) \in reqs'[q][fwd].values
    BY <1>1, <1>5, <1>6 DEF Copied, Sets, k
  <1>19. \A i \in 1 .. Depth(q) : Sets(q, i) => i \in reqs'[q][Fresh(q)].values
    <2>1. reqs'[q][Fresh(q)].values = reqs[q][src].values \cup {Depth(q)}
      BY <1>5 DEF Copied
    <2>2. src = g[q].r \/ src = ctx[g[q].c].req
      BY <1>6
    <2>3. \A i \in 1 .. Depth(q) : i = Depth(q) \/ i \in 1 .. Len(g[q].stack)
      BY <1>2
    <2> QED
      BY <1>16, <2>1, <2>2, <2>3
  <1>20. Forwards(q, fwd, ctx'[g[q].c].req)
    <2>1. fwd \in DOMAIN reqs'[q] /\ Fresh(q) \in DOMAIN reqs'[q]
      BY <1>2, <1>5, <1>6 DEF Copied
    <2> QED
      BY <1>10, <1>14, <1>15, <1>17, <1>18, <1>19, <2>1 DEF Forwards, k
  <1> QED
    BY <1>1, <1>5, <1>7, <1>9, <1>10, <1>11, <1>12, <1>20, DownStep DEF Copied

\* The same without the *Context.
LEMMA EnterValueLostOK ==
  ASSUME IInv, NEW q \in Request, EnterValueLost(q) PROVE IInv'
  <1>1. /\ At(q, Kind) /\ ~Known(q) /\ UNCHANGED <<app, pool, ctx, reg, wr, buf, client, log>>
        /\ Chain(q)[Depth(q)] \in {"value", "bind", "wrap"}
    BY DEF EnterValueLost, At, Kind, NativeKind
  <1>2. /\ g[q].pc = "down" /\ Active(q) /\ Depth(q) = Len(g[q].stack) + 1
        /\ Len(g[q].stack) \in Nat /\ g[q].r \in DOMAIN reqs[q] /\ g[q].r \in Nat
        /\ ctx[g[q].c].req \in DOMAIN reqs[q]
    BY <1>1, AtHand
  <1>3. TypeOK /\ RequestOK(q) /\ g[q].w \in Writers
    BY <1>2, OwnCtx
  <1>4. ResponseType' /\ CtxKept(q) /\ Nil \in Writers /\ Chain(q)[Depth(q)] \notin Writing
    BY <1>1, <1>3, CtxStays DEF ResponseType, TypeOK, WrapperState, Writers, Writing
  <1>5. g[q].way # "native" /\ ~Bridged(q)
    BY <1>1, <1>2, <1>3 DEF Known, Found, RequestOK, FoundOK
  <1>6. CASE At(q, {"wrap"})
    <2>1. Entered(q, None, Nil, g[q].r, g[q].w) /\ UNCHANGED reqs
      BY <1>6 DEF EnterValueLost, Entered
    <2>2. PICK v : Deeper(q, v, g[q].r)
      BY <1>1, <1>2, <1>3, <1>4, <2>1, Enters
    <2>3. Chain(q)[Depth(q)] = "wrap"
      BY <1>6 DEF At
    <2> QED
      BY <1>1, <1>4, <1>5, <2>1, <2>2, <2>3, SameRequest
  <1>7. CASE ~At(q, {"wrap"})
    <2>1. /\ Copy(q, g[q].r, None, {Depth(q)})
          /\ Entered(q, None, Nil, Fresh(q), g[q].w)
      BY <1>7 DEF EnterValueLost, Entered
    <2>2. Copied(q, g[q].r, None, {Depth(q)})
      <3>1. {Depth(q)} \subseteq Nat
        BY <1>2
      <3> QED
        BY <1>2, <1>3, <2>1, <3>1, CopyFacts
    <2>3. PICK v : Deeper(q, v, Fresh(q))
      BY <1>1, <1>3, <1>4, <2>1, <2>2, Enters DEF Copied
    <2>4. g'[q] = v
      BY <1>3, <2>3, MoveFacts DEF Deeper
    <2>5. RegOK(q)'
      BY <1>1, <1>2, <1>3, <2>2, <2>3, <2>4 DEF RequestOK, RegOK, Owns, Active, Deeper, Copied
    <2>6. ~Known(q)'
      BY <1>1, <1>3, <1>5, <2>2, <2>3, <2>4 DEF Known, Found, Deeper, RequestOK, RegOK, Copied
    <2>7. Forwards(q, Fresh(q), ctx'[g[q].c].req)
      BY <1>1, <1>2, <1>5, <2>2, <2>6 DEF Forwards, Copied
    <2> QED
      BY <1>1, <1>3, <1>4, <2>2, <2>3, <2>5, <2>7, DownStep DEF TypeOK, CtxKept, Copied
  <1> QED
    BY <1>6, <1>7

\* A recorder or a capture around the writer.
LEMMA EnterWriterOK ==
  ASSUME IInv, NEW q \in Request, EnterWriter(q) PROVE IInv'
  <1>1. /\ At(q, Kind) /\ UNCHANGED <<app, pool, reg, reqs, buf, client, log>>
        /\ Chain(q)[Depth(q)] \in Writing
    BY DEF EnterWriter, At, Kind, NativeKind, Writing
  <1>2. g[q].pc = "down" /\ Active(q) /\ g[q].r \in Nat
    BY <1>1, AtHand
  <1>3. /\ TypeOK /\ g[q].w \in Writers /\ g[q].c \in Ctx /\ ctx[g[q].c].res \in Writers
    BY <1>2, OwnCtx
  <1> DEFINE back == IF Redirects(q) THEN ctx[g[q].c].res ELSE Nil
  <1>4. PICK x \in Wrapper :
           /\ Acquire(q, x) /\ Entered(q, x, back, g[q].r, Wrap(x))
           /\ ctx' = IF Redirects(q) THEN [ctx EXCEPT ![g[q].c].res = Wrap(x)] ELSE ctx
    BY DEF EnterWriter, Entered
  <1>5. Wrap(x) \in Writers /\ back \in Writers
    BY <1>3 DEF Writers
  <1> HIDE DEF back
  <1>6. PICK v : Deeper(q, v, g[q].r)
    BY <1>1, <1>2, <1>4, <1>5, Enters
  <1>7. CtxKept(q)
    BY <1>3, <1>4, <1>5, CtxStays, CtxRedirected
  <1>8. ResponseType'
    <2>1. wr \in [Wrapper -> WrapperState]
      BY <1>3 DEF TypeOK, WrapperState
    <2>2. Sink(g[q].w) \in Writers /\ Thru(g[q].w) \subseteq Wrapper
      BY <1>3, SinkType
    <2>3. Blank \in Output
      BY DEF Blank, Output, Status
    <2> DEFINE kind == Chain(q)[Depth(q)]
               e == [kind |-> kind, busy |-> TRUE, out |-> Blank,
                     sink |-> IF kind = "etag" THEN Wrap(x) ELSE Sink(g[q].w),
                     thru |-> IF kind = "etag" THEN {} ELSE {x} \cup Thru(g[q].w)]
    <2>4. wr' = [wr EXCEPT ![x] = e]
      BY <1>4 DEF Acquire
    <2>5. e \in WrapperState
      BY <1>1, <1>5, <2>2, <2>3 DEF WrapperState
    <2> HIDE DEF e
    <2>6. wr' \in [Wrapper -> WrapperState]
      BY <2>1, <2>4, <2>5
    <2> QED
      BY <1>1, <1>3, <2>6 DEF ResponseType, TypeOK
  <1>9. Chain(q)[Depth(q)] \notin {"value", "bind", "clone", "wrap"}
    BY <1>1 DEF Writing
  <1> QED
    BY <1>1, <1>6, <1>7, <1>8, <1>9, SameRequest

----------------------------------------------------------------------------
(* Into the chain.                                                          *)

\* Two native chains, one after the other, are a native chain.
LEMMA ConcatNative ==
  ASSUME NEW s \in Seq(Kind), NEW t \in Seq(Kind), AllNative(s), AllNative(t)
  PROVE  AllNative(s \o t)
  <1> SUFFICES ASSUME NEW i \in DOMAIN (s \o t) PROVE (s \o t)[i] \in NativeKind
    BY DEF AllNative
  <1>1. /\ Len(s) \in Nat /\ Len(t) \in Nat /\ DOMAIN s = 1 .. Len(s)
        /\ DOMAIN t = 1 .. Len(t) /\ i \in 1 .. Len(s) + Len(t)
    OBVIOUS
  <1>2. CASE i <= Len(s)
    BY <1>1, <1>2 DEF AllNative
  <1>3. CASE i > Len(s)
    <2>1. (s \o t)[i] = t[i - Len(s)] /\ i - Len(s) \in DOMAIN t
      BY <1>1, <1>3
    <2> QED
      BY <2>1 DEF AllNative
  <1> QED
    BY <1>1, <1>2, <1>3

\* A route that is run without a bridge has native middleware only.
LEMMA NativeWay ==
  ASSUME TypeOK, NEW q \in Request, Way(q) = "native"
  PROVE  g[q].hit = "route" /\ AllNative(Chain(q))
  <1>1. g[q].hit = "route" /\ NativeRoute
    BY DEF Way
  <1>2. app.global \in Seq(Kind) /\ app.route \in Seq(Kind)
    BY ChainType
  <1>3. AllNative(<<>>)
    BY DEF AllNative
  <1>4. AllNative(app.global) /\ AllNative(app.route)
    BY <1>1, <1>3 DEF NativeRoute, Direct
  <1> QED
    BY <1>1, <1>2, <1>4, ConcatNative DEF Chain

LEMMA DispatchOK ==
  ASSUME IInv, NEW q \in Request, Dispatch(q) PROVE IInv'
  <1> DEFINE way == Way(q)
             bridged == way = "marked" \/ (way = "stdlib" /\ app.bridge)
             r == IF bridged THEN Fresh(q) ELSE 1
  <1>1. /\ g[q].pc = "dispatch" /\ Active(q) /\ UNCHANGED <<app, pool, wr, buf, client, log>>
        /\ bridged => Copy(q, 1, g[q].c, {}) /\ SetReq(q, Fresh(q))
        /\ ~bridged => UNCHANGED <<reqs, ctx>>
        /\ reg' = IF bridged \/ way = "native" THEN reg ELSE [reg EXCEPT ![q] = {<<1, g[q].c>>}]
        /\ g' = [g EXCEPT ![q].pc = "down", ![q].way = way, ![q].r = r]
    BY DEF Dispatch, Active
  <1>2. /\ TypeOK /\ RequestOK(q) /\ Owns(q) /\ g[q].c \in Ctx /\ g[q] \in Goroutine
        /\ ctx[g[q].c] \in CtxState
    BY <1>1, OwnCtx
  <1>3. /\ reg[q] = {} /\ g[q].stack = <<>> /\ ~log[q].lost /\ ~log[q].ran
        /\ reqs[q] = <<[by |-> None, values |-> {}]>> /\ ctx[g[q].c].req = 1
    BY <1>1, <1>2 DEF RequestOK, StageOK
  <1>4. /\ way \in {"native", "stdlib", "marked", "mux"}
        /\ g[q].hit # "route" => way = "stdlib"
        /\ way = "native" => AllNative(Chain(q))
    BY <1>2, NativeWay DEF Way
  <1>5. 1 \in DOMAIN reqs[q] /\ reqs[q][1].by = None
        /\ \A i \in DOMAIN reqs[q] : reqs[q][i].by = None
    BY <1>3
  <1>6. g[q].c # None
    BY <1>2, NoneAssumption
  <1>7. bridged => Copied(q, 1, g[q].c, {})
    BY <1>1, <1>2, <1>5, CopyFacts
  <1> HIDE DEF way
  <1>8. /\ r \in Nat /\ r \in DOMAIN reqs'[q] /\ reqs' \in [Request -> Seq(Pointer)]
        /\ \A p \in Request \ {q} : reqs'[p] = reqs[p]
        /\ bridged => reqs'[q][r].by # None
    BY <1>1, <1>2, <1>5, <1>6, <1>7 DEF Copied, TypeOK
  <1>9. /\ Touches(g[q].c) /\ ctx'[g[q].c].req = r
    <2>1. CASE bridged
      <3>1. [ctx[g[q].c] EXCEPT !.req = Fresh(q)] \in CtxState
        BY <1>2, <1>7, <2>1 DEF CtxState, Copied
      <3>2. ctx' = [ctx EXCEPT ![g[q].c] = [ctx[g[q].c] EXCEPT !.req = Fresh(q)]]
        BY <1>1, <2>1 DEF SetReq
      <3>3. ctx \in [Ctx -> CtxState]
        BY <1>2 DEF TypeOK, CtxState
      <3>4. /\ ctx' \in [Ctx -> CtxState]
            /\ ctx'[g[q].c] = [ctx[g[q].c] EXCEPT !.req = Fresh(q)]
            /\ \A d \in Ctx \ {g[q].c} : ctx'[d] = ctx[d]
        BY <1>2, <3>1, <3>2, <3>3
      <3>5. ctx'[g[q].c].req = Fresh(q)
        BY <1>2, <3>4 DEF CtxState
      <3> QED
        BY <2>1, <3>4, <3>5 DEF Touches
    <2>2. CASE ~bridged
      BY <1>1, <1>2, <1>3, <2>2 DEF Touches, TypeOK, CtxState
    <2> QED
      BY <2>1, <2>2
  <1>10. /\ reg' \in [Request -> SUBSET (Nat \X Ctx)]
         /\ \A p \in Request \ {q} : reg'[p] = reg[p]
         /\ reg'[q] = IF bridged \/ way = "native" THEN {} ELSE {<<1, g[q].c>>}
    <2>1. {<<1, g[q].c>>} \in SUBSET (Nat \X Ctx)
      BY <1>2
    <2> QED
      BY <1>1, <1>2, <1>3, <2>1 DEF TypeOK
  <1> DEFINE v == [g[q] EXCEPT !.pc = "down", !.way = way, !.r = r]
  <1>11. Moves(q, v)
    <2>1. v \in Goroutine
      BY <1>1, <1>2, <1>4, <1>8 DEF Goroutine
    <2> QED
      BY <1>1, <1>2, <2>1 DEF Moves, TypeOK
  <1>12. /\ v.pc = "down" /\ v.c = g[q].c /\ v.way = way /\ v.hit = g[q].hit /\ v.r = r
         /\ v.stack = <<>>
    BY <1>2, <1>3 DEF Goroutine
  <1> HIDE DEF v
  <1>13. g'[q] = v /\ Chain(q)' = Chain(q) /\ Owns(q)' /\ Len(v.stack) = 0
         /\ Len(Chain(q)) \in Nat /\ (Bridged(q)' <=> bridged)
    <2>1. g'[q] = v
      BY <1>2, <1>11, MoveFacts
    <2> QED
      BY <1>1, <1>2, <1>12, <2>1, ChainType DEF Chain, Owns, Active, Bridged
  <1> HIDE DEF r, bridged
  <1>14. StageOK(q)'
    BY <1>4, <1>8, <1>9, <1>12, <1>13 DEF StageOK
  <1>15. RegOK(q)'
    BY <1>1, <1>4, <1>5, <1>9, <1>10, <1>12, <1>13 DEF RegOK, bridged, r
  <1>16. FoundOK(q)'
    <2>1. way = "native" \/ bridged \/ (reg'[q] = {<<1, g[q].c>>} /\ r = 1)
      BY <1>10 DEF r
    <2>2. reg'[q] = {<<1, g[q].c>>} /\ r = 1 => \E e \in reg'[q] : e[1] = r
      OBVIOUS
    <2>3. bridged => reqs'[q][r].by # None
      BY <1>8
    <2>4. Known(q)'
      BY <1>12, <1>13, <2>1, <2>2, <2>3 DEF Known, Found
    <2> QED
      BY <1>12, <1>13, <2>3, <2>4 DEF FoundOK
  <1>17. ValuesOK(q)'
    BY <1>4, <1>12, <1>13 DEF ValuesOK, AllNative
  <1>18. LogOK(q)'
    BY <1>1, <1>3 DEF LogOK
  <1>19. ResponseType' /\ Recalls(q, log[q])
    BY <1>1, <1>2, LogStays DEF ResponseType, TypeOK, WrapperState
  <1>20. RequestOK(q)'
    BY <1>14, <1>15, <1>16, <1>17, <1>18 DEF RequestOK
  <1> QED
    BY <1>1, <1>2, <1>8, <1>9, <1>10, <1>11, <1>12, <1>19, <1>20, OwnStep

\* The hooks before it.
LEMMA RunOnRequestOK ==
  ASSUME IInv, NEW q \in Request, RunOnRequest(q) PROVE IInv'
  <1> DEFINE v == [g[q] EXCEPT !.pc = "dispatch"]
  <1>1. /\ g[q].pc = "hooks" /\ Active(q)
        /\ UNCHANGED <<app, pool, ctx, reg, reqs, wr, buf, client, log>>
    BY DEF RunOnRequest, Active
  <1>2. TypeOK /\ RequestOK(q) /\ Owns(q) /\ g[q].c \in Ctx /\ g[q] \in Goroutine
    BY <1>1, OwnCtx
  <1>3. Moves(q, v)
    <2>1. v \in Goroutine
      BY <1>1, <1>2 DEF Goroutine
    <2> QED
      BY <1>2, <2>1 DEF Moves, TypeOK, RunOnRequest
  <1>4. /\ v.pc = "dispatch" /\ v.c = g[q].c /\ v.way = g[q].way /\ v.hit = g[q].hit
        /\ v.r = g[q].r /\ v.stack = g[q].stack
    BY <1>2 DEF Goroutine
  <1> HIDE DEF v
  <1>5. g'[q] = v
    BY <1>2, <1>3, MoveFacts
  <1>6. StageOK(q)' /\ FoundOK(q)' /\ ValuesOK(q)' /\ LogOK(q)' /\ RegOK(q)'
    BY <1>1, <1>2, <1>4, <1>5 DEF RequestOK, StageOK, FoundOK, ValuesOK, LogOK, RegOK
  <1>7. RequestOK(q)'
    BY <1>6 DEF RequestOK
  <1>8. ResponseType' /\ Recalls(q, log[q]) /\ Touches(g[q].c)
    BY <1>1, <1>2, LogStays, CtxStays DEF ResponseType, TypeOK, WrapperState, CtxKept
  <1> QED
    BY <1>1, <1>2, <1>3, <1>4, <1>7, <1>8, OwnStep DEF TypeOK

----------------------------------------------------------------------------
(* The pool.                                                                *)

\* A *Context is taken by one request only.
LEMMA BeginOK ==
  ASSUME IInv, NEW q \in Request, Begin(q) PROVE IInv'
  <1>1. /\ g[q].pc = "arrive" /\ UNCHANGED <<app, reg, wr, buf, client, log>>
        /\ reqs' = [reqs EXCEPT ![q] = <<[by |-> None, values |-> {}]>>]
    BY DEF Begin
  <1>2. PICK c \in pool, hit \in {"route", "none", "mount"} :
           /\ pool' = pool \ {c}
           /\ ctx' = [ctx EXCEPT ![c] = [req |-> 1, res |-> Base(q), written |-> FALSE]]
           /\ g' = [g EXCEPT ![q].pc = "hooks", ![q].c = c, ![q].hit = hit, ![q].r = 1,
                             ![q].w = Base(q)]
    BY DEF Begin
  <1>3. TypeOK /\ RequestOK(q) /\ g[q] \in Goroutine /\ c \in Ctx
    BY DEF IInv, TypeOK
  <1>4. Base(q) \in Writers
    BY DEF Base, Writers
  <1> DEFINE v == [g[q] EXCEPT !.pc = "hooks", !.c = c, !.hit = hit, !.r = 1, !.w = Base(q)]
  <1>5. Moves(q, v)
    <2>1. v \in Goroutine
      BY <1>1, <1>3, <1>4 DEF Goroutine
    <2> QED
      BY <1>2, <1>3, <2>1 DEF Moves, TypeOK
  <1>6. /\ v.pc = "hooks" /\ v.c = c /\ v.r = 1 /\ v.stack = g[q].stack /\ v.way = g[q].way
    BY <1>3 DEF Goroutine
  <1> HIDE DEF v
  <1>7. /\ g' \in [Request -> Goroutine] /\ g'[q] = v
        /\ \A p \in Request \ {q} : g'[p] = g[p]
    BY <1>3, <1>5, MoveFacts
  <1>8. /\ ctx' \in [Ctx -> CtxState] /\ ctx'[c].req = 1
        /\ \A d \in Ctx \ {c} : ctx'[d] = ctx[d]
    <2>1. [req |-> 1, res |-> Base(q), written |-> FALSE] \in CtxState
      BY <1>4 DEF CtxState
    <2> QED
      BY <1>2, <1>3, <2>1 DEF TypeOK, CtxState
  <1>9. /\ reqs' \in [Request -> Seq(Pointer)] /\ reqs'[q] = <<[by |-> None, values |-> {}]>>
        /\ \A p \in Request \ {q} : reqs'[p] = reqs[p]
    <2>1. [by |-> None, values |-> {}] \in Pointer
      BY DEF Pointer
    <2>2. <<[by |-> None, values |-> {}]>> \in Seq(Pointer)
      BY <2>1
    <2> QED
      BY <1>1, <1>3, <2>2 DEF TypeOK
  <1>10. TypeOK'
    BY <1>1, <1>2, <1>3, <1>7, <1>8, <1>9 DEF TypeOK, CtxState
  <1>11. \A p \in Request \ {q} : (Owns(p)' <=> Owns(p)) /\ (Owns(p) => g[p].c \in Ctx \ pool)
    BY <1>7 DEF Owns, Active, IInv, Ownership
  <1>12. Ownership'
    <2>1. ASSUME NEW p \in Request, Owns(p)' PROVE g'[p].c \in Ctx \ pool'
      BY <1>2, <1>3, <1>6, <1>7, <1>11, <2>1
    <2>2. ASSUME NEW p \in Request, NEW s \in Request, Owns(p)', Owns(s)', p # s
          PROVE  g'[p].c # g'[s].c
      <3>1. CASE p = q
        BY <1>6, <1>7, <1>11, <2>2, <3>1
      <3>2. CASE s = q
        BY <1>6, <1>7, <1>11, <2>2, <3>2
      <3>3. CASE p # q /\ s # q
        BY <1>7, <1>11, <2>2, <3>3 DEF IInv, Ownership
      <3> QED
        BY <3>1, <3>2, <3>3
    <2> QED
      BY <2>1, <2>2 DEF Ownership
  <1>13. RequestOK(q)'
    <2>1. /\ reg[q] = {} /\ g[q].stack = <<>> /\ g[q].way = "none"
          /\ ~log[q].lost /\ ~log[q].ran
      BY <1>1, <1>3 DEF RequestOK, StageOK
    <2>2. StageOK(q)'
      BY <1>1, <1>6, <1>7, <1>8, <1>9, <2>1 DEF StageOK
    <2>3. RegOK(q)' /\ FoundOK(q)' /\ ValuesOK(q)' /\ LogOK(q)'
      BY <1>1, <1>6, <1>7, <2>1 DEF RegOK, FoundOK, ValuesOK, LogOK
    <2> QED
      BY <2>2, <2>3 DEF RequestOK
  <1>14. ASSUME NEW p \in Request \ {q} PROVE RequestOK(p)'
    <2>1. Owns(p) => ctx'[g[p].c] = ctx[g[p].c]
      BY <1>8, <1>11
    <2> QED
      BY <1>1, <1>7, <1>9, <2>1, OthersStay
  <1> QED
    BY <1>10, <1>12, <1>13, <1>14 DEF IInv

\* It is put back when its request no longer uses it; the registry is empty then.
LEMMA FinishOK ==
  ASSUME IInv, NEW q \in Request, Finish(q) PROVE IInv'
  <1> DEFINE v == [g[q] EXCEPT !.pc = "done"]
  <1>1. /\ g[q].pc = "finish" /\ Active(q) /\ UNCHANGED <<app, ctx, reqs, wr, buf, log>>
        /\ g' = [g EXCEPT ![q].pc = "done"]
        /\ client' = IF Has("OnSend") THEN Flushed(q) ELSE client
        /\ reg' = CASE g[q].way = "mux" -> Unregister(q, 1)
                    [] g[q].way = "stdlib" /\ ~app.bridge -> Unregister(q, ctx[g[q].c].req)
                    [] OTHER -> reg
        /\ pool' = pool \/ pool' = pool \cup {g[q].c}
    BY DEF Finish, Active
  <1>2. /\ TypeOK /\ RequestOK(q) /\ Owns(q) /\ g[q].c \in Ctx /\ g[q] \in Goroutine
        /\ g[q].out \in {"ok", "err", "panic"}
    BY <1>1, OwnCtx
  <1>3. Moves(q, v)
    <2>1. v \in Goroutine
      BY <1>2 DEF Goroutine
    <2> QED
      BY <1>1, <1>2, <2>1 DEF Moves, TypeOK
  <1>4. v.pc = "done" /\ v.c = g[q].c /\ v.way = g[q].way /\ v.hit = g[q].hit
        /\ v.out # "sendPanic"
    BY <1>2 DEF Goroutine
  <1> HIDE DEF v
  <1>5. /\ g' \in [Request -> Goroutine] /\ g'[q] = v
        /\ \A p \in Request \ {q} : g'[p] = g[p]
    BY <1>2, <1>3, MoveFacts
  <1>6. client' \in [Request -> Output]
    <2>1. buf[q].out \in Output /\ client[q] \in Output
      BY <1>2 DEF TypeOK
    <2>2. Effective(buf[q].out.status) \in Status /\ buf[q].out.body \in Seq(Token)
      BY <2>1 DEF Effective, Output, Status
    <2>3. Put(client[q], Effective(buf[q].out.status), buf[q].out.body) \in Output
      BY <2>1, <2>2, PutType
    <2>4. Flushed(q) \in [Request -> Output]
      BY <1>2, <2>3 DEF Flushed, TypeOK
    <2> QED
      BY <1>1, <1>2, <2>4 DEF TypeOK
  <1>7. /\ reg' \in [Request -> SUBSET (Nat \X Ctx)] /\ reg'[q] = {}
        /\ \A p \in Request \ {q} : reg'[p] = reg[p]
    <2>1. /\ \A e \in reg[q] : e[1] = 1
          /\ reg[q] # {} => \/ g[q].way = "mux"
                            \/ g[q].way = "stdlib" /\ ~app.bridge /\ ctx[g[q].c].req = 1
      BY <1>2 DEF RequestOK, RegOK
    <2>2. CASE reg[q] = {}
      BY <1>1, <1>2, <2>2 DEF Unregister, TypeOK
    <2>3. CASE reg[q] # {}
      <3>1. reg' = Unregister(q, 1)
        BY <1>1, <2>1, <2>3
      <3> QED
        BY <1>2, <2>1, <3>1 DEF Unregister, TypeOK
    <2> QED
      BY <2>2, <2>3
  <1>8. TypeOK'
    BY <1>1, <1>2, <1>5, <1>6, <1>7 DEF TypeOK
  <1>9. ~Owns(q)' /\ \A p \in Request \ {q} : Owns(p)' <=> Owns(p)
    BY <1>4, <1>5 DEF Owns, Active
  <1>10. Ownership'
    BY <1>1, <1>2, <1>5, <1>9 DEF IInv, Ownership
  <1>11. RequestOK(q)'
    <2>1. Chain(q)' = Chain(q) /\ \A i : Sets(q, i)' = Sets(q, i)
      BY <1>1, <1>4, <1>5 DEF Chain, Sets
    <2>2. LogOK(q)'
      BY <1>1, <1>2, <1>4, <1>5, <2>1 DEF RequestOK, LogOK, MayLose, Reached
    <2>3. StageOK(q)' /\ RegOK(q)' /\ FoundOK(q)' /\ ValuesOK(q)'
      BY <1>4, <1>5, <1>7 DEF StageOK, RegOK, FoundOK, ValuesOK
    <2> QED
      BY <2>2, <2>3 DEF RequestOK
  <1>12. ASSUME NEW p \in Request \ {q} PROVE RequestOK(p)'
    BY <1>1, <1>5, <1>7, OthersStay
  <1> QED
    BY <1>8, <1>10, <1>11, <1>12 DEF IInv

\* An OnSend hook that panics leaves the *Context and the registry as they are.
LEMMA SendPanicsOK ==
  ASSUME IInv, NEW q \in Request, SendPanics(q) PROVE IInv'
  <1> DEFINE v == [g[q] EXCEPT !.pc = "done", !.out = "sendPanic"]
  <1>1. /\ Active(q) /\ UNCHANGED <<app, pool, ctx, reg, reqs, wr, buf, client, log>>
        /\ g' = [g EXCEPT ![q].pc = "done", ![q].out = "sendPanic"]
    BY DEF SendPanics, Active
  <1>2. TypeOK /\ RequestOK(q) /\ Owns(q) /\ g[q].c \in Ctx /\ g[q] \in Goroutine
    BY <1>1, OwnCtx
  <1>3. Moves(q, v)
    <2>1. v \in Goroutine
      BY <1>2 DEF Goroutine
    <2> QED
      BY <1>1, <1>2, <2>1 DEF Moves, TypeOK
  <1>4. v.pc = "done" /\ v.c = g[q].c /\ v.way = g[q].way /\ v.hit = g[q].hit
        /\ v.out = "sendPanic"
    BY <1>2 DEF Goroutine
  <1> HIDE DEF v
  <1>5. g'[q] = v
    BY <1>2, <1>3, MoveFacts
  <1>6. Chain(q)' = Chain(q) /\ (\A i : Sets(q, i)' = Sets(q, i)) /\ Owns(q)'
    BY <1>1, <1>4, <1>5 DEF Chain, Sets, Owns
  <1>7. LogOK(q)'
    BY <1>1, <1>2, <1>4, <1>5, <1>6 DEF RequestOK, LogOK, MayLose, Reached
  <1>8. StageOK(q)' /\ FoundOK(q)' /\ ValuesOK(q)'
    BY <1>4, <1>5 DEF StageOK, FoundOK, ValuesOK
  <1>9. RegOK(q)'
    BY <1>1, <1>2, <1>4, <1>5, <1>6 DEF RequestOK, RegOK
  <1>10. RequestOK(q)'
    BY <1>7, <1>8, <1>9 DEF RequestOK
  <1>11. ResponseType' /\ Recalls(q, log[q]) /\ Touches(g[q].c)
    BY <1>1, <1>2, LogStays, CtxStays DEF ResponseType, TypeOK, WrapperState, CtxKept
  <1> QED
    BY <1>1, <1>2, <1>3, <1>4, <1>10, <1>11, OwnStep DEF TypeOK

\* A redirect needs no *Context.
LEMMA RedirectOK ==
  ASSUME IInv, NEW q \in Request, Redirect(q) PROVE IInv'
  <1> DEFINE v == [g[q] EXCEPT !.pc = "done"]
             m == [log[q] EXCEPT !.due = [status |-> "301", body |-> <<>>]]
  <1>1. /\ g[q].pc = "arrive" /\ UNCHANGED <<app, pool, ctx, reg, reqs, wr, buf>>
        /\ g' = [g EXCEPT ![q].pc = "done"]
        /\ client' = [client EXCEPT ![q] = Put(client[q], "301", <<>>)]
        /\ log' = [log EXCEPT ![q].due = [status |-> "301", body |-> <<>>]]
    BY DEF Redirect
  <1>2. TypeOK /\ RequestOK(q) /\ g[q] \in Goroutine /\ log[q] \in Memory
    BY DEF IInv, TypeOK
  <1>3. Moves(q, v)
    <2>1. v \in Goroutine
      BY <1>2 DEF Goroutine
    <2> QED
      BY <1>1, <1>2, <2>1 DEF Moves, TypeOK
  <1>4. v.pc = "done" /\ v.out # "sendPanic"
    BY <1>1, <1>2 DEF Goroutine
  <1>5. Recalls(q, m)
    <2>1. [status |-> "301", body |-> <<>>] \in Output
      BY DueType DEF Status
    <2>2. m \in Memory
      BY <1>2, <2>1 DEF Memory
    <2> QED
      BY <1>1, <1>2, <2>2 DEF Recalls, TypeOK
  <1>6. m.lost = log[q].lost /\ m.ran = log[q].ran
    BY <1>2 DEF Memory
  <1> HIDE DEF v, m
  <1>7. /\ g' \in [Request -> Goroutine] /\ g'[q] = v
        /\ \A p \in Request \ {q} : g'[p] = g[p]
        /\ log' \in [Request -> Memory] /\ log'[q] = m
        /\ \A p \in Request \ {q} : log'[p] = log[p]
    BY <1>2, <1>3, <1>5, MoveFacts, RecallFacts
  <1>8. client' \in [Request -> Output]
    <2>1. "301" \in Status /\ <<>> \in Seq(Token) /\ client[q] \in Output
      BY <1>2 DEF Status, TypeOK
    <2>2. Put(client[q], "301", <<>>) \in Output
      BY <2>1, PutType
    <2> QED
      BY <1>1, <1>2, <2>2 DEF TypeOK
  <1>9. TypeOK'
    BY <1>1, <1>2, <1>7, <1>8 DEF TypeOK
  <1>10. ~Owns(q)' /\ \A p \in Request \ {q} : Owns(p)' <=> Owns(p)
    BY <1>4, <1>7 DEF Owns, Active
  <1>11. Ownership'
    BY <1>1, <1>7, <1>10 DEF IInv, Ownership
  <1>12. RequestOK(q)'
    <2>1. reg[q] = {} /\ ~log[q].lost /\ ~log[q].ran
      BY <1>1, <1>2 DEF RequestOK, StageOK
    <2>2. StageOK(q)' /\ RegOK(q)' /\ FoundOK(q)' /\ ValuesOK(q)' /\ LogOK(q)'
      BY <1>1, <1>4, <1>6, <1>7, <2>1 DEF StageOK, RegOK, FoundOK, ValuesOK, LogOK
    <2> QED
      BY <2>2 DEF RequestOK
  <1>13. ASSUME NEW p \in Request \ {q} PROVE RequestOK(p)'
    BY <1>1, <1>7, OthersStay
  <1> QED
    BY <1>9, <1>11, <1>12, <1>13 DEF IInv

----------------------------------------------------------------------------
(* The invariant, and what follows from it.                                 *)

LEMMA InitIInv ==
  ASSUME Init PROVE IInv
  <1>1. Blank \in Output /\ Nil \in Writers /\ <<>> \in Seq(Frame) /\ <<>> \in Seq(Pointer)
    BY DEF Blank, Output, Status, Writers
  <1>2. Free \in WrapperState
    BY <1>1 DEF Free, WrapperState
  <1>3. [pc |-> "arrive", c |-> None, hit |-> "none", way |-> "none", r |-> 0, w |-> Nil,
         stack |-> <<>>, out |-> "ok"] \in Goroutine
    BY <1>1 DEF Goroutine
  <1>4. [due |-> Blank, exact |-> TRUE, raw |-> FALSE, values |-> {}, ran |-> FALSE,
         lost |-> FALSE, seen |-> {}] \in Memory
    BY <1>1 DEF Memory
  <1>5. TypeOK
    BY <1>1, <1>2, <1>3, <1>4 DEF Init, TypeOK, WrapperState
  <1>6. \A q \in Request : /\ g[q].pc = "arrive" /\ g[q].out = "ok" /\ reg[q] = {}
                           /\ g[q].stack = <<>> /\ g[q].way = "none"
                           /\ ~log[q].lost /\ ~log[q].ran
    BY DEF Init
  <1>7. Ownership
    BY <1>6 DEF Ownership, Owns, Active
  <1>8. ASSUME NEW q \in Request PROVE RequestOK(q)
    <2>1. StageOK(q)
      BY <1>6 DEF StageOK
    <2>2. RegOK(q) /\ FoundOK(q) /\ ValuesOK(q) /\ LogOK(q)
      BY <1>6 DEF RegOK, FoundOK, ValuesOK, LogOK
    <2> QED
      BY <2>1, <2>2 DEF RequestOK
  <1> QED
    BY <1>5, <1>7, <1>8 DEF IInv

\* Every step of every request keeps the invariant.
LEMMA NextIInv ==
  ASSUME IInv, [Next]_vars PROVE IInv'
  <1>1. CASE UNCHANGED vars
    <2>1. TypeOK' /\ Ownership'
      BY <1>1 DEF IInv, TypeOK, Ownership, Owns, Active, vars
    <2>2. ASSUME NEW p \in Request PROVE RequestOK(p)'
      BY <1>1, OthersStay DEF vars
    <2> QED
      BY <2>1, <2>2 DEF IInv
  <1>2. ASSUME NEW q \in Request, Begin(q) \/ Redirect(q) PROVE IInv'
    BY <1>2, BeginOK, RedirectOK
  <1>3. ASSUME NEW q \in Request, RunOnRequest(q) \/ OnRequestFails(q) \/ OnRequestPanics(q)
        PROVE  IInv'
    BY <1>3, RunOnRequestOK, HooksFail
  <1>4. ASSUME NEW q \in Request, Dispatch(q) PROVE IInv'
    BY <1>4, DispatchOK
  <1>5. ASSUME NEW q \in Request,
               EnterPlain(q) \/ EnterValue(q) \/ EnterValueLost(q) \/ Reject(q) \/ EnterWriter(q)
        PROVE  IInv'
    BY <1>5, EnterPlainOK, EnterValueOK, EnterValueLostOK, RejectOK, EnterWriterOK
  <1>6. ASSUME NEW q \in Request,
               \/ HandlerLost(q) \/ HandlerAnswers(q) \/ HandlerStreams(q)
               \/ HandlerFails(q) \/ HandlerPanics(q)
        PROVE  IInv'
    BY <1>6, HandlerLostOK, HandlerOK, StreamOK
  <1>7. ASSUME NEW q \in Request, NotFound(q) \/ MountSilent(q) PROVE IInv'
    BY <1>7, NotFoundOK DEF NotFound, MountSilent
  <1>8. ASSUME NEW q \in Request, MountAnswers(q) \/ MountSilentLost(q) \/ MountPanics(q)
        PROVE  IInv'
    BY <1>8, MountOK
  <1>9. ASSUME NEW q \in Request,
               \/ LeavePlain(q) \/ LeaveRecorder(q) \/ LeaveCapture(q) \/ DropCapture(q)
               \/ Recover(q)
        PROVE  IInv'
    BY <1>9, LeavePlainOK, LeaveRecorderOK, CaptureOK, RecoverOK
  <1>10. ASSUME NEW q \in Request, AnswerError(q) \/ Return(q) PROVE IInv'
    BY <1>10, ReturnOK
  <1>11. ASSUME NEW q \in Request, Finish(q) \/ SendPanics(q) PROVE IInv'
    BY <1>11, FinishOK, SendPanicsOK
  <1> QED
    BY <1>1, <1>2, <1>3, <1>4, <1>5, <1>6, <1>7, <1>8, <1>9, <1>10, <1>11 DEF Next

LEMMA Invariance == Spec => []IInv
  BY InitIInv, NextIInv, PTL DEF Spec

\* Requests, contexts, wrappers and responses are well formed in every reachable state.
THEOREM TypeCorrect == Spec => []TypeOK
  <1>1. IInv => TypeOK
    BY DEF IInv
  <1> QED
    BY <1>1, Invariance, PTL

\* ctxPool: while a request is being served, no other request has its *Context and the
\* pool does not hold it, whatever returns, fails or panics on the way.
THEOREM ContextOwned == Spec => []Ownership
  <1>1. IInv => Ownership
    BY DEF IInv
  <1> QED
    BY <1>1, Invariance, PTL

\* requestContextRegistry: an entry is of a request that is being served (or whose OnSend
\* hook panicked), leads to its own *Context, and stands under the pointer that
\* the end of ServeHTTP deletes.
THEOREM RegistryIsExact == Spec => []RegistryExact
  <1>1. IInv => RegistryExact
    BY DEF IInv, RequestOK, RegOK, RegistryExact, Owns
  <1> QED
    BY <1>1, Invariance, PTL

\* contextFromRequest: whatever the middleware, the *Context is lost to a handler only
\* behind a middleware that forwards another request, and behind the bridge only where
\* serveDirect gives a dynamic route to the mux.
THEOREM ContextIsKept == Spec => []ContextKept
  <1>1. IInv => ContextKept
    BY DEF IInv, RequestOK, LogOK, MayLose, ContextKept
  <1> QED
    BY <1>1, Invariance, PTL

\* SetContextValue, BindRequest and SetContext: whatever the chain, the values of the
\* middleware before a handler are in the request that the handler sees.
THEOREM ValuesReach == Spec => []ValuesReachHandler
  <1>1. IInv => ValuesReachHandler
    BY DEF IInv, RequestOK, LogOK, Reached, Sets, ValuesReachHandler
  <1> QED
    BY <1>1, Invariance, PTL

----------------------------------------------------------------------------
(* Responses.  The wrappers that a request holds are those of the frames of *)
(* its stack; Taken are the ones of some kinds after the first i frames.    *)

Recorders == {"log", "metrics"}
Captors == {"etag"}
Taken(s, kinds, i) == {s[j].x : j \in {k \in DOMAIN s : k > i /\ s[k].kind \in kinds}}
Outer(b, X) == {b} \cup {Wrap(x) : x \in X}

\* A frame f that passed w on, around the outermost writer b and the wrappers X of the
\* frames outside it: E of them captures, R recorders.  It received a writer from outside;
\* its own wrapper is nobody else's, and leads to one of those places.
FrameOK(b, f, w, X, E, R, wrs, native) ==
    /\ f.w \in Outer(b, X)
    /\ f.kind \notin Writing => w = f.w
    /\ f.kind \in Writing =>
         /\ w = Wrap(f.x) /\ f.x \notin X
         /\ wrs[f.x].busy /\ wrs[f.x].kind = f.kind
         /\ native => f.back = f.w
    /\ f.kind \in Captors => wrs[f.x].sink = Wrap(f.x) /\ wrs[f.x].thru = {}
    /\ f.kind \in Recorders =>
         wrs[f.x].sink \in Outer(b, E) /\ wrs[f.x].thru \subseteq R \cup {f.x}

FramesOK(b, s, w, wrs, native) ==
    \A i \in DOMAIN s :
        FrameOK(b, s[i], IF i = 1 THEN w ELSE s[i - 1].w, Taken(s, Writing, i),
                Taken(s, Captors, i), Taken(s, Recorders, i), wrs, native)

\* The indices of a stack and of its tail.
LEMMA StackIndex ==
  ASSUME NEW s \in Seq(Frame), s # <<>>
  PROVE  /\ Tail(s) \in Seq(Frame) /\ Head(s) \in Frame /\ Head(s) = s[1]
         /\ Len(s) \in Nat \ {0} /\ Len(Tail(s)) = Len(s) - 1
         /\ DOMAIN s = 1 .. Len(s) /\ DOMAIN Tail(s) = 1 .. (Len(s) - 1)
         /\ \A i \in DOMAIN Tail(s) : i \in Nat \ {0} /\ i + 1 \in DOMAIN s /\ Tail(s)[i] = s[i + 1]
         /\ \A i \in DOMAIN s : i = 1 \/ (i - 1 \in DOMAIN Tail(s) /\ Tail(s)[i - 1] = s[i])
  <1>1. Tail(s) \in Seq(Frame) /\ Head(s) \in Frame /\ Head(s) = s[1]
    OBVIOUS
  <1>2. Len(s) \in Nat \ {0} /\ DOMAIN s = 1 .. Len(s) /\ Len(Tail(s)) = Len(s) - 1
    OBVIOUS
  <1>3. DOMAIN Tail(s) = 1 .. (Len(s) - 1)
    BY <1>1, <1>2
  <1>4. \A i \in 1 .. (Len(s) - 1) : Tail(s)[i] = s[i + 1]
    OBVIOUS
  <1> QED
    BY <1>1, <1>2, <1>3, <1>4

\* A frame that is pushed is on top of the stack that was there.
LEMMA Pushed ==
  ASSUME NEW t \in Seq(Frame), NEW f \in Frame
  PROVE  /\ <<f>> \o t \in Seq(Frame) /\ <<f>> \o t # <<>>
         /\ Head(<<f>> \o t) = f /\ Tail(<<f>> \o t) = t
  <1>1. <<f>> \o t \in Seq(Frame) /\ Len(<<f>> \o t) = Len(t) + 1 /\ <<f>> \o t # <<>>
    OBVIOUS
  <1>2. Head(<<f>> \o t) = f
    OBVIOUS
  <1>3. Tail(<<f>> \o t) = t
    <2>1. Tail(<<f>> \o t) \in Seq(Frame) /\ Len(Tail(<<f>> \o t)) = Len(t)
      BY <1>1
    <2>2. \A i \in 1 .. Len(t) : Tail(<<f>> \o t)[i] = t[i]
      BY <1>1
    <2> QED
      BY <2>1, <2>2, SeqEqual
  <1> QED
    BY <1>1, <1>2, <1>3

\* What is taken in a stack and in its tail.
LEMMA TakenSplit ==
  ASSUME NEW s \in Seq(Frame), s # <<>>, NEW kinds
  PROVE  /\ Taken(s, kinds, 0) = Taken(Tail(s), kinds, 0)
                                 \cup (IF Head(s).kind \in kinds THEN {Head(s).x} ELSE {})
         /\ \A i \in Nat : Taken(s, kinds, i + 1) = Taken(Tail(s), kinds, i)
  <1> DEFINE t == Tail(s)
  <1>1. /\ Head(s) = s[1] /\ 1 \in DOMAIN s
        /\ \A i \in DOMAIN t : i \in Nat \ {0} /\ i + 1 \in DOMAIN s /\ t[i] = s[i + 1]
        /\ \A i \in DOMAIN s : i \in Nat \ {0} /\ (i = 1 \/ (i - 1 \in DOMAIN t /\ t[i - 1] = s[i]))
    BY StackIndex
  <1> HIDE DEF t
  <1>2. ASSUME NEW i \in Nat PROVE Taken(s, kinds, i + 1) = Taken(t, kinds, i)
    <2>1. ASSUME NEW x \in Taken(s, kinds, i + 1) PROVE x \in Taken(t, kinds, i)
      <3>1. PICK j \in DOMAIN s : j > i + 1 /\ s[j].kind \in kinds /\ x = s[j].x
        BY <2>1 DEF Taken
      <3>2. j - 1 \in DOMAIN t /\ t[j - 1] = s[j] /\ j - 1 > i
        BY <1>1, <3>1
      <3> QED
        BY <3>1, <3>2 DEF Taken
    <2>2. ASSUME NEW x \in Taken(t, kinds, i) PROVE x \in Taken(s, kinds, i + 1)
      <3>1. PICK j \in DOMAIN t : j > i /\ t[j].kind \in kinds /\ x = t[j].x
        BY <2>2 DEF Taken
      <3>2. j + 1 \in DOMAIN s /\ t[j] = s[j + 1] /\ j + 1 > i + 1
        BY <1>1, <3>1
      <3> QED
        BY <3>1, <3>2 DEF Taken
    <2> QED
      BY <2>1, <2>2
  <1>3. Taken(s, kinds, 0) = Taken(s, kinds, 1) \cup (IF s[1].kind \in kinds THEN {s[1].x} ELSE {})
    <2>1. \A j \in DOMAIN s : j > 0 /\ (j > 1 \/ j = 1)
      BY <1>1
    <2> QED
      BY <1>1, <2>1 DEF Taken
  <1>4. Taken(s, kinds, 1) = Taken(t, kinds, 0)
    BY <1>2
  <1> QED
    BY <1>1, <1>2, <1>3, <1>4 DEF t

LEMMA TakenNone == \A kinds : Taken(<<>>, kinds, 0) = {}
  BY DEF Taken

\* What is taken further out, and of fewer kinds, is taken.
LEMMA TakenMono ==
  ASSUME NEW s \in Seq(Frame), NEW kinds, NEW more, kinds \subseteq more, NEW i \in Nat
  PROVE  Taken(s, kinds, i) \subseteq Taken(s, more, 0)
  <1>1. \A j \in DOMAIN s : j > i => j > 0
    OBVIOUS
  <1> QED
    BY <1>1 DEF Taken

\* Only middleware that writes takes wrappers.
LEMMA TakenType ==
  ASSUME NEW s \in Seq(Frame), NEW kinds, kinds \subseteq Writing, NEW i \in Nat
  PROVE  Taken(s, kinds, i) \subseteq Wrapper
  <1>1. \A j \in DOMAIN s : s[j] \in Frame
    OBVIOUS
  <1> QED
    BY <1>1 DEF Taken, Frame

\* The frames of a stack: the one on top, and those of the tail.
LEMMA FramesSplit ==
  ASSUME NEW s \in Seq(Frame), s # <<>>, NEW b, NEW w, NEW wrs, NEW native
  PROVE  FramesOK(b, s, w, wrs, native) <=>
           /\ FrameOK(b, Head(s), w, Taken(Tail(s), Writing, 0), Taken(Tail(s), Captors, 0),
                      Taken(Tail(s), Recorders, 0), wrs, native)
           /\ FramesOK(b, Tail(s), Head(s).w, wrs, native)
  <1> DEFINE t == Tail(s)
             Below(i) == IF i = 1 THEN w ELSE s[i - 1].w
             Ok(i) == FrameOK(b, s[i], Below(i), Taken(s, Writing, i), Taken(s, Captors, i),
                              Taken(s, Recorders, i), wrs, native)
             Under(i) == IF i = 1 THEN Head(s).w ELSE t[i - 1].w
             TOk(i) == FrameOK(b, t[i], Under(i), Taken(t, Writing, i), Taken(t, Captors, i),
                               Taken(t, Recorders, i), wrs, native)
  <1>1. /\ Head(s) = s[1] /\ 1 \in DOMAIN s
        /\ \A i \in DOMAIN t : i \in Nat \ {0} /\ i + 1 \in DOMAIN s /\ t[i] = s[i + 1]
        /\ \A i \in DOMAIN s : i \in Nat \ {0} /\ (i = 1 \/ i - 1 \in DOMAIN t)
        /\ DOMAIN t = 1 .. (Len(s) - 1) /\ Len(s) \in Nat
    BY StackIndex
  <1>2. \A kinds : \A i \in Nat : Taken(s, kinds, i + 1) = Taken(t, kinds, i)
    BY TakenSplit
  <1> HIDE DEF t
  <1>3. Ok(1) <=> FrameOK(b, Head(s), w, Taken(t, Writing, 0), Taken(t, Captors, 0),
                          Taken(t, Recorders, 0), wrs, native)
    <2>1. \A kinds : Taken(s, kinds, 1) = Taken(t, kinds, 0)
      BY <1>2
    <2> QED
      BY <1>1, <2>1
  <1>4. ASSUME NEW i \in DOMAIN t PROVE Ok(i + 1) <=> TOk(i)
    <2>1. s[i + 1] = t[i] /\ i \in Nat \ {0}
      BY <1>1
    <2>2. Below(i + 1) = Under(i)
      <3>1. CASE i = 1
        BY <1>1, <3>1
      <3>2. CASE i # 1
        <4>1. i - 1 \in DOMAIN t
          <5>1. DOMAIN t = 1 .. (Len(s) - 1) /\ Len(s) \in Nat /\ i \in DOMAIN t
            BY <1>1
          <5> QED
            BY <2>1, <3>2, <5>1
        <4>2. t[i - 1] = s[i] /\ i + 1 # 1 /\ (i + 1) - 1 = i
          <5>1. t[i - 1] = s[(i - 1) + 1]
            BY <1>1, <4>1
          <5> QED
            BY <2>1, <5>1
        <4> QED
          BY <3>2, <4>2
      <3> QED
        BY <3>1, <3>2
    <2>3. \A kinds : Taken(s, kinds, i + 1) = Taken(t, kinds, i)
      BY <1>2, <2>1
    <2> QED
      BY <2>1, <2>2, <2>3
  <1>5. (\A i \in DOMAIN s : Ok(i)) <=> Ok(1) /\ \A i \in DOMAIN t : TOk(i)
    <2> HIDE DEF Ok, TOk
    <2>1. ASSUME \A i \in DOMAIN s : Ok(i) PROVE Ok(1) /\ \A i \in DOMAIN t : TOk(i)
      BY <1>1, <1>4, <2>1
    <2>2. ASSUME Ok(1), \A i \in DOMAIN t : TOk(i), NEW i \in DOMAIN s PROVE Ok(i)
      <3>1. CASE i = 1
        BY <2>2, <3>1
      <3>2. CASE i # 1
        <4>1. i - 1 \in DOMAIN t /\ (i - 1) + 1 = i
          BY <1>1, <3>2
        <4> QED
          BY <1>4, <2>2, <4>1
      <3> QED
        BY <3>1, <3>2
    <2> QED
      BY <2>1, <2>2
  <1>6. FramesOK(b, s, w, wrs, native) <=> \A i \in DOMAIN s : Ok(i)
    BY DEF FramesOK
  <1>7. FramesOK(b, t, Head(s).w, wrs, native) <=> \A i \in DOMAIN t : TOk(i)
    BY DEF FramesOK
  <1> HIDE DEF Ok, TOk
  <1> QED
    BY <1>3, <1>5, <1>6, <1>7 DEF t

LEMMA FramesNone ==
  ASSUME NEW b, NEW w, NEW wrs, NEW native PROVE FramesOK(b, <<>>, w, wrs, native)
  BY DEF FramesOK

\* The frames depend on the wrappers of the stack only, and not on what these hold.
SameWiring(x, wrs, new) ==
    /\ new[x].busy = wrs[x].busy /\ new[x].kind = wrs[x].kind
    /\ new[x].sink = wrs[x].sink /\ new[x].thru = wrs[x].thru

LEMMA FramesKept ==
  ASSUME NEW s \in Seq(Frame), NEW b, NEW w, NEW wrs, NEW new, NEW native,
         FramesOK(b, s, w, wrs, native), \A x \in Taken(s, Writing, 0) : SameWiring(x, wrs, new)
  PROVE  FramesOK(b, s, w, new, native)
  <1> SUFFICES ASSUME NEW i \in DOMAIN s
               PROVE  FrameOK(b, s[i], IF i = 1 THEN w ELSE s[i - 1].w, Taken(s, Writing, i),
                        Taken(s, Captors, i), Taken(s, Recorders, i), new, native)
    BY DEF FramesOK
  <1>1. s[i].kind \in Writing => s[i].x \in Taken(s, Writing, 0)
    <2>1. i > 0
      OBVIOUS
    <2> QED
      BY <2>1 DEF Taken
  <1>2. s[i].kind \in Captors \cup Recorders => s[i].kind \in Writing
    BY DEF Captors, Recorders, Writing
  <1>3. s[i].kind \in Writing => SameWiring(s[i].x, wrs, new)
    BY <1>1
  <1>4. FrameOK(b, s[i], IF i = 1 THEN w ELSE s[i - 1].w, Taken(s, Writing, i),
                Taken(s, Captors, i), Taken(s, Recorders, i), wrs, native)
    BY DEF FramesOK
  <1> QED
    BY <1>2, <1>3, <1>4 DEF FrameOK, SameWiring

\* Where the wrappers of a stack lead: to the outermost writer or a capture, through recorders.
LEMMA WrapperLeads ==
  ASSUME NEW s \in Seq(Frame), NEW b, NEW w, NEW wrs, NEW native,
         FramesOK(b, s, w, wrs, native), NEW kind \in Writing, NEW x \in Taken(s, {kind}, 0)
  PROVE  /\ wrs[x].busy /\ wrs[x].kind = kind
         /\ wrs[x].sink \in Outer(b, Taken(s, Captors, 0))
         /\ wrs[x].thru \subseteq Taken(s, Recorders, 0)
  <1>1. PICK i \in DOMAIN s : s[i].kind = kind /\ x = s[i].x
    BY DEF Taken
  <1>2. FrameOK(b, s[i], IF i = 1 THEN w ELSE s[i - 1].w, Taken(s, Writing, i),
                Taken(s, Captors, i), Taken(s, Recorders, i), wrs, native)
    BY DEF FramesOK
  <1>3. i \in Nat /\ i > 0
    OBVIOUS
  <1>4. /\ Taken(s, Captors, i) \subseteq Taken(s, Captors, 0)
        /\ Taken(s, Recorders, i) \subseteq Taken(s, Recorders, 0)
    BY <1>3, TakenMono
  <1>5. kind \in Captors => x \in Taken(s, Captors, 0)
    BY <1>1, <1>3 DEF Taken
  <1>6. kind \in Recorders => x \in Taken(s, Recorders, 0)
    BY <1>1, <1>3 DEF Taken
  <1>7. kind \in Captors \/ kind \in Recorders
    BY DEF Writing, Captors, Recorders
  <1>8. wrs[x].busy /\ wrs[x].kind = kind
    BY <1>1, <1>2 DEF FrameOK
  <1>9. CASE kind \in Captors
    BY <1>1, <1>2, <1>5, <1>8, <1>9 DEF FrameOK, Outer
  <1>10. CASE kind \in Recorders
    BY <1>1, <1>2, <1>4, <1>6, <1>8, <1>10 DEF FrameOK, Outer
  <1> QED
    BY <1>7, <1>9, <1>10

LEMMA TakenKinds ==
  ASSUME NEW s \in Seq(Frame), NEW x \in Taken(s, Writing, 0)
  PROVE  \E kind \in Writing : x \in Taken(s, {kind}, 0)
  BY DEF Taken

\* A wrapper is a capture or a recorder, not both.
LEMMA KindsApart ==
  ASSUME NEW s \in Seq(Frame), NEW b, NEW w, NEW wrs, NEW native,
         FramesOK(b, s, w, wrs, native), NEW e \in Taken(s, Captors, 0)
  PROVE  e \notin Taken(s, Recorders, 0) /\ e \notin Taken(s, {"metrics"}, 0)
  <1>1. wrs[e].kind = "etag"
    <2>1. e \in Taken(s, {"etag"}, 0) /\ "etag" \in Writing
      BY DEF Captors, Writing
    <2> QED
      BY <2>1, WrapperLeads
  <1>2. ASSUME e \in Taken(s, Recorders, 0) PROVE FALSE
    <2>1. PICK kind \in Recorders : e \in Taken(s, {kind}, 0)
      BY <1>2 DEF Taken
    <2>2. kind \in Writing /\ kind # "etag"
      BY DEF Recorders, Writing
    <2>3. wrs[e].kind = kind
      BY <2>1, <2>2, WrapperLeads
    <2> QED
      BY <1>1, <2>2, <2>3
  <1>3. Taken(s, {"metrics"}, 0) \subseteq Taken(s, Recorders, 0)
    BY TakenMono DEF Recorders
  <1> QED
    BY <1>2, <1>3

\* What has been written for q where ServeHTTP writes: in the buffer of the OnSend hooks
\* while that is in use, and otherwise at the client.
Front(q) == IF Has("OnSend") /\ ~buf[q].bypassed THEN buf[q].out ELSE client[q]

\* The outermost writer of a request is no wrapper, and no other request's.
LEMMA BaseFacts ==
  ASSUME NEW q \in Request
  PROVE  /\ Base(q) \in Writers /\ Base(q) \in {Client(q), Buf(q)}
         /\ Base(q) = IF Has("OnSend") THEN Buf(q) ELSE Client(q)
         /\ Base(q)[1] # "wrap" /\ \A x : Base(q) # Wrap(x)
         /\ \A p \in Request \ {q} : Base(q) # Client(p) /\ Base(q) # Buf(p)
         /\ Client(q) # Buf(q) /\ Base(q) # Nil
         /\ \A x, y : Wrap(x) = Wrap(y) => x = y
  BY DEF Base, Writers, Client, Buf, Wrap, Nil

\* A writer that a middleware received leads to the outermost writer or to a capture.
LEMMA WriterLeads ==
  ASSUME NEW q \in Request, NEW s \in Seq(Frame), NEW v, NEW native,
         FramesOK(Base(q), s, v, wr, native), NEW w \in Outer(Base(q), Taken(s, Writing, 0))
  PROVE  /\ Sink(w) \in Outer(Base(q), Taken(s, Captors, 0))
         /\ Thru(w) \subseteq Taken(s, Recorders, 0)
  <1>1. CASE w = Base(q)
    BY <1>1, BaseFacts DEF Sink, Thru, Outer
  <1>2. ASSUME NEW x \in Taken(s, Writing, 0), w = Wrap(x)
        PROVE  /\ Sink(w) \in Outer(Base(q), Taken(s, Captors, 0))
               /\ Thru(w) \subseteq Taken(s, Recorders, 0)
    <2>1. PICK kind \in Writing : x \in Taken(s, {kind}, 0)
      BY TakenKinds
    <2>2. Sink(w) = wr[x].sink /\ Thru(w) = wr[x].thru
      BY <1>2 DEF Sink, Thru, Wrap
    <2> QED
      BY <2>1, <2>2, WrapperLeads
  <1> QED
    BY <1>1, <1>2 DEF Outer

\* Writing through w reaches the front of q, or is caught by e; the recorders on the way
\* remember the status.
Reaches(q, w, st, body, wrs) ==
    /\ Sink(w) = Base(q)
    /\ Front(q)' = Put(Front(q), st, body)
    /\ \A x \in Thru(w) : wr'[x] = [wrs[x] EXCEPT !.out = Put(@, st, <<>>)]
    /\ \A x \in Wrapper \ Thru(w) : wr'[x] = wrs[x]

Caught(q, e, w, st, body, wrs) ==
    /\ Sink(w) = Wrap(e)
    /\ Front(q)' = Front(q)
    /\ wr'[e] = [wrs[e] EXCEPT !.out = [status |-> st, body |-> @.body \o body]]
    /\ \A x \in Thru(w) \ {e} : wr'[x] = [wrs[x] EXCEPT !.out = Put(@, st, <<>>)]
    /\ \A x \in Wrapper \ (Thru(w) \cup {e}) : wr'[x] = wrs[x]

\* The responses of the others stay, and the OnSend hooks are not overtaken.
Contained(q) ==
    /\ \A p \in Request \ {q} : client'[p] = client[p] /\ buf'[p] = buf[p]
    /\ buf'[q].bypassed = buf[q].bypassed
    /\ Has("OnSend") /\ ~buf[q].bypassed => client'[q] = client[q]

LEMMA WriteEffect ==
  ASSUME TypeOK, UNCHANGED app, NEW q \in Request, NEW s \in Seq(Frame), NEW v, NEW native,
         FramesOK(Base(q), s, v, wr, native), NEW w \in Outer(Base(q), Taken(s, Writing, 0)),
         NEW st, NEW body, NEW wrs \in [Wrapper -> WrapperState], Write(w, st, body, wrs)
  PROVE  /\ Contained(q)
         /\ Thru(w) \subseteq Taken(s, Recorders, 0)
         /\ \/ Reaches(q, w, st, body, wrs)
            \/ \E e \in Taken(s, Captors, 0) : Caught(q, e, w, st, body, wrs)
  <1> DEFINE d == Sink(w)
             T == Thru(w)
             C == Taken(s, Captors, 0)
  <1>1. d \in Outer(Base(q), C) /\ T \subseteq Taken(s, Recorders, 0)
    BY WriterLeads
  <1>2. T \subseteq Wrapper /\ C \subseteq Wrapper
    <2>1. Recorders \subseteq Writing /\ Captors \subseteq Writing
      BY DEF Recorders, Captors, Writing
    <2> QED
      BY <1>1, <2>1, TakenType
  <1>3. /\ wr' = [x \in Wrapper |->
                CASE d = Wrap(x) -> [wrs[x] EXCEPT !.out = [status |-> st, body |-> @.body \o body]]
                  [] x \in T -> [wrs[x] EXCEPT !.out = Put(@, st, <<>>)]
                  [] OTHER -> wrs[x]]
        /\ buf' = [p \in Request |->
                IF d = Buf(p) /\ ~buf[p].bypassed
                THEN [buf[p] EXCEPT !.out = Put(@, st, body)] ELSE buf[p]]
        /\ client' = [p \in Request |->
                IF d = Client(p) \/ (d = Buf(p) /\ buf[p].bypassed)
                THEN Put(client[p], st, body) ELSE client[p]]
    BY DEF Write
  <1>4. Front(q)' = IF Has("OnSend") /\ ~buf'[q].bypassed THEN buf'[q].out ELSE client'[q]
    BY DEF Front, Has
  <1>5. buf[q] \in [bypassed : BOOLEAN, out : Output]
    BY DEF TypeOK
  <1> HIDE DEF d, T, C
  <1>8. \A e \in C : e \notin Taken(s, Recorders, 0)
    BY KindsApart DEF C
  <1>6. CASE d = Base(q)
    <2>1. \A x : d # Wrap(x)
      BY <1>6, BaseFacts
    <2>2. \A p \in Request \ {q} : d # Client(p) /\ d # Buf(p)
      BY <1>6, BaseFacts
    <2>3. \A p \in Request \ {q} : client'[p] = client[p] /\ buf'[p] = buf[p]
      BY <1>3, <2>2
    <2>4. /\ d = Buf(q) <=> Has("OnSend")
          /\ d = Client(q) <=> ~Has("OnSend")
      BY <1>6, BaseFacts
    <2>5. /\ buf'[q].bypassed = buf[q].bypassed
          /\ Has("OnSend") /\ ~buf[q].bypassed =>
                buf'[q].out = Put(buf[q].out, st, body) /\ client'[q] = client[q]
          /\ ~(Has("OnSend") /\ ~buf[q].bypassed) => client'[q] = Put(client[q], st, body)
      BY <1>3, <1>5, <2>4
    <2>6. Front(q)' = Put(Front(q), st, body)
      BY <1>4, <2>5 DEF Front
    <2>7. /\ \A x \in T : wr'[x] = [wrs[x] EXCEPT !.out = Put(@, st, <<>>)]
          /\ \A x \in Wrapper \ T : wr'[x] = wrs[x]
      BY <1>2, <1>3, <2>1
    <2>8. Reaches(q, w, st, body, wrs)
      BY <1>6, <2>6, <2>7 DEF Reaches, d, T
    <2> QED
      BY <1>1, <2>3, <2>5, <2>8 DEF Contained, T
  <1>7. ASSUME NEW e \in C, d = Wrap(e)
        PROVE  Contained(q) /\ Caught(q, e, w, st, body, wrs)
    <2>1. \A p \in Request : d # Client(p) /\ d # Buf(p)
      BY <1>7 DEF Client, Buf, Wrap
    <2>2. \A p \in Request : client'[p] = client[p] /\ buf'[p] = buf[p]
      BY <1>3, <2>1
    <2>3. Front(q)' = Front(q)
      BY <1>4, <2>2 DEF Front
    <2>4. \A x : d = Wrap(x) <=> x = e
      BY <1>7, BaseFacts
    <2>5. /\ wr'[e] = [wrs[e] EXCEPT !.out = [status |-> st, body |-> @.body \o body]]
          /\ \A x \in T \ {e} : wr'[x] = [wrs[x] EXCEPT !.out = Put(@, st, <<>>)]
          /\ \A x \in Wrapper \ (T \cup {e}) : wr'[x] = wrs[x]
      <3>1. e \in Wrapper
        BY <1>2
      <3>2. wr'[e] = [wrs[e] EXCEPT !.out = [status |-> st, body |-> @.body \o body]]
        <4>1. wr'[e] = CASE d = Wrap(e) -> [wrs[e] EXCEPT !.out = [status |-> st, body |-> @.body \o body]]
                          [] e \in T -> [wrs[e] EXCEPT !.out = Put(@, st, <<>>)]
                          [] OTHER -> wrs[e]
          BY <1>3, <3>1
        <4>2. e \notin T
          BY <1>1, <1>8
        <4> QED
          BY <1>7, <4>1, <4>2
      <3>3. ASSUME NEW x \in T \ {e} PROVE wr'[x] = [wrs[x] EXCEPT !.out = Put(@, st, <<>>)]
        <4>1. x \in Wrapper /\ d # Wrap(x)
          BY <1>2, <2>4, <3>3
        <4> QED
          BY <1>3, <3>3, <4>1
      <3>4. ASSUME NEW x \in Wrapper \ (T \cup {e}) PROVE wr'[x] = wrs[x]
        BY <1>3, <2>4, <3>4
      <3> QED
        BY <3>2, <3>3, <3>4
    <2>6. Caught(q, e, w, st, body, wrs)
      BY <1>7, <2>3, <2>5 DEF Caught, d, T
    <2> QED
      BY <2>2, <2>6 DEF Contained
  <1> QED
    BY <1>1, <1>6, <1>7 DEF Outer, C, T

\* Writing changes what wrappers hold, not where they lead.
LEMMA WriteWiring ==
  ASSUME NEW w, NEW st, NEW body, NEW wrs \in [Wrapper -> WrapperState], Write(w, st, body, wrs),
         NEW x \in Wrapper
  PROVE  SameWiring(x, wrs, wr')
  <1>1. wrs[x] \in WrapperState
    OBVIOUS
  <1>2. \/ wr'[x] = [wrs[x] EXCEPT !.out = [status |-> st, body |-> wrs[x].out.body \o body]]
        \/ wr'[x] = [wrs[x] EXCEPT !.out = Put(wrs[x].out, st, <<>>)]
        \/ wr'[x] = wrs[x]
    BY DEF Write
  <1> QED
    BY <1>1, <1>2 DEF SameWiring, WrapperState

----------------------------------------------------------------------------
(* The inductive invariant of responses, RInv.  What the theorems say of a  *)
(* request that is done is not inductive: on its way a response may be in   *)
(* any of the wrappers, so the invariant says where the writers at hand     *)
(* lead (WritersOK), that at most one place holds a body and whose it is    *)
(* (AnswerOK), that what is due is there (FaithfulOK), and which recorders  *)
(* have seen its status (MeterOK).                                          *)

Held(q) == Taken(g[q].stack, Writing, 0)
Captures(q) == Taken(g[q].stack, Captors, 0)
Meters(q) == Taken(g[q].stack, {"metrics"}, 0)

\* The frames are those of the chain, in order.
TrailOK(s, chain) ==
    /\ Len(s) <= Len(chain)
    /\ \A i \in DOMAIN s : s[i].kind = chain[Len(s) + 1 - i]

\* The writers at hand are the request's own: its outermost one, and the wrappers of the
\* middleware that it is inside of; on the native path c.res is the one at hand.
WritersOK(q) ==
    /\ FramesOK(Base(q), g[q].stack, g[q].w, wr, g[q].way = "native")
    /\ g[q].pc \in {"hooks", "dispatch", "down", "up"} => g[q].w \in Outer(Base(q), Held(q))
    /\ g[q].pc \in {"hooks", "dispatch", "down"} =>
         ctx[g[q].c].res \in Outer(Base(q), Held(q)) /\ ~ctx[g[q].c].written
    /\ g[q].pc \in {"down", "up"} /\ g[q].way = "native" => ctx[g[q].c].res = g[q].w
    /\ g[q].pc \notin {"down", "up"} => g[q].stack = <<>>

\* Nothing is written on the way down.
AllBlank(q) == Front(q) = Blank /\ \A x \in Held(q) : wr[x].out = Blank
EarlyOK(q) ==
    g[q].pc \in {"arrive", "hooks", "dispatch", "down"} =>
        /\ AllBlank(q) /\ ~buf[q].bypassed /\ client[q] = Blank /\ g[q].out = "ok"
        /\ log[q].due = Blank /\ log[q].exact /\ ~log[q].raw /\ log[q].seen = {}

\* Of the front and the wrappers of q, only place (None for the front) has a body, and
\* that is one body of q's own.
Body(q) == {<<>>} \cup {<<<<q, what>>>> : what \in {"data", "error"}}
Only(q, place) ==
    /\ Front(q).body \in Body(q) /\ (place # None => Front(q).body = <<>>)
    /\ \A x \in Held(q) : wr[x].out.body \in Body(q) /\ (place # x => wr[x].out.body = <<>>)

\* When the handler failed after a raw write, what is due is open, and there may be several
\* pieces of q's own; otherwise there is one body at most.
Own(q) == {q} \X {"data", "error"}
Pieces(q) ==
    Front(q).body \in Seq(Own(q)) /\ \A x \in Held(q) : wr[x].out.body \in Seq(Own(q))
Composed(q) ==
    IF log[q].raw THEN ~log[q].exact /\ Pieces(q)
    ELSE \E place \in Wrapper \cup {None} : Only(q, place)
Bodies(q) == IF log[q].raw THEN Seq(Own(q)) ELSE Body(q)

\* An error or a panic that has yet to be answered finds nothing written, unless c.written
\* says so or the write was raw; then what is due is open.
AnswerOK(q) ==
    /\ g[q].pc = "up" /\ g[q].out # "ok" =>
         /\ ~ctx[g[q].c].written /\ ~log[q].raw => AllBlank(q)
         /\ log[q].exact => ~ctx[g[q].c].written
    /\ g[q].pc = "up" /\ g[q].out = "err" =>
         /\ ctx[g[q].c].res = g[q].w
         /\ log[q].due = [status |-> "error", body |-> <<<<q, "error">>>>]
    /\ g[q].pc \in {"up", "finish"} => Composed(q)
    /\ ~Has("OnSend") => ~buf[q].bypassed
    /\ g[q].pc # "done" /\ Has("OnSend") /\ ~buf[q].bypassed => client[q] = Blank
    /\ g[q].pc = "done" => client[q].body \in Bodies(q)

\* What is due has not been written and needs no writing, or is at the front, or is in
\* the capture and will be sent on.
Shown(out) == [status |-> Effective(out.status), body |-> out.body]
Matches(q, out) ==
    \/ Shown(out) = Shown(log[q].due)
    \/ /\ \E i \in DOMAIN Chain(q) : Chain(q)[i] = "etag"
       /\ Effective(log[q].due.status) = "200" /\ out = [status |-> "304", body |-> <<>>]
Settled(q) ==
    \/ AllBlank(q) /\ Shown(log[q].due) = Shown(Blank)
    \/ /\ \A x \in Captures(q) : wr[x].out = Blank
       /\ Front(q).status # "none" /\ Matches(q, Front(q))
    \/ /\ Front(q) = Blank
       /\ \E x \in Captures(q) :
            wr[x].out.status # "none" /\ Shown(wr[x].out) = Shown(log[q].due)

\* A chain with at most one etag.
ETagOnce(chain) ==
    \A i, j \in DOMAIN chain : chain[i] = "etag" /\ chain[j] = "etag" => i = j
OneETag(q) == ETagOnce(Chain(q))

FaithfulOK(q) ==
    OneETag(q) /\ g[q].out = "ok" /\ log[q].exact =>
        /\ g[q].pc \in {"up", "finish"} => Settled(q)
        /\ g[q].pc = "done" => Matches(q, client[q])

\* A write through w is seen by the recorders M if it reaches b, and by none of them
\* if it is caught.
SinkIn(w, wrs) == IF w[1] = "wrap" THEN wrs[w[2]].sink ELSE w
ThruIn(w, wrs) == IF w[1] = "wrap" THEN wrs[w[2]].thru ELSE {}
Through(b, w, M, wrs) ==
    /\ SinkIn(w, wrs) = b => M \subseteq ThruIn(w, wrs)
    /\ SinkIn(w, wrs) # b => M \cap ThruIn(w, wrs) = {}
MetersOK(b, s, wrs) ==
    \A i \in DOMAIN s : Through(b, s[i].w, Taken(s, {"metrics"}, i), wrs)

\* On the stdlib paths, outside of captures, metrics have the status of the front, and
\* what they have reported stays the status.
Metered(q) == g[q].way # "native" /\ ~Inside(q, "metrics", "etag")
MeterOK(q) ==
    Metered(q) =>
        /\ MetersOK(Base(q), g[q].stack, wr)
        /\ g[q].pc \in {"down", "up"} => Through(Base(q), g[q].w, Meters(q), wr)
        /\ g[q].pc = "down" /\ Found(q, g[q].r) =>
             Through(Base(q), ctx[g[q].c].res, Meters(q), wr)
        /\ \A x \in Meters(q) : wr[x].out.status = Front(q).status
        /\ \A st \in Status : <<"metrics", st>> \in log[q].seen =>
             /\ g[q].pc = "up" => g[q].out = "ok" /\ Captures(q) = {}
             /\ g[q].pc \in {"up", "finish"} => st = Effective(Front(q).status)
             /\ g[q].pc = "done" /\ g[q].out = "ok" => st = Effective(client[q].status)

ResponseOK(q) ==
    /\ TrailOK(g[q].stack, Chain(q)) /\ WritersOK(q) /\ EarlyOK(q) /\ AnswerOK(q)
    /\ FaithfulOK(q) /\ MeterOK(q)
Apart == \A p, q \in Request : p # q => Held(p) \cap Held(q) = {}
RInv == Apart /\ \A q \in Request : ResponseOK(q)

----------------------------------------------------------------------------
\* The trail of a stack and of its tail.
LEMMA TrailSplit ==
  ASSUME NEW s \in Seq(Frame), s # <<>>, NEW chain \in Seq(Kind)
  PROVE  TrailOK(s, chain) <=>
           /\ Len(s) <= Len(chain) /\ Head(s).kind = chain[Len(s)]
           /\ TrailOK(Tail(s), chain)
  <1> DEFINE t == Tail(s)
             n == Len(s)
  <1>1. /\ Head(s) = s[1] /\ 1 \in DOMAIN s /\ n \in Nat \ {0} /\ Len(t) = n - 1
        /\ \A i \in DOMAIN t : i \in Nat \ {0} /\ i + 1 \in DOMAIN s /\ t[i] = s[i + 1]
        /\ \A i \in DOMAIN s : i \in Nat \ {0} /\ (i = 1 \/ (i - 1 \in DOMAIN t /\ t[i - 1] = s[i]))
    BY StackIndex
  <1>2. Len(chain) \in Nat
    OBVIOUS
  <1>3. TrailOK(s, chain) <=> n <= Len(chain) /\ \A i \in DOMAIN s : s[i].kind = chain[n + 1 - i]
    BY DEF TrailOK
  <1>4. TrailOK(t, chain) <=>
          (n - 1) <= Len(chain) /\ \A i \in DOMAIN t : t[i].kind = chain[(n - 1) + 1 - i]
    BY <1>1 DEF TrailOK
  <1> HIDE DEF t, n
  <1>5. ASSUME TrailOK(s, chain)
        PROVE  n <= Len(chain) /\ Head(s).kind = chain[n] /\ TrailOK(t, chain)
    <2>1. Head(s).kind = chain[n]
      <3>1. s[1].kind = chain[n + 1 - 1]
        BY <1>1, <1>3, <1>5
      <3>2. n + 1 - 1 = n
        BY <1>1
      <3> QED
        BY <1>1, <3>1, <3>2
    <2>2. ASSUME NEW i \in DOMAIN t PROVE t[i].kind = chain[(n - 1) + 1 - i]
      <3>1. i \in Nat /\ i + 1 \in DOMAIN s /\ t[i] = s[i + 1]
        BY <1>1
      <3>2. s[i + 1].kind = chain[n + 1 - (i + 1)]
        BY <1>3, <1>5, <3>1
      <3>3. n + 1 - (i + 1) = (n - 1) + 1 - i
        BY <1>1, <3>1
      <3> QED
        BY <3>1, <3>2, <3>3
    <2> QED
      BY <1>1, <1>2, <1>3, <1>4, <1>5, <2>1, <2>2
  <1>6. ASSUME n <= Len(chain), Head(s).kind = chain[n], TrailOK(t, chain)
        PROVE  TrailOK(s, chain)
    <2>1. ASSUME NEW i \in DOMAIN s PROVE s[i].kind = chain[n + 1 - i]
      <3>1. CASE i = 1
        <4>1. n + 1 - i = n
          BY <1>1, <3>1
        <4> QED
          BY <1>1, <1>6, <3>1, <4>1
      <3>2. CASE i # 1
        <4>1. i \in Nat /\ i - 1 \in DOMAIN t /\ t[i - 1] = s[i]
          BY <1>1, <3>2
        <4>2. t[i - 1].kind = chain[(n - 1) + 1 - (i - 1)]
          BY <1>4, <1>6, <4>1
        <4>3. (n - 1) + 1 - (i - 1) = n + 1 - i
          BY <1>1, <4>1
        <4> QED
          BY <4>1, <4>2, <4>3
      <3> QED
        BY <3>1, <3>2
    <2> QED
      BY <1>3, <1>6, <2>1
  <1> QED
    BY <1>5, <1>6 DEF t, n

LEMMA TrailNone == ASSUME NEW chain \in Seq(Kind) PROVE TrailOK(<<>>, chain)
  BY DEF TrailOK

\* A capture was taken for an etag of the chain so far.
LEMMA CaptureInChain ==
  ASSUME NEW s \in Seq(Frame), NEW chain \in Seq(Kind), TrailOK(s, chain),
         NEW e \in Taken(s, Captors, 0)
  PROVE  \E i \in DOMAIN chain : i <= Len(s) /\ chain[i] = "etag"
  <1>1. PICK j \in DOMAIN s : s[j].kind = "etag"
    BY DEF Taken, Captors
  <1>2. j \in 1 .. Len(s) /\ Len(s) \in Nat /\ Len(chain) \in Nat /\ DOMAIN chain = 1 .. Len(chain)
    OBVIOUS
  <1>3. Len(s) <= Len(chain) /\ s[j].kind = chain[Len(s) + 1 - j]
    BY DEF TrailOK
  <1>4. PICK i \in Nat : i = Len(s) + 1 - j
    BY <1>2
  <1>5. i \in DOMAIN chain /\ i <= Len(s)
    BY <1>2, <1>3, <1>4
  <1> QED
    BY <1>1, <1>3, <1>4, <1>5

\* The recorders that a write passes, in a stack and in its tail.
LEMMA MetersSplit ==
  ASSUME NEW s \in Seq(Frame), s # <<>>, NEW b, NEW wrs
  PROVE  MetersOK(b, s, wrs) <=>
           /\ Through(b, Head(s).w, Taken(Tail(s), {"metrics"}, 0), wrs)
           /\ MetersOK(b, Tail(s), wrs)
  <1> DEFINE t == Tail(s)
             Ok(i) == Through(b, s[i].w, Taken(s, {"metrics"}, i), wrs)
             TOk(i) == Through(b, t[i].w, Taken(t, {"metrics"}, i), wrs)
  <1>1. /\ Head(s) = s[1] /\ 1 \in DOMAIN s
        /\ \A i \in DOMAIN t : i \in Nat \ {0} /\ i + 1 \in DOMAIN s /\ t[i] = s[i + 1]
        /\ \A i \in DOMAIN s : i \in Nat \ {0} /\ (i = 1 \/ (i - 1 \in DOMAIN t /\ t[i - 1] = s[i]))
    BY StackIndex
  <1>2. \A i \in Nat : Taken(s, {"metrics"}, i + 1) = Taken(t, {"metrics"}, i)
    BY TakenSplit
  <1> HIDE DEF t
  <1>3. Ok(1) <=> Through(b, Head(s).w, Taken(t, {"metrics"}, 0), wrs)
    <2>1. Taken(s, {"metrics"}, 1) = Taken(t, {"metrics"}, 0)
      BY <1>2
    <2> QED
      BY <1>1, <2>1
  <1>4. ASSUME NEW i \in DOMAIN t PROVE Ok(i + 1) <=> TOk(i)
    <2>1. s[i + 1] = t[i] /\ i \in Nat
      BY <1>1
    <2>2. Taken(s, {"metrics"}, i + 1) = Taken(t, {"metrics"}, i)
      BY <1>2, <2>1
    <2> QED
      BY <2>1, <2>2
  <1>5. MetersOK(b, s, wrs) <=> \A i \in DOMAIN s : Ok(i)
    BY DEF MetersOK
  <1>6. MetersOK(b, t, wrs) <=> \A i \in DOMAIN t : TOk(i)
    BY DEF MetersOK
  <1> HIDE DEF Ok, TOk
  <1>7. ASSUME \A i \in DOMAIN s : Ok(i) PROVE Ok(1) /\ \A i \in DOMAIN t : TOk(i)
    BY <1>1, <1>4, <1>7
  <1>8. ASSUME Ok(1), \A i \in DOMAIN t : TOk(i), NEW i \in DOMAIN s PROVE Ok(i)
    <2>1. CASE i = 1
      BY <1>8, <2>1
    <2>2. CASE i # 1
      <3>1. i - 1 \in DOMAIN t /\ (i - 1) + 1 = i
        BY <1>1, <2>2
      <3> QED
        BY <1>4, <1>8, <3>1
    <2> QED
      BY <2>1, <2>2
  <1> QED
    BY <1>3, <1>5, <1>6, <1>7, <1>8 DEF t

LEMMA ThroughKept ==
  ASSUME NEW q \in Request, NEW X, NEW w \in Outer(Base(q), X), NEW M, NEW wrs, NEW new,
         \A x \in X : SameWiring(x, wrs, new), Through(Base(q), w, M, wrs)
  PROVE  Through(Base(q), w, M, new)
  <1>1. SinkIn(w, new) = SinkIn(w, wrs) /\ ThruIn(w, new) = ThruIn(w, wrs)
    <2>1. CASE w = Base(q)
      BY <2>1, BaseFacts DEF SinkIn, ThruIn
    <2>2. CASE w # Base(q)
      BY <2>2 DEF SinkIn, ThruIn, Outer, Wrap, SameWiring
    <2> QED
      BY <2>1, <2>2
  <1> QED
    BY <1>1 DEF Through

LEMMA MetersKept ==
  ASSUME NEW q \in Request, NEW s \in Seq(Frame), NEW w, NEW wrs, NEW new, NEW native,
         FramesOK(Base(q), s, w, wrs, native), MetersOK(Base(q), s, wrs),
         \A x \in Taken(s, Writing, 0) : SameWiring(x, wrs, new)
  PROVE  MetersOK(Base(q), s, new)
  <1> SUFFICES ASSUME NEW i \in DOMAIN s
               PROVE  Through(Base(q), s[i].w, Taken(s, {"metrics"}, i), new)
    BY DEF MetersOK
  <1>1. Through(Base(q), s[i].w, Taken(s, {"metrics"}, i), wrs)
    BY DEF MetersOK
  <1>2. s[i].w \in Outer(Base(q), Taken(s, Writing, i))
    BY DEF FramesOK, FrameOK
  <1>3. Taken(s, Writing, i) \subseteq Taken(s, Writing, 0)
    <2>1. i \in Nat
      OBVIOUS
    <2> QED
      BY <2>1, TakenMono
  <1> QED
    BY <1>1, <1>2, <1>3, ThroughKept

\* The part of the invariant about p stays with its goroutine, its wrappers and its response.
LEMMA Bystander ==
  ASSUME TypeOK, NEW p \in Request, ResponseOK(p), UNCHANGED app, g'[p] = g[p],
         client'[p] = client[p], buf'[p] = buf[p], log'[p] = log[p], reqs'[p] = reqs[p],
         reg'[p] = reg[p], Owns(p) => ctx'[g[p].c] = ctx[g[p].c],
         \A x \in Held(p) : wr'[x] = wr[x]
  PROVE  ResponseOK(p)' /\ Held(p)' = Held(p)
  <1>1. /\ Held(p)' = Held(p) /\ Captures(p)' = Captures(p) /\ Meters(p)' = Meters(p)
        /\ Front(p)' = Front(p) /\ Chain(p)' = Chain(p) /\ Base(p)' = Base(p)
        /\ Found(p, g[p].r)' = Found(p, g[p].r) /\ Has("OnSend")' = Has("OnSend")
    BY DEF Held, Captures, Meters, Front, Has, Chain, Base, Client, Buf, Found
  <1>2. g[p].stack \in Seq(Frame)
    BY DEF TypeOK, Goroutine
  <1>3. Captures(p) \subseteq Held(p) /\ Meters(p) \subseteq Held(p)
    BY <1>2, TakenMono DEF Captures, Meters, Held, Captors, Writing
  <1>4. \A x \in Taken(g[p].stack, Writing, 0) : SameWiring(x, wr, wr')
    BY DEF SameWiring, Held
  <1>5. g[p].pc \in {"hooks", "dispatch", "down", "up"} => ctx'[g[p].c] = ctx[g[p].c]
    BY DEF Owns, Active
  <1>6. TrailOK(g[p].stack, Chain(p))'
    BY <1>1 DEF ResponseOK
  <1>7. WritersOK(p)'
    <2>1. FramesOK(Base(p), g[p].stack, g[p].w, wr, g[p].way = "native")
      BY DEF ResponseOK, WritersOK
    <2>2. FramesOK(Base(p), g[p].stack, g[p].w, wr', g[p].way = "native")
      BY <1>2, <1>4, <2>1, FramesKept
    <2> QED
      BY <1>1, <1>5, <2>2 DEF ResponseOK, WritersOK
  <1>8. AllBlank(p)' = AllBlank(p)
    BY <1>1 DEF AllBlank
  <1>9. EarlyOK(p)'
    BY <1>1, <1>8 DEF ResponseOK, EarlyOK
  <1>10. Composed(p)' = Composed(p)
    <2>1. \A place : Only(p, place)' = Only(p, place)
      BY <1>1 DEF Only, Body
    <2>2. Pieces(p)' = Pieces(p)
      BY <1>1 DEF Pieces, Own
    <2> QED
      BY <1>1, <2>1, <2>2 DEF Composed
  <1>11. AnswerOK(p)'
    BY <1>1, <1>5, <1>8, <1>10 DEF ResponseOK, AnswerOK, Bodies, Body, Own
  <1>12. FaithfulOK(p)'
    <2>1. \A out : Matches(p, out)' = Matches(p, out)
      BY <1>1 DEF Matches, Shown, Effective
    <2>2. Settled(p)' = Settled(p)
      BY <1>1, <1>3, <1>8, <2>1 DEF Settled
    <2>3. OneETag(p)' = OneETag(p)
      BY <1>1 DEF OneETag
    <2> QED
      BY <2>1, <2>2, <2>3 DEF ResponseOK, FaithfulOK
  <1>13. MeterOK(p)'
    <2> SUFFICES ASSUME Metered(p)' PROVE MeterOK(p)'
      BY DEF MeterOK
    <2>1. Metered(p)
      BY <1>1 DEF Metered, Inside
    <2>2. MetersOK(Base(p), g[p].stack, wr')
      BY <1>2, <1>4, <2>1, MetersKept DEF ResponseOK, MeterOK, WritersOK
    <2>3. g[p].pc \in {"down", "up"} => Through(Base(p), g[p].w, Meters(p), wr')
      BY <1>4, <2>1, ThroughKept DEF ResponseOK, MeterOK, WritersOK, Held
    <2>4. g[p].pc = "down" /\ Found(p, g[p].r) => Through(Base(p), ctx[g[p].c].res, Meters(p), wr')
      BY <1>4, <2>1, ThroughKept DEF ResponseOK, MeterOK, WritersOK, Held
    <2> QED
      BY <1>1, <1>3, <1>5, <2>1, <2>2, <2>3, <2>4 DEF ResponseOK, MeterOK
  <1> QED
    BY <1>1, <1>6, <1>7, <1>9, <1>11, <1>12, <1>13 DEF ResponseOK

\* A step of q outside of responses: it has its own goroutine, log, requests and *Context.
OwnOnly(q) ==
    /\ UNCHANGED app
    /\ \A p \in Request \ {q} :
         /\ g'[p] = g[p] /\ log'[p] = log[p] /\ reqs'[p] = reqs[p] /\ reg'[p] = reg[p]
         /\ Owns(p) => ctx'[g[p].c] = ctx[g[p].c]

\* The wrappers of a request are in use.
LEMMA HeldBusy ==
  ASSUME IInv, RInv, NEW p \in Request, NEW x \in Held(p)
  PROVE  x \in Wrapper /\ wr[x].busy
  <1>1. g[p].stack \in Seq(Frame)
    BY DEF IInv, TypeOK, Goroutine
  <1>2. x \in Wrapper
    BY <1>1, TakenType DEF Held
  <1>3. FramesOK(Base(p), g[p].stack, g[p].w, wr, g[p].way = "native")
    BY DEF RInv, ResponseOK, WritersOK
  <1>4. PICK kind \in Writing : x \in Taken(g[p].stack, {kind}, 0)
    BY <1>1, TakenKinds DEF Held
  <1> QED
    BY <1>1, <1>2, <1>3, <1>4, WrapperLeads

\* Such a step of q on its own responses and wrappers keeps the invariant for the others.
LEMMA Alone ==
  ASSUME IInv, RInv, NEW q \in Request, OwnOnly(q),
         \A p \in Request \ {q} : client'[p] = client[p] /\ buf'[p] = buf[p],
         \A x \in Wrapper \ Held(q) : wr[x].busy => wr'[x] = wr[x],
         \A x \in Held(q)' : x \in Held(q) \/ ~wr[x].busy,
         ResponseOK(q)'
  PROVE  RInv'
  <1>1. TypeOK
    BY DEF IInv
  <1>2. \A p \in Request : \A x \in Held(p) : x \in Wrapper /\ wr[x].busy
    BY HeldBusy
  <1>3. ASSUME NEW p \in Request \ {q} PROVE ResponseOK(p)' /\ Held(p)' = Held(p)
    <2>1. \A x \in Held(p) : wr'[x] = wr[x]
      BY <1>2 DEF RInv, Apart
    <2> QED
      BY <1>1, <2>1, Bystander DEF RInv, OwnOnly
  <1>4. Apart'
    <2> SUFFICES ASSUME NEW p \in Request, NEW r \in Request, p # r
                 PROVE  Held(p)' \cap Held(r)' = {}
      BY DEF Apart
    <2>1. CASE p # q /\ r # q
      BY <1>3, <2>1 DEF RInv, Apart
    <2>2. ASSUME NEW z \in Request \ {q} PROVE Held(q)' \cap Held(z)' = {}
      BY <1>2, <1>3 DEF RInv, Apart
    <2> QED
      BY <2>1, <2>2
  <1> QED
    BY <1>3, <1>4 DEF RInv

----------------------------------------------------------------------------
\* A stack s whose top passes w on fits the chain of q and leads to its writers.
Wired(q, s, w, wrs) ==
    /\ FramesOK(Base(q), s, w, wrs, g[q].way = "native")
    /\ w \in Outer(Base(q), Taken(s, Writing, 0))
    /\ TrailOK(s, Chain(q))
    /\ Metered(q) => /\ MetersOK(Base(q), s, wrs)
                     /\ Through(Base(q), w, Taken(s, {"metrics"}, 0), wrs)

LEMMA WiredNow ==
  ASSUME TypeOK, NEW q \in Request, ResponseOK(q), g[q].pc \in {"down", "up"}
  PROVE  g[q].stack \in Seq(Frame) /\ Chain(q) \in Seq(Kind) /\ Wired(q, g[q].stack, g[q].w, wr)
  <1>1. g[q].stack \in Seq(Frame)
    BY DEF TypeOK, Goroutine
  <1>2. Chain(q) \in Seq(Kind)
    BY ChainType
  <1> QED
    BY <1>1, <1>2 DEF ResponseOK, WritersOK, MeterOK, Wired, Held, Meters

LEMMA WiredTail ==
  ASSUME TypeOK, NEW q \in Request, NEW s \in Seq(Frame), s # <<>>, NEW w, NEW wrs,
         Wired(q, s, w, wrs)
  PROVE  Tail(s) \in Seq(Frame) /\ Wired(q, Tail(s), Head(s).w, wrs)
  <1>1. Tail(s) \in Seq(Frame) /\ Chain(q) \in Seq(Kind)
    BY ChainType
  <1>2. /\ FramesOK(Base(q), Tail(s), Head(s).w, wrs, g[q].way = "native")
        /\ Head(s).w \in Outer(Base(q), Taken(Tail(s), Writing, 0))
    BY FramesSplit DEF Wired, FrameOK
  <1>3. TrailOK(Tail(s), Chain(q))
    BY <1>1, TrailSplit DEF Wired
  <1>4. Metered(q) => /\ MetersOK(Base(q), Tail(s), wrs)
                      /\ Through(Base(q), Head(s).w, Taken(Tail(s), {"metrics"}, 0), wrs)
    BY MetersSplit DEF Wired
  <1> QED
    BY <1>1, <1>2, <1>3, <1>4 DEF Wired

LEMMA WiredKept ==
  ASSUME NEW q \in Request, NEW s \in Seq(Frame), NEW w, NEW wrs, NEW new,
         Wired(q, s, w, wrs), \A x \in Taken(s, Writing, 0) : SameWiring(x, wrs, new)
  PROVE  Wired(q, s, w, new)
  <1>1. FramesOK(Base(q), s, w, new, g[q].way = "native")
    BY FramesKept DEF Wired
  <1>2. Metered(q) => /\ MetersOK(Base(q), s, new)
                      /\ Through(Base(q), w, Taken(s, {"metrics"}, 0), new)
    BY MetersKept, ThroughKept DEF Wired
  <1> QED
    BY <1>1, <1>2 DEF Wired

\* The goroutine of q goes on at ph with the stack s and the writer w, and the outcome o.
Goes(q, ph, s, w, o) ==
    /\ g'[q].pc = ph /\ g'[q].stack = s /\ g'[q].w = w /\ g'[q].out = o
    /\ g'[q].c = g[q].c /\ g'[q].way = g[q].way /\ g'[q].hit = g[q].hit

LEMMA GoesKeeps ==
  ASSUME NEW q \in Request, UNCHANGED app, NEW ph, NEW s, NEW w, NEW o, Goes(q, ph, s, w, o)
  PROVE  /\ Chain(q)' = Chain(q) /\ Base(q)' = Base(q) /\ Metered(q)' = Metered(q)
         /\ OneETag(q)' = OneETag(q) /\ Has("OnSend")' = Has("OnSend")
         /\ Held(q)' = Taken(s, Writing, 0) /\ Captures(q)' = Taken(s, Captors, 0)
         /\ Meters(q)' = Taken(s, {"metrics"}, 0)
         /\ (g[q].way = "native")' = (g[q].way = "native")
  <1>1. Chain(q)' = Chain(q)
    BY DEF Goes, Chain
  <1> QED
    BY <1>1 DEF Goes, Base, Has, Client, Buf, Metered, Inside, OneETag, Held, Captures, Meters

\* On the way up: where the writers lead to is known, and it remains to look at what they
\* hold.
HoldsOK(q) ==
    /\ Composed(q)
    /\ ~Has("OnSend") => ~buf[q].bypassed
    /\ Has("OnSend") /\ ~buf[q].bypassed => client[q] = Blank
    /\ OneETag(q) /\ g[q].out = "ok" /\ log[q].exact => Settled(q)
    /\ Metered(q) =>
         /\ \A x \in Meters(q) : wr[x].out.status = Front(q).status
         /\ \A st \in Status : <<"metrics", st>> \in log[q].seen =>
              g[q].out = "ok" /\ Captures(q) = {} /\ st = Effective(Front(q).status)

LEMMA UpKeeps ==
  ASSUME NEW q \in Request, UNCHANGED app, NEW s \in Seq(Frame), NEW w, NEW o,
         Goes(q, "up", s, w, o), Wired(q, s, w, wr'),
         g[q].way = "native" => ctx'[g[q].c].res = w,
         o # "ok" => /\ ~ctx'[g[q].c].written /\ ~log'[q].raw => AllBlank(q)'
                     /\ log'[q].exact => ~ctx'[g[q].c].written,
         o = "err" => /\ ctx'[g[q].c].res = w
                      /\ log'[q].due = [status |-> "error", body |-> <<<<q, "error">>>>],
         HoldsOK(q)'
  PROVE  ResponseOK(q)'
  <1>1. /\ Chain(q)' = Chain(q) /\ Base(q)' = Base(q) /\ Metered(q)' = Metered(q)
        /\ Held(q)' = Taken(s, Writing, 0) /\ Meters(q)' = Taken(s, {"metrics"}, 0)
        /\ (g[q].way = "native")' = (g[q].way = "native")
    BY GoesKeeps
  <1>2. TrailOK(g[q].stack, Chain(q))'
    BY <1>1 DEF Wired, Goes
  <1>3. WritersOK(q)'
    BY <1>1 DEF Wired, Goes, WritersOK
  <1>4. EarlyOK(q)'
    BY DEF EarlyOK, Goes
  <1>5. AnswerOK(q)'
    BY DEF AnswerOK, Goes, HoldsOK
  <1>6. FaithfulOK(q)'
    BY DEF FaithfulOK, Goes, HoldsOK
  <1>7. MeterOK(q)'
    BY <1>1 DEF MeterOK, Goes, HoldsOK, Wired
  <1> QED
    BY <1>2, <1>3, <1>4, <1>5, <1>6, <1>7 DEF ResponseOK

----------------------------------------------------------------------------
(* A step of one request leaves the goroutines, the requests and the        *)
(* *Contexts of the others alone.                                           *)

\* A step of q, as Next takes it.
Step(q) ==
    \/ Begin(q) \/ Redirect(q)
    \/ RunOnRequest(q) \/ OnRequestFails(q) \/ OnRequestPanics(q)
    \/ Dispatch(q)
    \/ EnterPlain(q) \/ EnterValue(q) \/ EnterValueLost(q) \/ Reject(q) \/ EnterWriter(q)
    \/ HandlerLost(q) \/ HandlerAnswers(q) \/ HandlerStreams(q) \/ HandlerFails(q)
    \/ HandlerPanics(q)
    \/ NotFound(q) \/ MountAnswers(q) \/ MountSilent(q) \/ MountSilentLost(q)
    \/ MountPanics(q)
    \/ LeavePlain(q) \/ LeaveRecorder(q) \/ LeaveCapture(q) \/ DropCapture(q)
    \/ Recover(q) \/ AnswerError(q)
    \/ Return(q) \/ Finish(q) \/ SendPanics(q)

\* Every step changes one goroutine, its *Context and what is known of its requests.
OneEntry(f, new, k) == \A j \in DOMAIN f \ {k} : new[j] = f[j]

LEMMA StepGoroutine ==
  ASSUME TypeOK, NEW q \in Request, Step(q)
  PROVE  UNCHANGED app /\ OneEntry(g, g', q)
  <1> USE DEF OneEntry, TypeOK
  <1>1. CASE \/ Begin(q) \/ Redirect(q) \/ RunOnRequest(q) \/ OnRequestFails(q)
             \/ OnRequestPanics(q) \/ Dispatch(q)
    BY <1>1 DEF Begin, Redirect, RunOnRequest, OnRequestFails, OnRequestPanics, Dispatch
  <1>2. CASE EnterPlain(q) \/ EnterValue(q) \/ EnterValueLost(q) \/ Reject(q) \/ EnterWriter(q)
    BY <1>2 DEF EnterPlain, EnterValue, EnterValueLost, Reject, EnterWriter
  <1>3. CASE \/ HandlerLost(q) \/ HandlerAnswers(q) \/ HandlerStreams(q) \/ HandlerFails(q)
             \/ HandlerPanics(q)
    BY <1>3 DEF HandlerLost, HandlerAnswers, HandlerStreams, HandlerFails, HandlerPanics
  <1>4. CASE \/ NotFound(q) \/ MountAnswers(q) \/ MountSilent(q) \/ MountSilentLost(q)
             \/ MountPanics(q)
    BY <1>4 DEF NotFound, MountAnswers, MountSilent, MountSilentLost, MountPanics, AnswerNotFound
  <1>5. CASE \/ LeavePlain(q) \/ LeaveRecorder(q) \/ LeaveCapture(q) \/ DropCapture(q)
             \/ Recover(q)
    BY <1>5 DEF LeavePlain, LeaveRecorder, LeaveCapture, DropCapture, Recover, Pop
  <1>6. CASE AnswerError(q) \/ Return(q) \/ Finish(q) \/ SendPanics(q)
    BY <1>6 DEF AnswerError, Return, Finish, SendPanics
  <1> QED
    BY <1>1, <1>2, <1>3, <1>4, <1>5, <1>6 DEF Step

LEMMA StepLog ==
  ASSUME TypeOK, NEW q \in Request, Step(q)
  PROVE  OneEntry(log, log', q)
  <1> USE DEF OneEntry, TypeOK
  <1>1. CASE \/ Begin(q) \/ Redirect(q) \/ RunOnRequest(q) \/ OnRequestFails(q)
             \/ OnRequestPanics(q) \/ Dispatch(q)
    BY <1>1 DEF Begin, Redirect, RunOnRequest, OnRequestFails, OnRequestPanics, Dispatch, Due
  <1>2. CASE EnterPlain(q) \/ EnterValue(q) \/ EnterValueLost(q) \/ Reject(q) \/ EnterWriter(q)
    BY <1>2 DEF EnterPlain, EnterValue, EnterValueLost, Reject, EnterWriter, Due
  <1>3. CASE \/ HandlerLost(q) \/ HandlerAnswers(q) \/ HandlerStreams(q) \/ HandlerFails(q)
             \/ HandlerPanics(q)
    BY <1>3 DEF HandlerLost, HandlerAnswers, HandlerStreams, HandlerFails, HandlerPanics, Ran
  <1>4. CASE \/ NotFound(q) \/ MountAnswers(q) \/ MountSilent(q) \/ MountSilentLost(q)
             \/ MountPanics(q)
    BY <1>4 DEF NotFound, MountAnswers, MountSilent, MountSilentLost, MountPanics,
                AnswerNotFound, Due
  <1>5. CASE \/ LeavePlain(q) \/ LeaveRecorder(q) \/ LeaveCapture(q) \/ DropCapture(q)
             \/ Recover(q)
    BY <1>5 DEF LeavePlain, LeaveRecorder, LeaveCapture, DropCapture, Recover, Observes, Due
  <1>6. CASE AnswerError(q) \/ Return(q) \/ Finish(q) \/ SendPanics(q)
    BY <1>6 DEF AnswerError, Return, Finish, SendPanics
  <1> QED
    BY <1>1, <1>2, <1>3, <1>4, <1>5, <1>6 DEF Step

LEMMA StepRequests ==
  ASSUME TypeOK, NEW q \in Request, Step(q)
  PROVE  OneEntry(reqs, reqs', q) /\ OneEntry(reg, reg', q)
  <1> USE DEF OneEntry, TypeOK
  <1>1. CASE Begin(q) \/ Redirect(q) \/ RunOnRequest(q) \/ OnRequestFails(q) \/ OnRequestPanics(q)
    BY <1>1 DEF Begin, Redirect, RunOnRequest, OnRequestFails, OnRequestPanics
  <1>2. CASE Dispatch(q)
    BY <1>2 DEF Dispatch, Copy
  <1>3. CASE EnterPlain(q) \/ EnterValueLost(q) \/ Reject(q) \/ EnterWriter(q)
    BY <1>3 DEF EnterPlain, EnterValueLost, Reject, EnterWriter, Copy
  <1>4. CASE EnterValue(q)
    BY <1>4 DEF EnterValue, Copy, Unregister
  <1>5. CASE \/ HandlerLost(q) \/ HandlerAnswers(q) \/ HandlerStreams(q) \/ HandlerFails(q)
             \/ HandlerPanics(q) \/ NotFound(q) \/ MountAnswers(q) \/ MountSilent(q)
             \/ MountSilentLost(q) \/ MountPanics(q)
    BY <1>5 DEF HandlerLost, HandlerAnswers, HandlerStreams, HandlerFails, HandlerPanics,
                NotFound, MountAnswers, MountSilent, MountSilentLost, MountPanics
  <1>6. CASE \/ LeavePlain(q) \/ LeaveRecorder(q) \/ LeaveCapture(q) \/ DropCapture(q)
             \/ Recover(q) \/ AnswerError(q) \/ Return(q) \/ SendPanics(q)
    BY <1>6 DEF LeavePlain, LeaveRecorder, LeaveCapture, DropCapture, Recover,
                AnswerError, Return, SendPanics
  <1>7. CASE Finish(q)
    BY <1>7 DEF Finish, Unregister
  <1> QED
    BY <1>1, <1>2, <1>3, <1>4, <1>5, <1>6, <1>7 DEF Step

LEMMA StepContext ==
  ASSUME TypeOK, NEW q \in Request, Step(q)
  PROVE  \/ Active(q) /\ OneEntry(ctx, ctx', g[q].c)
         \/ \E c \in pool : OneEntry(ctx, ctx', c)
         \/ UNCHANGED ctx
  <1> USE DEF OneEntry, TypeOK, Active
  <1>1. CASE Begin(q)
    BY <1>1 DEF Begin
  <1>2. CASE \/ Redirect(q) \/ RunOnRequest(q) \/ OnRequestPanics(q) \/ EnterPlain(q)
             \/ EnterValueLost(q) \/ Reject(q) \/ HandlerLost(q) \/ MountAnswers(q)
             \/ MountSilentLost(q) \/ MountPanics(q) \/ LeavePlain(q) \/ Return(q) \/ Finish(q)
             \/ SendPanics(q)
    BY <1>2 DEF Redirect, RunOnRequest, OnRequestPanics, EnterPlain, EnterValueLost, Reject,
                HandlerLost, MountAnswers, MountSilentLost, MountPanics, LeavePlain, Return,
                Finish, SendPanics
  <1>3. CASE OnRequestFails(q)
    BY <1>3 DEF OnRequestFails, HandleError, Written
  <1>4. CASE Dispatch(q) \/ EnterValue(q)
    BY <1>4 DEF Dispatch, EnterValue, SetReq, At
  <1>5. CASE EnterWriter(q)
    BY <1>5 DEF EnterWriter, At
  <1>6. CASE HandlerAnswers(q) \/ HandlerStreams(q) \/ HandlerFails(q) \/ HandlerPanics(q)
    BY <1>6 DEF HandlerAnswers, HandlerStreams, HandlerFails, HandlerPanics, Handled, Bottom
  <1>7. CASE NotFound(q) \/ MountSilent(q)
    BY <1>7 DEF NotFound, MountSilent, AnswerNotFound, Written, Bottom
  <1>8. CASE LeaveRecorder(q) \/ LeaveCapture(q) \/ DropCapture(q)
    BY <1>8 DEF LeaveRecorder, LeaveCapture, DropCapture, Restore, Rising
  <1>9. CASE Recover(q) \/ AnswerError(q)
    BY <1>9 DEF Recover, AnswerError, HandleError, Written, Rising
  <1> QED
    BY <1>1, <1>2, <1>3, <1>4, <1>5, <1>6, <1>7, <1>8, <1>9 DEF Step

LEMMA StepIsOwn ==
  ASSUME IInv, NEW q \in Request, Step(q)
  PROVE  OwnOnly(q)
  <1>1. TypeOK /\ Ownership
    BY DEF IInv
  <1>2. /\ UNCHANGED app /\ OneEntry(g, g', q) /\ OneEntry(log, log', q)
        /\ OneEntry(reqs, reqs', q) /\ OneEntry(reg, reg', q)
    BY <1>1, StepGoroutine, StepLog, StepRequests
  <1>3. DOMAIN g = Request /\ DOMAIN log = Request /\ DOMAIN reqs = Request /\ DOMAIN reg = Request
        /\ DOMAIN ctx = Ctx
    BY <1>1 DEF TypeOK
  <1>4. ASSUME NEW p \in Request \ {q}, Owns(p) PROVE ctx'[g[p].c] = ctx[g[p].c]
    <2>1. g[p].c \in Ctx \ pool /\ (Active(q) => g[p].c # g[q].c)
      BY <1>1, <1>4 DEF Ownership, Owns
    <2> QED
      BY <1>1, <1>3, <2>1, StepContext DEF OneEntry
  <1> QED
    BY <1>2, <1>3, <1>4 DEF OwnOnly, OneEntry

----------------------------------------------------------------------------
(* What a write does to the response of a request.                          *)

LEMMA BodyFacts ==
  ASSUME NEW q \in Request, NEW body \in Body(q)
  PROVE  /\ body \in Seq(Token) /\ <<>> \o body = body /\ body \o <<>> = body
         /\ <<>> \in Body(q)
  <1>1. body \in Seq(Token)
    BY BodyType DEF Body
  <1> QED
    BY <1>1 DEF Body

\* Bodies and pieces of q's own.
LEMMA OwnPieces ==
  ASSUME NEW q \in Request
  PROVE  /\ Body(q) \subseteq Seq(Own(q)) /\ Seq(Own(q)) \subseteq Seq(Token)
         /\ \A a, b \in Seq(Own(q)) : a \o b \in Seq(Own(q))
  <1>1. Own(q) \subseteq Token
    BY DEF Own, Token
  <1>2. ASSUME NEW what \in {"data", "error"} PROVE <<<<q, what>>>> \in Seq(Own(q))
    <2>1. <<q, what>> \in Own(q)
      BY DEF Own
    <2> QED
      BY <2>1
  <1>3. Body(q) \subseteq Seq(Own(q))
    <2>1. <<>> \in Seq(Own(q))
      OBVIOUS
    <2> QED
      BY <1>2, <2>1 DEF Body
  <1>4. Seq(Own(q)) \subseteq Seq(Token)
    BY <1>1
  <1>5. \A a, b \in Seq(Own(q)) : a \o b \in Seq(Own(q))
    OBVIOUS
  <1> QED
    BY <1>3, <1>4, <1>5

\* Where there is one body at most, there are only pieces of q's own.
LEMMA OnlyComposed ==
  ASSUME NEW q \in Request, \E place \in Wrapper \cup {None} : Only(q, place)',
         log'[q].raw => ~log'[q].exact
  PROVE  Composed(q)'
  <1>1. Body(q)' \subseteq Seq(Own(q))'
    BY OwnPieces DEF Body, Own
  <1>2. Pieces(q)'
    BY <1>1 DEF Only, Pieces
  <1> QED
    BY <1>2 DEF Composed

\* A first response is where it was written, at the front or in a capture.
Landed(q, st, body) ==
    \/ /\ Front(q) = [status |-> st, body |-> body]
       /\ \A x \in Captures(q) : wr[x].out = Blank
    \/ /\ Front(q) = Blank
       /\ \E x \in Captures(q) : wr[x].out = [status |-> st, body |-> body]

LEMMA Lands ==
  ASSUME TypeOK, NEW q \in Request, ResponseOK(q), AllBlank(q), UNCHANGED app,
         Held(q)' = Held(q), Captures(q)' = Captures(q),
         NEW w \in Outer(Base(q), Held(q)), NEW st \in Status, NEW body \in Body(q),
         Write(w, st, body, wr)
  PROVE  Landed(q, st, body)' /\ \E place \in Wrapper \cup {None} : Only(q, place)'
  <1> DEFINE s == g[q].stack
  <1>1. s \in Seq(Frame) /\ wr \in [Wrapper -> WrapperState]
    BY DEF TypeOK, Goroutine, WrapperState
  <1>2. FramesOK(Base(q), s, g[q].w, wr, g[q].way = "native") /\ w \in Outer(Base(q), Taken(s, Writing, 0))
    BY DEF ResponseOK, WritersOK, Held
  <1>3. /\ Thru(w) \subseteq Taken(s, Recorders, 0)
        /\ \/ Reaches(q, w, st, body, wr)
           \/ \E e \in Captures(q) : Caught(q, e, w, st, body, wr)
    <2> HIDE DEF s
    <2> QED
      BY <1>1, <1>2, WriteEffect DEF Captures, s
  <1>4. \A e \in Captures(q) : e \notin Thru(w)
    BY <1>1, <1>2, <1>3, KindsApart DEF Captures
  <1>5. Held(q) \subseteq Wrapper /\ Captures(q) \subseteq Held(q)
    BY <1>1, TakenType, TakenMono DEF Held, Captures, Captors, Writing
  <1>6. /\ body \in Seq(Token) /\ <<>> \o body = body /\ <<>> \in Body(q) /\ body \in Body(q)
    BY BodyFacts
  <1>7. \A x \in Held(q) : wr[x] \in WrapperState /\ wr[x].out = Blank
    BY <1>1, <1>5 DEF AllBlank
  <1>8. Put(Blank, st, body) = [status |-> st, body |-> body] /\ Put(Blank, st, <<>>).body = <<>>
    BY <1>6 DEF Put, Blank
  <1>9. Body(q)' = Body(q)
    BY DEF Body
  <1>11. Blank.body = <<>>
    BY DEF Blank
  <1>10. ASSUME NEW x \in Held(q),
                wr'[x] = [wr[x] EXCEPT !.out = Put(wr[x].out, st, <<>>)] \/ wr'[x] = wr[x]
         PROVE  wr'[x].out.body = <<>>
    <2>1. wr[x] \in WrapperState /\ wr[x].out = Blank
      BY <1>7
    <2>2. [wr[x] EXCEPT !.out = Put(wr[x].out, st, <<>>)].out = Put(wr[x].out, st, <<>>)
      BY <2>1 DEF WrapperState
    <2> QED
      BY <1>8, <1>10, <1>11, <2>1, <2>2
  <1> HIDE DEF s
  <1>12. CASE Reaches(q, w, st, body, wr)
    <2>1. Front(q)' = [status |-> st, body |-> body]
      BY <1>8, <1>12 DEF Reaches, AllBlank
    <2>2. \A x \in Captures(q) : wr'[x].out = Blank
      BY <1>4, <1>5, <1>7, <1>12 DEF Reaches
    <2>3. \A x \in Held(q) : wr'[x].out.body = <<>>
      BY <1>5, <1>10, <1>12 DEF Reaches
    <2>4. Only(q, None)'
      BY <1>6, <1>9, <2>1, <2>3 DEF Only
    <2> QED
      BY <2>1, <2>2, <2>4 DEF Landed
  <1>13. ASSUME NEW e \in Captures(q), Caught(q, e, w, st, body, wr)
         PROVE  Landed(q, st, body)' /\ Only(q, e)'
    <2>1. Front(q)' = Blank
      BY <1>13 DEF Caught, AllBlank
    <2>2. wr'[e].out = [status |-> st, body |-> body]
      <3>1. wr'[e] = [wr[e] EXCEPT !.out = [status |-> st, body |-> wr[e].out.body \o body]]
        BY <1>13 DEF Caught
      <3>2. wr[e] \in WrapperState /\ wr[e].out = Blank
        BY <1>5, <1>7
      <3>3. wr[e].out.body \o body = body
        BY <1>6, <1>11, <3>2
      <3> QED
        BY <3>1, <3>2, <3>3 DEF WrapperState
    <2>3. \A x \in Held(q) \ {e} : wr'[x].out.body = <<>>
      BY <1>5, <1>10, <1>13 DEF Caught
    <2>4. Only(q, e)'
      <3>1. ASSUME NEW x \in Held(q)
            PROVE  wr'[x].out.body \in Body(q) /\ (e # x => wr'[x].out.body = <<>>)
        BY <1>6, <2>2, <2>3
      <3> QED
        BY <1>6, <1>9, <1>11, <2>1, <3>1 DEF Only
    <2> QED
      BY <2>1, <2>2, <2>4 DEF Landed
  <1> QED
    BY <1>3, <1>5, <1>12, <1>13

LEMMA LandedSettles ==
  ASSUME NEW q \in Request, NEW st \in Status \ {"none"}, NEW body, Landed(q, st, body)',
         log'[q].due = [status |-> st, body |-> body]
  PROVE  Settled(q)'
  BY DEF Landed, Settled, Matches, Shown

\* A write through w leaves the recorders M with the status of the front.
LEMMA MeterWrite ==
  ASSUME TypeOK, UNCHANGED app, NEW q \in Request, NEW s \in Seq(Frame), NEW v, NEW native,
         FramesOK(Base(q), s, v, wr, native), NEW w \in Outer(Base(q), Taken(s, Writing, 0)),
         NEW st, NEW body, NEW wrs \in [Wrapper -> WrapperState], Write(w, st, body, wrs),
         Through(Base(q), w, Taken(s, {"metrics"}, 0), wr),
         \A x \in Taken(s, {"metrics"}, 0) : wrs[x].out.status = Front(q).status
  PROVE  \A x \in Taken(s, {"metrics"}, 0) : wr'[x].out.status = Front(q)'.status
  <1> DEFINE M == Taken(s, {"metrics"}, 0)
             T == Thru(w)
  <1> TAKE x \in M
  <1>1. x \in Wrapper
    BY TakenType DEF Writing
  <1>2. wrs[x] \in WrapperState /\ wrs[x].out.status = Front(q).status
    BY <1>1
  <1>3. SinkIn(w, wr) = Sink(w) /\ ThruIn(w, wr) = T
    BY DEF SinkIn, ThruIn, Sink, Thru
  <1>4. \/ Reaches(q, w, st, body, wrs)
        \/ \E e \in Taken(s, Captors, 0) : Caught(q, e, w, st, body, wrs)
    BY WriteEffect
  <1>5. CASE Reaches(q, w, st, body, wrs)
    <2>1. x \in T
      BY <1>3, <1>5 DEF Reaches, Through
    <2>2. wr'[x] = [wrs[x] EXCEPT !.out = Put(wrs[x].out, st, <<>>)]
      BY <1>5, <2>1 DEF Reaches
    <2>3. wr'[x].out = Put(wrs[x].out, st, <<>>)
      BY <1>2, <2>2 DEF WrapperState
    <2>4. Front(q)' = Put(Front(q), st, body)
      BY <1>5 DEF Reaches
    <2> HIDE DEF T, M
    <2> QED
      BY <1>2, <2>3, <2>4 DEF Put
  <1>6. ASSUME NEW e \in Taken(s, Captors, 0), Caught(q, e, w, st, body, wrs)
        PROVE  wr'[x].out.status = Front(q)'.status
    <2>1. x # e
      BY KindsApart
    <2>2. Sink(w) # Base(q)
      BY <1>6, BaseFacts DEF Caught
    <2>3. x \notin T
      BY <1>3, <2>2 DEF Through
    <2>4. wr'[x] = wrs[x] /\ Front(q)' = Front(q)
      BY <1>1, <1>6, <2>1, <2>3 DEF Caught
    <2> QED
      BY <1>2, <2>4
  <1> QED
    BY <1>4, <1>5, <1>6

----------------------------------------------------------------------------
(* The bottom of the chain, where a request turns around.                   *)

\* What is known at the turning point of a request.
LEMMA Downward ==
  ASSUME IInv, RInv, NEW q \in Request, g[q].pc = "down"
  PROVE  /\ TypeOK /\ ResponseOK(q) /\ AllBlank(q) /\ ~buf[q].bypassed /\ client[q] = Blank
         /\ g[q].out = "ok" /\ log[q].due = Blank /\ log[q].exact /\ ~log[q].raw /\ log[q].seen = {}
         /\ g[q].stack \in Seq(Frame) /\ Wired(q, g[q].stack, g[q].w, wr)
         /\ ctx[g[q].c].res \in Outer(Base(q), Held(q)) /\ ~ctx[g[q].c].written
         /\ g[q].w \in Outer(Base(q), Held(q))
         /\ g[q].way = "native" => ctx[g[q].c].res = g[q].w
         /\ wr \in [Wrapper -> WrapperState] /\ Held(q) \subseteq Wrapper
         /\ Meters(q) \subseteq Held(q) /\ Captures(q) \subseteq Held(q)
         /\ g[q].c \in Ctx
  <1>1. TypeOK /\ ResponseOK(q) /\ wr \in [Wrapper -> WrapperState]
    BY DEF IInv, RInv, TypeOK, WrapperState
  <1>2. g[q].stack \in Seq(Frame) /\ Wired(q, g[q].stack, g[q].w, wr)
    BY <1>1, WiredNow
  <1>3. Held(q) \subseteq Wrapper /\ Meters(q) \subseteq Held(q) /\ Captures(q) \subseteq Held(q)
    BY <1>2, TakenType, TakenMono DEF Held, Meters, Captures, Captors, Writing
  <1>4. g[q].c \in Ctx
    BY OwnCtx DEF Active
  <1> QED
    BY <1>1, <1>2, <1>3, <1>4 DEF ResponseOK, EarlyOK, WritersOK

\* It turns around with a response that it writes through w.
LEMMA TurnWrites ==
  ASSUME IInv, RInv, NEW q \in Request, g[q].pc = "down", OwnOnly(q),
         NEW o \in {"ok", "err", "panic"}, Goes(q, "up", g[q].stack, g[q].w, o),
         NEW w \in Outer(Base(q), Held(q)), Metered(q) => Through(Base(q), w, Meters(q), wr),
         NEW st \in Status \ {"none"}, NEW body \in Body(q), Write(w, st, body, wr),
         log'[q].seen = log[q].seen,
         o = "ok" /\ log'[q].exact => log'[q].due = [status |-> st, body |-> body],
         log'[q].raw => ~log'[q].exact,
         o # "ok" => ~log'[q].exact /\ (ctx'[g[q].c].written \/ log'[q].raw),
         o = "err" => /\ ctx'[g[q].c].res = g[q].w
                      /\ log'[q].due = [status |-> "error", body |-> <<<<q, "error">>>>],
         g[q].way = "native" => ctx'[g[q].c].res = g[q].w
  PROVE  RInv'
  <1> DEFINE s == g[q].stack
  <1>1. /\ TypeOK /\ ResponseOK(q) /\ AllBlank(q) /\ ~buf[q].bypassed /\ client[q] = Blank
        /\ s \in Seq(Frame) /\ Wired(q, s, g[q].w, wr) /\ log[q].seen = {}
        /\ wr \in [Wrapper -> WrapperState] /\ Held(q) \subseteq Wrapper
        /\ Meters(q) \subseteq Held(q)
    BY Downward
  <1>2. /\ UNCHANGED app /\ Metered(q)' = Metered(q) /\ Held(q)' = Held(q)
        /\ Captures(q)' = Captures(q) /\ Meters(q)' = Meters(q)
        /\ Has("OnSend")' = Has("OnSend")
    <2>1. UNCHANGED app
      BY DEF OwnOnly
    <2> QED
      BY <2>1, GoesKeeps DEF Held, Captures, Meters
  <1>3. Wired(q, s, g[q].w, wr')
    <2>1. \A x \in Taken(s, Writing, 0) : SameWiring(x, wr, wr')
      BY <1>1, WriteWiring DEF Held
    <2> HIDE DEF s
    <2> QED
      BY <1>1, <2>1, WiredKept
  <1>4. FramesOK(Base(q), s, g[q].w, wr, g[q].way = "native")
    BY <1>1 DEF Wired
  <1>5. Contained(q) /\ Thru(w) \subseteq Taken(s, Recorders, 0)
        /\ \/ Reaches(q, w, st, body, wr)
           \/ \E e \in Taken(s, Captors, 0) : Caught(q, e, w, st, body, wr)
    <2>1. w \in Outer(Base(q), Taken(s, Writing, 0))
      BY DEF Held
    <2> HIDE DEF s
    <2> QED
      BY <1>1, <1>2, <1>4, <2>1, WriteEffect
  <1>6. Landed(q, st, body)' /\ \E place \in Wrapper \cup {None} : Only(q, place)'
    BY <1>1, <1>2, Lands
  <1>7. Metered(q) => \A x \in Meters(q) : wr'[x].out.status = Front(q)'.status
    <2> SUFFICES ASSUME Metered(q)
                 PROVE  \A x \in Meters(q) : wr'[x].out.status = Front(q)'.status
      OBVIOUS
    <2>1. w \in Outer(Base(q), Taken(s, Writing, 0)) /\ Meters(q) = Taken(s, {"metrics"}, 0)
      BY DEF Held, Meters
    <2>2. \A x \in Taken(s, {"metrics"}, 0) : wr[x].out.status = Front(q).status
      BY <1>1, <2>1 DEF AllBlank
    <2> HIDE DEF s
    <2> QED
      BY <1>1, <1>2, <1>4, <2>1, <2>2, MeterWrite
  <1>8. /\ ~Has("OnSend") => ~buf'[q].bypassed
        /\ Has("OnSend") /\ ~buf'[q].bypassed => client'[q] = Blank
    BY <1>1, <1>5 DEF Contained
  <1>9. HoldsOK(q)'
    <2>1. o = "ok" /\ log'[q].exact => Settled(q)'
      BY <1>6, LandedSettles
    <2>2. g'[q].out = o
      BY DEF Goes
    <2>3. Composed(q)'
      BY <1>6, OnlyComposed
    <2> QED
      BY <1>1, <1>2, <1>7, <1>8, <2>1, <2>2, <2>3 DEF HoldsOK
  <1>10. ResponseOK(q)'
    <2> HIDE DEF s
    <2>1. Goes(q, "up", s, g[q].w, o)
      BY DEF s
    <2> QED
      BY <1>1, <1>2, <1>3, <1>9, <2>1, UpKeeps
  <1>11. \A x \in Wrapper \ Held(q) : wr'[x] = wr[x]
    <2>1. Taken(s, Recorders, 0) \subseteq Held(q) /\ Taken(s, Captors, 0) \subseteq Held(q)
      BY <1>1, TakenMono DEF Held, Recorders, Captors, Writing
    <2> HIDE DEF s
    <2> QED
      BY <1>5, <2>1 DEF Reaches, Caught
  <1> QED
    BY <1>2, <1>5, <1>10, <1>11, Alone DEF Contained

\* It turns around and has written nothing.
LEMMA TurnSilent ==
  ASSUME IInv, RInv, NEW q \in Request, g[q].pc = "down", OwnOnly(q),
         NEW o \in {"ok", "err", "panic"}, Goes(q, "up", g[q].stack, g[q].w, o),
         wr' = wr, client' = client, buf' = buf, log'[q].seen = log[q].seen,
         o = "ok" /\ log'[q].exact => Shown(log'[q].due) = Shown(Blank),
         o # "ok" /\ log'[q].exact => ~ctx'[g[q].c].written,
         log'[q].raw => ~log'[q].exact,
         o = "err" => /\ ctx'[g[q].c].res = g[q].w
                      /\ log'[q].due = [status |-> "error", body |-> <<<<q, "error">>>>],
         g[q].way = "native" => ctx'[g[q].c].res = g[q].w
  PROVE  RInv'
  <1> DEFINE s == g[q].stack
  <1>1. /\ TypeOK /\ ResponseOK(q) /\ AllBlank(q) /\ ~buf[q].bypassed /\ client[q] = Blank
        /\ s \in Seq(Frame) /\ Wired(q, s, g[q].w, wr) /\ log[q].seen = {}
        /\ wr \in [Wrapper -> WrapperState] /\ Held(q) \subseteq Wrapper
        /\ Meters(q) \subseteq Held(q)
    BY Downward
  <1>2. /\ UNCHANGED app /\ Metered(q)' = Metered(q) /\ Held(q)' = Held(q)
        /\ Captures(q)' = Captures(q) /\ Meters(q)' = Meters(q)
        /\ Has("OnSend")' = Has("OnSend")
    <2>1. UNCHANGED app
      BY DEF OwnOnly
    <2> QED
      BY <2>1, GoesKeeps DEF Held, Captures, Meters
  <1>3. Front(q)' = Front(q)
    BY <1>2 DEF Front
  <1>4. AllBlank(q)'
    BY <1>1, <1>2, <1>3 DEF AllBlank
  <1>5. Only(q, None)'
    BY <1>4 DEF AllBlank, Only, Body, Blank
  <1>6. HoldsOK(q)'
    <2>1. o = "ok" /\ log'[q].exact => Settled(q)'
      BY <1>4 DEF Settled, Shown, Effective, Blank
    <2>2. g'[q].out = o
      BY DEF Goes
    <2>3. \A x \in Meters(q)' : wr'[x].out.status = Front(q)'.status
      BY <1>1, <1>2, <1>4 DEF AllBlank
    <2>4. /\ ~Has("OnSend") => ~buf'[q].bypassed
          /\ Has("OnSend") /\ ~buf'[q].bypassed => client'[q] = Blank
      BY <1>1
    <2>5. Composed(q)'
      BY <1>5, OnlyComposed
    <2> QED
      BY <1>1, <1>2, <2>1, <2>2, <2>3, <2>4, <2>5 DEF HoldsOK
  <1>7. ResponseOK(q)'
    <2>1. Wired(q, s, g[q].w, wr')
      BY <1>1
    <2> HIDE DEF s
    <2>2. Goes(q, "up", s, g[q].w, o)
      BY DEF s
    <2> QED
      BY <1>1, <1>2, <1>4, <1>6, <2>1, <2>2, UpKeeps
  <1> QED
    BY <1>2, <1>7, Alone

\* It streams past the buffer that is right under c.res.
LEMMA TurnStreams ==
  ASSUME IInv, RInv, NEW q \in Request, g[q].pc = "down", OwnOnly(q),
         Goes(q, "up", g[q].stack, g[q].w, "ok"), g[q].w = Buf(q), wr' = wr,
         Bypassed(q, <<<<q, "data">>>>), log'[q].seen = log[q].seen, ~log'[q].raw,
         log'[q].due = [status |-> "200", body |-> <<<<q, "data">>>>],
         g[q].way = "native" => ctx'[g[q].c].res = g[q].w
  PROVE  RInv'
  <1> DEFINE s == g[q].stack
             data == <<<<q, "data">>>>
  <1>1. /\ TypeOK /\ ResponseOK(q) /\ AllBlank(q) /\ ~buf[q].bypassed /\ client[q] = Blank
        /\ s \in Seq(Frame) /\ Wired(q, s, g[q].w, wr) /\ log[q].seen = {}
        /\ wr \in [Wrapper -> WrapperState] /\ Held(q) \subseteq Wrapper
        /\ Meters(q) \subseteq Held(q) /\ Captures(q) \subseteq Held(q)
        /\ g[q].w \in Outer(Base(q), Held(q))
    BY Downward
  <1>2. /\ UNCHANGED app /\ Metered(q)' = Metered(q) /\ Held(q)' = Held(q)
        /\ Captures(q)' = Captures(q) /\ Meters(q)' = Meters(q)
        /\ Has("OnSend")' = Has("OnSend")
    <2>1. UNCHANGED app
      BY DEF OwnOnly
    <2> QED
      BY <2>1, GoesKeeps DEF Held, Captures, Meters
  <1>3. Has("OnSend") /\ Base(q) = Buf(q)
    <2>1. g[q].w = Base(q) \/ \E x \in Held(q) : g[q].w = Wrap(x)
      BY <1>1 DEF Outer
    <2>2. \A x : Buf(q) # Wrap(x)
      BY DEF Buf, Wrap
    <2>3. Base(q) = Buf(q)
      BY <2>1, <2>2
    <2> QED
      BY <2>3, BaseFacts
  <1>4. buf[q].out = Blank
    BY <1>1, <1>3 DEF AllBlank, Front
  <1>5. data \in Body(q) /\ <<>> \o data = data
    <2>1. data \in Body(q)
      BY DEF Body
    <2> QED
      BY <2>1, BodyFacts
  <1>6. /\ buf' = [buf EXCEPT ![q] = [bypassed |-> TRUE, out |-> [buf[q].out EXCEPT !.body = <<>>]]]
        /\ client' = [client EXCEPT ![q] = Put(Blank, "200", data)]
    BY <1>1, <1>4 DEF Bypassed, Blank
  <1>7. Put(Blank, "200", data) = [status |-> "200", body |-> data]
    BY <1>5 DEF Put, Blank
  <1>8. /\ buf'[q].bypassed /\ client'[q] = [status |-> "200", body |-> data]
        /\ \A p \in Request \ {q} : client'[p] = client[p] /\ buf'[p] = buf[p]
    BY <1>1, <1>6, <1>7 DEF TypeOK
  <1>9. Front(q)' = [status |-> "200", body |-> data]
    BY <1>8 DEF Front
  <1>10. Only(q, None)'
    <2>1. \A x \in Held(q) : wr'[x].out.body = <<>>
      BY <1>1 DEF AllBlank, Blank
    <2>2. <<>> \in Body(q) /\ Body(q)' = Body(q)
      BY DEF Body
    <2> HIDE DEF data
    <2> QED
      BY <1>2, <1>5, <1>9, <2>1, <2>2 DEF Only
  <1>11. Settled(q)'
    <2>1. \A x \in Captures(q) : wr'[x].out = Blank
      BY <1>1 DEF AllBlank
    <2> QED
      BY <1>2, <1>9, <2>1 DEF Settled, Matches
  <1>12. Metered(q) => Meters(q) = {}
    <2>1. SinkIn(g[q].w, wr) = Base(q) /\ ThruIn(g[q].w, wr) = {}
      BY <1>3, BaseFacts DEF SinkIn, ThruIn
    <2> QED
      BY <1>1, <2>1 DEF Wired, Through, Meters
  <1>13. HoldsOK(q)'
    <2>1. Composed(q)'
      BY <1>10, OnlyComposed
    <2> QED
      BY <1>1, <1>2, <1>3, <1>8, <1>11, <1>12, <2>1 DEF HoldsOK
  <1>14. ResponseOK(q)'
    <2>1. Wired(q, s, g[q].w, wr')
      BY <1>1
    <2> HIDE DEF s
    <2>2. Goes(q, "up", s, g[q].w, "ok")
      BY DEF s
    <2> QED
      BY <1>1, <1>2, <1>13, <2>1, <2>2, UpKeeps
  <1> QED
    BY <1>2, <1>8, <1>14, Alone

\* The goroutine of q has turned around.
LEMMA TurnGoes ==
  ASSUME TypeOK, NEW q \in Request, NEW ph, NEW o, Turned(q, ph, o)
  PROVE  Goes(q, ph, g[q].stack, g[q].w, o)
  <1>1. g[q] \in Goroutine /\ g \in [Request -> Goroutine]
    BY DEF TypeOK
  <1>2. CASE g' = [g EXCEPT ![q].pc = ph, ![q].out = o]
    BY <1>1, <1>2 DEF Goes, Goroutine
  <1>3. CASE g' = [g EXCEPT ![q].pc = ph] /\ o = g[q].out
    BY <1>1, <1>3 DEF Goes, Goroutine
  <1>4. CASE g' = [g EXCEPT ![q].out = o] /\ ph = g[q].pc
    BY <1>1, <1>4 DEF Goes, Goroutine
  <1> QED
    BY <1>2, <1>3, <1>4 DEF Turned

\* What the log says of a handler that ran, and of a response that is due.
LEMMA RanFacts ==
  ASSUME TypeOK, NEW q \in Request, NEW st, NEW what, NEW exact \in BOOLEAN,
         NEW raw \in BOOLEAN, Ran(q, st, what, exact, raw)
  PROVE  /\ log'[q].due = [status |-> st, body |-> what] /\ log'[q].exact = exact
         /\ log'[q].seen = log[q].seen /\ log'[q].raw = raw
  <1>1. log[q] \in Memory /\ log \in [Request -> Memory]
    BY DEF TypeOK
  <1> QED
    BY <1>1 DEF Ran, Memory

LEMMA DueFacts ==
  ASSUME TypeOK, NEW q \in Request, NEW due,
         \/ log' = [log EXCEPT ![q].due = due]
         \/ \E lost : log' = [log EXCEPT ![q].lost = lost, ![q].due = due]
  PROVE  /\ log'[q].due = due /\ log'[q].exact = log[q].exact
         /\ log'[q].seen = log[q].seen /\ log'[q].raw = log[q].raw
  <1>1. log[q] \in Memory /\ log \in [Request -> Memory]
    BY DEF TypeOK
  <1> QED
    BY <1>1 DEF Memory

LEMMA HandledFacts ==
  ASSUME TypeOK, NEW q \in Request, g[q].c \in Ctx, NEW written, Handled(q, written)
  PROVE  ctx'[g[q].c].res = g[q].w /\ ctx'[g[q].c].written = written
  BY DEF Handled, TypeOK

LEMMA WrittenFacts ==
  ASSUME TypeOK, NEW q \in Request, g[q].c \in Ctx, NEW res, Written(q, res)
  PROVE  ctx'[g[q].c].res = res /\ ctx'[g[q].c].written
  <1>1. ctx[g[q].c] \in [req : Nat, res : Writers, written : BOOLEAN]
    BY DEF TypeOK
  <1> QED
    BY <1>1 DEF Written, TypeOK

\* Through the writer at hand.
LEMMA TurnsHere ==
  ASSUME IInv, RInv, NEW q \in Request, g[q].pc = "down", OwnOnly(q),
         NEW o \in {"ok", "err", "panic"}, Turned(q, "up", o),
         NEW st \in Status \ {"none"}, NEW body \in Body(q), Write(g[q].w, st, body, wr),
         log'[q].seen = log[q].seen,
         o = "ok" /\ log'[q].exact => log'[q].due = [status |-> st, body |-> body],
         log'[q].raw => ~log'[q].exact,
         o # "ok" => ~log'[q].exact /\ (ctx'[g[q].c].written \/ log'[q].raw),
         o = "err" => /\ ctx'[g[q].c].res = g[q].w
                      /\ log'[q].due = [status |-> "error", body |-> <<<<q, "error">>>>],
         UNCHANGED ctx \/ ctx'[g[q].c].res = g[q].w
  PROVE  RInv'
  <1>1. /\ TypeOK /\ Wired(q, g[q].stack, g[q].w, wr) /\ g[q].w \in Outer(Base(q), Held(q))
        /\ g[q].way = "native" => ctx[g[q].c].res = g[q].w
    BY Downward
  <1>2. Goes(q, "up", g[q].stack, g[q].w, o)
    BY <1>1, TurnGoes
  <1>3. Metered(q) => Through(Base(q), g[q].w, Meters(q), wr)
    BY <1>1 DEF Wired, Meters
  <1>4. g[q].way = "native" => ctx'[g[q].c].res = g[q].w
    BY <1>1
  <1> QED
    BY <1>1, <1>2, <1>3, <1>4, TurnWrites

LEMMA OwnBody ==
  ASSUME NEW q \in Request
  PROVE  /\ <<>> \in Body(q) /\ \A what \in {"data", "error"} : <<<<q, what>>>> \in Body(q)
         /\ {"200", "301", "304", "404", "error"} \subseteq Status \ {"none"}
  BY DEF Body, Status

LEMMA RejectAnswers ==
  ASSUME IInv, RInv, NEW q \in Request, Reject(q) PROVE RInv'
  <1>1. /\ g[q].pc = "down" /\ OwnOnly(q) /\ Due(q, "error", "error") /\ UNCHANGED ctx
    BY StepIsOwn DEF Reject, At, Step
  <1>2. /\ TypeOK /\ ~ctx[g[q].c].written /\ g[q].out = "ok" /\ ~log[q].raw
        /\ g[q].way = "native" => ctx[g[q].c].res = g[q].w
    BY <1>1, Downward
  <1>3. /\ log'[q].due = [status |-> "error", body |-> <<<<q, "error">>>>]
        /\ log'[q].seen = log[q].seen /\ ~log'[q].raw
    BY <1>1, <1>2, DueFacts DEF Due
  <1>4. CASE g[q].way = "native"
    <2>1. Turned(q, "up", "err") /\ wr' = wr /\ client' = client /\ buf' = buf
      BY <1>4 DEF Reject, Turned, Silent
    <2>2. Goes(q, "up", g[q].stack, g[q].w, "err")
      BY <1>2, <2>1, TurnGoes
    <2> QED
      BY <1>1, <1>2, <1>3, <1>4, <2>1, <2>2, TurnSilent
  <1>5. CASE g[q].way # "native"
    <2>1. Turned(q, "up", "ok") /\ Write(g[q].w, "error", <<<<q, "error">>>>, wr)
      BY <1>2, <1>5 DEF Reject, Turned
    <2> QED
      BY <1>1, <1>3, <2>1, OwnBody, TurnsHere
  <1> QED
    BY <1>4, <1>5

LEMMA HandlerLostAnswers ==
  ASSUME IInv, RInv, NEW q \in Request, HandlerLost(q) PROVE RInv'
  <1>1. /\ g[q].pc = "down" /\ OwnOnly(q) /\ UNCHANGED ctx /\ Write(g[q].w, "error", <<>>, wr)
    BY StepIsOwn DEF HandlerLost, Bottom, Step
  <1>2. TypeOK /\ g[q].out = "ok" /\ ~log[q].raw
    BY <1>1, Downward
  <1>3. /\ log'[q].due = [status |-> "error", body |-> <<>>]
        /\ log'[q].seen = log[q].seen /\ ~log'[q].raw
    BY <1>2, DueFacts DEF HandlerLost
  <1>4. Turned(q, "up", "ok")
    BY <1>2 DEF HandlerLost, Turned
  <1> QED
    BY <1>1, <1>3, <1>4, OwnBody, TurnsHere

\* The handlers that ran.
LEMMA HandlerWrites ==
  ASSUME IInv, RInv, NEW q \in Request, g[q].pc = "down", OwnOnly(q),
         NEW o \in {"ok", "err", "panic"}, Turned(q, "up", o),
         NEW st \in Status \ {"none"}, NEW body \in Body(q), Write(g[q].w, st, body, wr),
         NEW written \in BOOLEAN, Handled(q, written),
         NEW due, NEW what, NEW exact \in BOOLEAN, NEW raw \in BOOLEAN,
         Ran(q, due, what, exact, raw), raw => ~exact,
         o = "ok" => due = st /\ what = body,
         o # "ok" => ~exact /\ (written \/ raw),
         o = "err" => due = "error" /\ what = <<<<q, "error">>>>
  PROVE  RInv'
  <1>1. TypeOK /\ g[q].c \in Ctx
    BY Downward
  <1>2. ctx'[g[q].c].res = g[q].w /\ ctx'[g[q].c].written = written
    BY <1>1, HandledFacts
  <1>3. /\ log'[q].due = [status |-> due, body |-> what] /\ log'[q].exact = exact
        /\ log'[q].seen = log[q].seen /\ log'[q].raw = raw
    BY <1>1, RanFacts
  <1>4. /\ o = "ok" => log'[q].due = [status |-> st, body |-> body]
        /\ o = "err" => log'[q].due = [status |-> "error", body |-> <<<<q, "error">>>>]
    BY <1>3
  <1> QED
    BY <1>2, <1>3, <1>4, TurnsHere

LEMMA HandlerSilent ==
  ASSUME IInv, RInv, NEW q \in Request, g[q].pc = "down", OwnOnly(q),
         NEW o \in {"ok", "err", "panic"}, Turned(q, "up", o), Silent(wr),
         NEW written \in BOOLEAN, Handled(q, written), NEW st, NEW body, NEW exact \in BOOLEAN,
         NEW raw \in BOOLEAN, Ran(q, st, body, exact, raw), raw => ~exact,
         o = "ok" /\ exact => Effective(st) = "200" /\ body = <<>>,
         o # "ok" /\ exact => ~written,
         o = "err" => st = "error" /\ body = <<<<q, "error">>>>
  PROVE  RInv'
  <1>1. TypeOK /\ g[q].c \in Ctx
    BY Downward
  <1>2. ctx'[g[q].c].res = g[q].w /\ ctx'[g[q].c].written = written
    BY <1>1, HandledFacts
  <1>3. /\ log'[q].due = [status |-> st, body |-> body] /\ log'[q].exact = exact
        /\ log'[q].seen = log[q].seen /\ log'[q].raw = raw
    BY <1>1, RanFacts
  <1>4. Goes(q, "up", g[q].stack, g[q].w, o)
    BY <1>1, TurnGoes
  <1>5. wr' = wr /\ client' = client /\ buf' = buf
    BY DEF Silent
  <1>6. o = "ok" /\ exact => Shown(log'[q].due) = Shown(Blank)
    BY <1>3 DEF Shown, Blank, Effective
  <1> QED
    BY <1>2, <1>3, <1>4, <1>5, <1>6, TurnSilent

LEMMA HandlerAnswersOnce ==
  ASSUME IInv, RInv, NEW q \in Request, HandlerAnswers(q) PROVE RInv'
  <1>1. g[q].pc = "down" /\ OwnOnly(q)
    BY StepIsOwn DEF HandlerAnswers, Bottom, Step
  <1>2. g[q].out = "ok"
    BY <1>1, Downward
  <1>3. Turned(q, "up", "ok")
    BY <1>2 DEF HandlerAnswers, Turned
  <1>4. ASSUME Write(g[q].w, "200", <<<<q, "data">>>>, wr),
               Ran(q, "200", <<<<q, "data">>>>, TRUE, FALSE),
               NEW helper \in BOOLEAN, Handled(q, helper)
        PROVE  RInv'
    BY <1>1, <1>3, <1>4, OwnBody, HandlerWrites
  <1>5. CASE Silent(wr) /\ Ran(q, "200", <<>>, TRUE, FALSE) /\ Handled(q, FALSE)
    BY <1>1, <1>3, <1>5, HandlerSilent DEF Effective
  <1> QED
    BY <1>4, <1>5 DEF HandlerAnswers

LEMMA HandlerStreamsOnce ==
  ASSUME IInv, RInv, NEW q \in Request, HandlerStreams(q) PROVE RInv'
  <1>1. /\ g[q].pc = "down" /\ OwnOnly(q) /\ Handled(q, TRUE)
        /\ Ran(q, "200", <<<<q, "data">>>>, TRUE, FALSE)
    BY StepIsOwn DEF HandlerStreams, Bottom, Step
  <1>2. TypeOK /\ g[q].out = "ok" /\ g[q].c \in Ctx
    BY <1>1, Downward
  <1>3. Turned(q, "up", "ok")
    BY <1>2 DEF HandlerStreams, Turned
  <1>4. CASE g[q].w = Buf(q)
    <2>1. Bypassed(q, <<<<q, "data">>>>) /\ wr' = wr
      BY <1>4 DEF HandlerStreams
    <2>2. Goes(q, "up", g[q].stack, g[q].w, "ok")
      BY <1>2, <1>3, TurnGoes
    <2>3. ctx'[g[q].c].res = g[q].w
      BY <1>1, <1>2, HandledFacts
    <2>4. /\ log'[q].due = [status |-> "200", body |-> <<<<q, "data">>>>]
          /\ log'[q].seen = log[q].seen /\ ~log'[q].raw
      BY <1>1, <1>2, RanFacts
    <2> QED
      BY <1>1, <1>4, <2>1, <2>2, <2>3, <2>4, TurnStreams
  <1>5. CASE g[q].w # Buf(q)
    <2>1. Write(g[q].w, "200", <<<<q, "data">>>>, wr)
      BY <1>5 DEF HandlerStreams
    <2> QED
      BY <1>1, <1>3, <2>1, OwnBody, HandlerWrites
  <1> QED
    BY <1>4, <1>5

LEMMA HandlerFailsOnce ==
  ASSUME IInv, RInv, NEW q \in Request, HandlerFails(q) PROVE RInv'
  <1>1. g[q].pc = "down" /\ OwnOnly(q)
    BY StepIsOwn DEF HandlerFails, Bottom, Step
  <1>2. Turned(q, "up", "err")
    BY DEF HandlerFails, Turned
  <1>3. ASSUME Silent(wr), NEW begun \in BOOLEAN,
               Ran(q, "error", <<<<q, "error">>>>, ~begun, FALSE), Handled(q, begun)
        PROVE  RInv'
    <2>1. (~begun) \in BOOLEAN
      OBVIOUS
    <2> QED
      BY <1>1, <1>2, <1>3, <2>1, HandlerSilent
  <1>4. CASE /\ Write(g[q].w, "200", <<<<q, "data">>>>, wr)
             /\ Ran(q, "error", <<<<q, "error">>>>, FALSE, TRUE) /\ Handled(q, FALSE)
    BY <1>1, <1>2, <1>4, OwnBody, HandlerWrites
  <1> QED
    BY <1>3, <1>4 DEF HandlerFails

LEMMA HandlerPanicsOnce ==
  ASSUME IInv, RInv, NEW q \in Request, HandlerPanics(q) PROVE RInv'
  <1>1. g[q].pc = "down" /\ OwnOnly(q)
    BY StepIsOwn DEF HandlerPanics, Bottom, Step
  <1>2. Turned(q, "up", "panic")
    BY DEF HandlerPanics, Turned
  <1>3. CASE Silent(wr) /\ Ran(q, "none", <<>>, TRUE, FALSE) /\ Handled(q, FALSE)
    BY <1>1, <1>2, <1>3, HandlerSilent
  <1>4. ASSUME Write(g[q].w, "200", <<<<q, "data">>>>, wr), NEW helper \in BOOLEAN,
               Ran(q, "none", <<>>, FALSE, ~helper), Handled(q, helper)
        PROVE  RInv'
    <2>1. (~helper) \in BOOLEAN
      OBVIOUS
    <2> QED
      BY <1>1, <1>2, <1>4, <2>1, OwnBody, HandlerWrites
  <1> QED
    BY <1>3, <1>4 DEF HandlerPanics

LEMMA NotFoundAnswers ==
  ASSUME IInv, RInv, NEW q \in Request, g[q].pc = "down", g[q].hit # "route", OwnOnly(q),
         AnswerNotFound(q, ctx[g[q].c].res)
  PROVE  RInv'
  <1> DEFINE res == ctx[g[q].c].res
  <1>1. /\ TypeOK /\ ResponseOK(q) /\ g[q].out = "ok" /\ g[q].c \in Ctx /\ ~log[q].raw
        /\ res \in Outer(Base(q), Held(q)) /\ ~ctx[g[q].c].written
        /\ g[q].way = "native" => res = g[q].w
    BY Downward
  <1>2. Turned(q, "up", "ok")
    BY <1>1 DEF AnswerNotFound, Turned
  <1>3. /\ log'[q].due = [status |-> "404", body |-> <<<<q, "error">>>>]
        /\ log'[q].seen = log[q].seen /\ ~log'[q].raw
    BY <1>1, DueFacts DEF AnswerNotFound
  <1>4. CASE Found(q, g[q].r)
    <2>1. Write(res, "404", <<<<q, "error">>>>, wr) /\ Written(q, res)
      BY <1>1, <1>4 DEF AnswerNotFound, JSON
    <2>2. ctx'[g[q].c].res = res
      BY <1>1, <2>1, WrittenFacts
    <2>3. Metered(q) => Through(Base(q), res, Meters(q), wr)
      BY <1>1, <1>4 DEF ResponseOK, MeterOK
    <2>4. Goes(q, "up", g[q].stack, g[q].w, "ok")
      BY <1>1, <1>2, TurnGoes
    <2> HIDE DEF res
    <2> QED
      BY <1>1, <1>3, <2>1, <2>2, <2>3, <2>4, OwnBody, TurnWrites
  <1>5. CASE ~Found(q, g[q].r)
    <2>1. Write(g[q].w, "404", <<<<q, "error">>>>, wr) /\ UNCHANGED ctx
      BY <1>5 DEF AnswerNotFound
    <2> QED
      BY <1>2, <1>3, <2>1, OwnBody, TurnsHere
  <1> QED
    BY <1>4, <1>5

LEMMA MountTurns ==
  ASSUME IInv, RInv, NEW q \in Request,
         MountAnswers(q) \/ MountSilentLost(q) \/ MountPanics(q)
  PROVE  RInv'
  <1>1. g[q].pc = "down" /\ OwnOnly(q) /\ UNCHANGED ctx
    BY StepIsOwn DEF MountAnswers, MountSilentLost, MountPanics, Bottom, Step
  <1>2. /\ TypeOK /\ g[q].out = "ok" /\ log[q].due = Blank /\ ~ctx[g[q].c].written
        /\ ~log[q].raw
        /\ g[q].way = "native" => ctx[g[q].c].res = g[q].w
    BY <1>1, Downward
  <1>3. CASE MountAnswers(q)
    <2>1. Turned(q, "up", "ok") /\ Write(g[q].w, "200", <<<<q, "data">>>>, wr)
      BY <1>2, <1>3 DEF MountAnswers, Turned
    <2>2. /\ log'[q].due = [status |-> "200", body |-> <<<<q, "data">>>>]
          /\ log'[q].seen = log[q].seen /\ ~log'[q].raw
      BY <1>2, <1>3, DueFacts DEF MountAnswers, Due
    <2> QED
      BY <1>1, <2>1, <2>2, OwnBody, TurnsHere
  <1>4. CASE MountSilentLost(q)
    <2>1. Turned(q, "up", "ok") /\ wr' = wr /\ client' = client /\ buf' = buf
      BY <1>2, <1>4 DEF MountSilentLost, Turned
    <2>2. Goes(q, "up", g[q].stack, g[q].w, "ok")
      BY <1>2, <2>1, TurnGoes
    <2>3. log'[q].due = log[q].due /\ log'[q].seen = log[q].seen /\ log'[q].raw = log[q].raw
      <3>1. log[q] \in Memory /\ log \in [Request -> Memory]
        BY <1>2 DEF TypeOK
      <3> QED
        BY <1>4, <3>1 DEF MountSilentLost, Memory
    <2> QED
      BY <1>1, <1>2, <2>1, <2>2, <2>3, TurnSilent
  <1>5. CASE MountPanics(q) /\ Silent(wr) /\ UNCHANGED log
    <2>1. Turned(q, "up", "panic") /\ wr' = wr /\ client' = client /\ buf' = buf /\ log' = log
      BY <1>5 DEF MountPanics, Turned, Silent
    <2>2. Goes(q, "up", g[q].stack, g[q].w, "panic")
      BY <1>2, <2>1, TurnGoes
    <2> QED
      BY <1>1, <1>2, <2>1, <2>2, TurnSilent
  <1>6. CASE /\ MountPanics(q) /\ Write(g[q].w, "200", <<<<q, "data">>>>, wr)
             /\ log' = [log EXCEPT ![q].exact = FALSE, ![q].raw = TRUE]
    <2>1. Turned(q, "up", "panic")
      BY <1>6 DEF MountPanics, Turned
    <2>2. log'[q].raw /\ ~log'[q].exact /\ log'[q].seen = log[q].seen
      <3>1. log[q] \in Memory /\ log \in [Request -> Memory]
        BY <1>2 DEF TypeOK
      <3> QED
        BY <1>6, <3>1 DEF Memory
    <2> QED
      BY <1>1, <1>6, <2>1, <2>2, OwnBody, TurnsHere
  <1> QED
    BY <1>3, <1>4, <1>5, <1>6 DEF MountPanics

----------------------------------------------------------------------------
(* Back up the chain.                                                       *)

\* What is known on the way up.
LEMMA Upward ==
  ASSUME IInv, RInv, NEW q \in Request, g[q].pc = "up"
  PROVE  /\ TypeOK /\ ResponseOK(q) /\ HoldsOK(q) /\ g[q].out \in {"ok", "err", "panic"}
         /\ g[q].stack \in Seq(Frame) /\ Wired(q, g[q].stack, g[q].w, wr)
         /\ g[q].way = "native" => ctx[g[q].c].res = g[q].w
         /\ wr \in [Wrapper -> WrapperState] /\ Held(q) \subseteq Wrapper
         /\ Meters(q) \subseteq Held(q) /\ Captures(q) \subseteq Held(q)
         /\ g[q].c \in Ctx
  <1>1. TypeOK /\ ResponseOK(q) /\ wr \in [Wrapper -> WrapperState]
    BY DEF IInv, RInv, TypeOK, WrapperState
  <1>2. g[q].stack \in Seq(Frame) /\ Wired(q, g[q].stack, g[q].w, wr)
    BY <1>1, WiredNow
  <1>3. Held(q) \subseteq Wrapper /\ Meters(q) \subseteq Held(q) /\ Captures(q) \subseteq Held(q)
    BY <1>2, TakenType, TakenMono DEF Held, Meters, Captures, Captors, Writing
  <1>4. g[q].c \in Ctx /\ g[q].out \in {"ok", "err", "panic"}
    BY OwnCtx DEF Active
  <1>5. HoldsOK(q)
    BY <1>1 DEF ResponseOK, AnswerOK, FaithfulOK, MeterOK, HoldsOK
  <1> QED
    BY <1>1, <1>2, <1>3, <1>4, <1>5 DEF ResponseOK, WritersOK

\* The frame that is left: what it took, and what the frames outside of it took.
Takes(q, f, t) ==
    /\ \A kinds \in {Writing, Captors, {"metrics"}} :
         Taken(g[q].stack, kinds, 0) =
             Taken(t, kinds, 0) \cup (IF f.kind \in kinds THEN {f.x} ELSE {})
    /\ f.kind \in Writing => f.x \notin Taken(t, Writing, 0) /\ f.x \in Wrapper
    /\ f.kind \notin Writing => g[q].w = f.w
    /\ g[q].way = "native" /\ f.kind \in Writing => f.back = f.w
    /\ f.w \in Outer(Base(q), Taken(t, Writing, 0))

LEMMA Rises ==
  ASSUME IInv, RInv, NEW q \in Request, Rising(q), NEW o, Pop(q, o)
  PROVE  /\ Tail(g[q].stack) \in Seq(Frame) /\ Goes(q, "up", Tail(g[q].stack), Top(q).w, o)
         /\ Wired(q, Tail(g[q].stack), Top(q).w, wr) /\ Takes(q, Top(q), Tail(g[q].stack))
         /\ g[q].stack # <<>> /\ g[q].pc = "up" /\ Top(q) \in Frame
  <1> DEFINE s == g[q].stack
             t == Tail(s)
             f == Top(q)
  <1>1. g[q].pc = "up" /\ s # <<>>
    BY DEF Rising
  <1>2. TypeOK /\ s \in Seq(Frame) /\ Wired(q, s, g[q].w, wr)
    BY <1>1, Upward
  <1>3. f = Head(s) /\ f \in Frame /\ t \in Seq(Frame)
    BY <1>1, <1>2, StackIndex DEF Top
  <1>4. Wired(q, t, f.w, wr)
    BY <1>1, <1>2, <1>3, WiredTail
  <1>5. Goes(q, "up", t, f.w, o)
    <2>1. g[q] \in Goroutine /\ g \in [Request -> Goroutine]
      BY <1>2 DEF TypeOK
    <2> QED
      BY <1>1, <2>1 DEF Pop, Goes, Goroutine
  <1>6. FrameOK(Base(q), f, g[q].w, Taken(t, Writing, 0), Taken(t, Captors, 0),
                Taken(t, Recorders, 0), wr, g[q].way = "native")
    BY <1>1, <1>2, <1>3, FramesSplit DEF Wired
  <1>7. \A kinds : Taken(s, kinds, 0) = Taken(t, kinds, 0) \cup (IF f.kind \in kinds THEN {f.x} ELSE {})
    BY <1>1, <1>2, <1>3, TakenSplit
  <1>8. f.kind \in Writing => f.x \in Wrapper
    BY <1>3 DEF Frame
  <1>9. Takes(q, f, t)
    BY <1>6, <1>7, <1>8 DEF FrameOK, Takes
  <1> QED
    BY <1>1, <1>3, <1>4, <1>5, <1>9

LEMMA LeavePlainHolds ==
  ASSUME IInv, RInv, NEW q \in Request, LeavePlain(q) PROVE RInv'
  <1> DEFINE s == g[q].stack
             t == Tail(s)
             f == Top(q)
             o == g[q].out
  <1>1. /\ Rising(q) /\ Pop(q, o) /\ f.kind \notin Writing /\ OwnOnly(q) /\ UNCHANGED app
        /\ wr' = wr /\ buf' = buf /\ client' = client /\ log' = log /\ ctx' = ctx
    BY StepIsOwn DEF LeavePlain, Step
  <1>2. /\ t \in Seq(Frame) /\ Goes(q, "up", t, f.w, o) /\ Wired(q, t, f.w, wr)
        /\ Takes(q, f, t) /\ g[q].pc = "up"
    BY <1>1, Rises
  <1>3. /\ TypeOK /\ ResponseOK(q) /\ HoldsOK(q)
        /\ g[q].way = "native" => ctx[g[q].c].res = g[q].w
    BY <1>2, Upward
  <1>4. g[q].w = f.w
    BY <1>1, <1>2 DEF Takes
  <1>5. /\ Held(q)' = Held(q) /\ Captures(q)' = Captures(q) /\ Meters(q)' = Meters(q)
        /\ Front(q)' = Front(q) /\ Has("OnSend")' = Has("OnSend")
        /\ OneETag(q)' = OneETag(q) /\ Metered(q)' = Metered(q) /\ Chain(q)' = Chain(q)
    <2>1. \A kinds \in {Writing, Captors, {"metrics"}} : Taken(s, kinds, 0) = Taken(t, kinds, 0)
      BY <1>1, <1>2 DEF Takes, Writing, Captors
    <2>2. Held(q) = Taken(t, Writing, 0) /\ Captures(q) = Taken(t, Captors, 0)
          /\ Meters(q) = Taken(t, {"metrics"}, 0)
      BY <2>1 DEF Held, Captures, Meters
    <2>3. Front(q)' = Front(q)
      BY <1>1 DEF Front, Has
    <2> HIDE DEF t, f, o
    <2> QED
      BY <1>1, <1>2, <2>2, <2>3, GoesKeeps
  <1>6. AllBlank(q)' = AllBlank(q) /\ Composed(q)' = Composed(q)
    <2>1. \A place : Only(q, place)' = Only(q, place)
      BY <1>1, <1>5 DEF Only, Body
    <2>2. Pieces(q)' = Pieces(q)
      BY <1>1, <1>5 DEF Pieces, Own
    <2> QED
      BY <1>1, <1>5, <2>1, <2>2 DEF AllBlank, Composed
  <1>7. Settled(q)' = Settled(q)
    BY <1>1, <1>5, <1>6 DEF Settled, Matches, Shown
  <1>8. g'[q].out = o
    BY <1>2 DEF Goes
  <1>9. HoldsOK(q)'
    BY <1>1, <1>3, <1>5, <1>6, <1>7, <1>8 DEF HoldsOK
  <1>10. ResponseOK(q)'
    <2>1. /\ o # "ok" => /\ ~ctx[g[q].c].written /\ ~log[q].raw => AllBlank(q)
                         /\ log[q].exact => ~ctx[g[q].c].written
          /\ o = "err" => /\ ctx[g[q].c].res = g[q].w
                          /\ log[q].due = [status |-> "error", body |-> <<<<q, "error">>>>]
      BY <1>2, <1>3 DEF ResponseOK, AnswerOK
    <2> HIDE DEF t, f, o
    <2> QED
      BY <1>1, <1>2, <1>3, <1>4, <1>6, <1>9, <2>1, UpKeeps
  <1> QED
    BY <1>1, <1>5, <1>10, Alone

\* Giving a wrapper back: the others stay as they are.
LEMMA ReleaseFacts ==
  ASSUME TypeOK, NEW x \in Wrapper
  PROVE  \A y \in Wrapper \ {x} : Released(x)[y] = wr[y]
  BY DEF Released, TypeOK

\* c.res is put back: on the native path it is what the middleware received.
LEMMA RestoreFacts ==
  ASSUME TypeOK, NEW q \in Request, g[q].c \in Ctx, Restore(q), NEW t,
         Takes(q, Top(q), t), Top(q).kind \in Writing
  PROVE  /\ g[q].way = "native" => ctx'[g[q].c].res = Top(q).w
         /\ ctx'[g[q].c].written = ctx[g[q].c].written
  <1>1. ctx[g[q].c] \in [req : Nat, res : Writers, written : BOOLEAN]
    BY DEF TypeOK
  <1>2. Top(q).w # Nil
    <2>1. Top(q).w = Base(q) \/ \E x : Top(q).w = Wrap(x)
      BY DEF Takes, Outer
    <2>2. \A x : Wrap(x) # Nil
      BY DEF Wrap, Nil
    <2>3. Base(q) # Nil
      BY BaseFacts
    <2> QED
      BY <2>1, <2>2, <2>3
  <1>3. CASE Top(q).back = Nil
    BY <1>1, <1>2, <1>3 DEF Restore, Takes
  <1>4. CASE Top(q).back # Nil
    <2>1. ctx' = [ctx EXCEPT ![g[q].c].res = Top(q).back]
      BY <1>4 DEF Restore
    <2>2. ctx'[g[q].c].res = Top(q).back /\ ctx'[g[q].c].written = ctx[g[q].c].written
      BY <1>1, <2>1 DEF TypeOK
    <2> QED
      BY <2>2 DEF Takes
  <1> QED
    BY <1>3, <1>4

\* Outside of the middleware on top there is no capture, if it is metrics outside of
\* captures, or the only etag.
LEMMA NoCaptureOutside ==
  ASSUME IInv, RInv, NEW q \in Request, Rising(q),
         \/ Top(q).kind = "metrics" /\ Metered(q)
         \/ Top(q).kind = "etag" /\ OneETag(q)
  PROVE  Taken(Tail(g[q].stack), Captors, 0) = {}
  <1> DEFINE s == g[q].stack
             t == Tail(s)
             chain == Chain(q)
  <1>1. g[q].pc = "up" /\ s # <<>> /\ Top(q) = Head(s)
    BY DEF Rising, Top
  <1>2. TypeOK /\ s \in Seq(Frame) /\ Wired(q, s, g[q].w, wr)
    BY <1>1, Upward
  <1>3. chain \in Seq(Kind) /\ Len(chain) \in Nat /\ DOMAIN chain = 1 .. Len(chain)
    BY <1>2, ChainType
  <1>4. /\ Len(s) <= Len(chain) /\ Head(s).kind = chain[Len(s)] /\ TrailOK(t, chain)
        /\ t \in Seq(Frame) /\ Len(t) = Len(s) - 1 /\ Len(s) \in Nat \ {0}
    BY <1>1, <1>2, <1>3, TrailSplit, StackIndex DEF Wired
  <1>5. Len(s) \in DOMAIN chain
    BY <1>3, <1>4
  <1> SUFFICES ASSUME NEW e \in Taken(t, Captors, 0) PROVE FALSE
    OBVIOUS
  <1> HIDE DEF t, chain, s
  <1>6. chain \in Seq(Kind) /\ t \in Seq(Frame) /\ TrailOK(t, chain)
    BY <1>3, <1>4
  <1>7. PICK i \in DOMAIN chain : i <= Len(t) /\ chain[i] = "etag"
    BY <1>6, CaptureInChain
  <1>8. i < Len(s) /\ i # Len(s)
    BY <1>3, <1>4, <1>7
  <1>9. CASE Top(q).kind = "metrics" /\ Metered(q)
    BY <1>1, <1>4, <1>5, <1>7, <1>8, <1>9 DEF Metered, Inside, chain, s
  <1>10. CASE Top(q).kind = "etag" /\ OneETag(q)
    BY <1>1, <1>4, <1>5, <1>7, <1>8, <1>10 DEF OneETag, ETagOnce, chain, s
  <1> QED
    BY <1>9, <1>10

\* A wrapper is given back and what is in it is dropped; metrics have the status of the
\* response.
LEMMA Drops ==
  ASSUME IInv, RInv, NEW q \in Request, Rising(q), Pop(q, g[q].out), OwnOnly(q),
         Top(q).kind \in Writing, Top(q).kind = "etag" => g[q].out # "ok",
         Silent(Released(Top(q).x)), Restore(q),
         log'[q].due = log[q].due, log'[q].exact = log[q].exact, log'[q].raw = log[q].raw,
         \A st \in Status : <<"metrics", st>> \in log'[q].seen =>
            \/ <<"metrics", st>> \in log[q].seen
            \/ /\ Top(q).kind = "metrics" /\ g[q].out # "panic"
               /\ st = Effective(wr[Top(q).x].out.status)
  PROVE  RInv'
  <1> DEFINE s == g[q].stack
             t == Tail(s)
             f == Top(q)
             x == f.x
             o == g[q].out
  <1>1. UNCHANGED app /\ wr' = Released(x) /\ buf' = buf /\ client' = client
    BY DEF OwnOnly, Silent
  <1>2. /\ t \in Seq(Frame) /\ Goes(q, "up", t, f.w, o) /\ Wired(q, t, f.w, wr)
        /\ Takes(q, f, t) /\ g[q].pc = "up"
    BY Rises
  <1>3. /\ TypeOK /\ ResponseOK(q) /\ HoldsOK(q) /\ g[q].c \in Ctx
        /\ Held(q) \subseteq Wrapper /\ Meters(q) \subseteq Held(q) /\ Captures(q) \subseteq Held(q)
        /\ o \in {"ok", "err", "panic"}
    BY <1>2, Upward
  <1>4. /\ g[q].way = "native" => ctx'[g[q].c].res = f.w
        /\ ctx'[g[q].c].written = ctx[g[q].c].written
    BY <1>2, <1>3, RestoreFacts
  <1>5. /\ Held(q)' = Taken(t, Writing, 0) /\ Captures(q)' = Taken(t, Captors, 0)
        /\ Meters(q)' = Taken(t, {"metrics"}, 0) /\ Has("OnSend")' = Has("OnSend")
        /\ OneETag(q)' = OneETag(q) /\ Metered(q)' = Metered(q) /\ Chain(q)' = Chain(q)
        /\ g'[q].out = o
    <2>1. g'[q].out = o
      BY <1>2 DEF Goes
    <2> HIDE DEF t, f, o
    <2> QED
      BY <1>1, <1>2, <2>1, GoesKeeps
  <1>6. /\ Held(q) = Held(q)' \cup {x} /\ x \notin Held(q)' /\ x \in Wrapper
        /\ Captures(q) = Captures(q)' \cup (IF f.kind = "etag" THEN {x} ELSE {})
        /\ Meters(q) = Meters(q)' \cup (IF f.kind = "metrics" THEN {x} ELSE {})
    BY <1>2, <1>5 DEF Takes, Held, Captures, Meters, Captors
  <1>7. \A y \in Held(q)' : wr'[y] = wr[y]
    BY <1>1, <1>3, <1>6, ReleaseFacts
  <1>8. Captures(q)' \subseteq Held(q)' /\ Meters(q)' \subseteq Held(q)'
    <2>1. {"etag"} \subseteq Writing /\ {"metrics"} \subseteq Writing /\ 0 \in Nat
      BY DEF Writing
    <2>2. /\ Taken(t, Captors, 0) \subseteq Taken(t, Writing, 0)
          /\ Taken(t, {"metrics"}, 0) \subseteq Taken(t, Writing, 0)
      BY <1>2, <2>1, TakenMono DEF Captors
    <2> QED
      BY <1>5, <2>2
  <1> HIDE DEF t, f, x, o
  <1>9. Front(q)' = Front(q)
    BY <1>1, <1>5 DEF Front
  <1>10. AllBlank(q) => AllBlank(q)'
    BY <1>6, <1>7, <1>9 DEF AllBlank
  <1>11. Composed(q) => Composed(q)'
    <2>1. \A place : Only(q, place) => Only(q, place)'
      BY <1>6, <1>7, <1>9 DEF Only, Body
    <2>2. Pieces(q) => Pieces(q)'
      BY <1>6, <1>7, <1>9 DEF Pieces, Own
    <2> QED
      BY <2>1, <2>2 DEF Composed
  <1>12. f.kind # "etag" /\ Settled(q) => Settled(q)'
    <2>1. ASSUME f.kind # "etag", Settled(q) PROVE Settled(q)'
      <3>1. Captures(q)' = Captures(q) /\ \A y \in Captures(q) : wr'[y] = wr[y]
        BY <1>6, <1>7, <1>8, <2>1
      <3>2. Shown(log'[q].due) = Shown(log[q].due) /\ \A out : Matches(q, out)' = Matches(q, out)
        BY <1>5 DEF Shown, Matches
      <3> QED
        BY <1>9, <1>10, <2>1, <3>1, <3>2 DEF Settled
    <2> QED
      BY <2>1
  <1>13. Metered(q) => \A y \in Meters(q)' : wr'[y].out.status = Front(q)'.status
    BY <1>3, <1>6, <1>7, <1>8, <1>9 DEF HoldsOK
  <1>14. ASSUME Metered(q), NEW st \in Status, <<"metrics", st>> \in log'[q].seen
         PROVE  o = "ok" /\ Captures(q)' = {} /\ st = Effective(Front(q)'.status)
    <2>1. CASE <<"metrics", st>> \in log[q].seen
      BY <1>3, <1>6, <1>9, <1>14, <2>1 DEF HoldsOK, o
    <2>2. CASE /\ f.kind = "metrics" /\ g[q].out # "panic"
               /\ st = Effective(wr[x].out.status)
      <3>1. x \in Meters(q)
        BY <1>6, <2>2
      <3>2. wr[x].out.status = Front(q).status
        BY <1>3, <1>14, <3>1 DEF HoldsOK
      <3>3. Captures(q)' = {}
        BY <1>5, <1>14, <2>2, NoCaptureOutside DEF f, t
      <3>4. o # "err"
        BY <1>14 DEF o, Rising, AtErrorHandler, Metered
      <3> QED
        BY <1>3, <1>9, <2>2, <3>2, <3>3, <3>4 DEF o
    <2> QED
      BY <1>14, <2>1, <2>2 DEF f, x
  <1>15. HoldsOK(q)'
    <2>1. Composed(q)'
      BY <1>3, <1>11 DEF HoldsOK
    <2>2. /\ ~Has("OnSend") => ~buf'[q].bypassed
          /\ Has("OnSend") /\ ~buf'[q].bypassed => client'[q] = Blank
      BY <1>1, <1>3 DEF HoldsOK
    <2>3. OneETag(q) /\ o = "ok" /\ log'[q].exact => Settled(q)'
      BY <1>3, <1>12 DEF HoldsOK, f, o
    <2> QED
      BY <1>5, <1>13, <1>14, <2>1, <2>2, <2>3 DEF HoldsOK
  <1>16. Wired(q, t, f.w, wr')
    <2>1. \A y \in Taken(t, Writing, 0) : SameWiring(y, wr, wr')
      BY <1>5, <1>7 DEF SameWiring
    <2> QED
      BY <1>2, <2>1, WiredKept
  <1>17. ResponseOK(q)'
    <2>1. /\ o # "ok" => /\ ~ctx[g[q].c].written /\ ~log[q].raw => AllBlank(q)
                         /\ log[q].exact => ~ctx[g[q].c].written
          /\ o = "err" => /\ g[q].way = "native"
                          /\ log[q].due = [status |-> "error", body |-> <<<<q, "error">>>>]
      <3>1. o = "err" => g[q].way = "native"
        BY DEF o, Rising, AtErrorHandler
      <3> QED
        BY <1>2, <1>3, <3>1 DEF ResponseOK, AnswerOK, o
    <2> QED
      BY <1>1, <1>2, <1>4, <1>10, <1>15, <1>16, <2>1, UpKeeps
  <1>18. \A y \in Wrapper \ Held(q) : wr'[y] = wr[y]
    BY <1>1, <1>3, <1>6, ReleaseFacts
  <1> QED
    BY <1>1, <1>6, <1>17, <1>18, Alone

LEMMA LeaveRecorderHolds ==
  ASSUME IInv, RInv, NEW q \in Request, LeaveRecorder(q) PROVE RInv'
  <1> DEFINE f == Top(q)
             st == Effective(wr[f.x].out.status)
  <1>1. /\ Rising(q) /\ Pop(q, g[q].out) /\ f.kind \in {"log", "metrics"} /\ OwnOnly(q)
        /\ Silent(Released(f.x)) /\ Restore(q) /\ Observes(q, f.kind, st)
    BY StepIsOwn DEF LeaveRecorder, Step
  <1>2. log[q] \in Memory /\ log \in [Request -> Memory]
    BY DEF IInv, TypeOK
  <1>3. /\ log'[q].due = log[q].due /\ log'[q].exact = log[q].exact
        /\ log'[q].raw = log[q].raw
        /\ \A z \in Status : <<"metrics", z>> \in log'[q].seen =>
             \/ <<"metrics", z>> \in log[q].seen
             \/ f.kind = "metrics" /\ g[q].out # "panic" /\ z = st
    <2>1. CASE g[q].out = "panic"
      BY <1>1, <2>1 DEF Observes
    <2>2. CASE g[q].out # "panic"
      <3>1. log' = [log EXCEPT ![q].seen = log[q].seen \cup {<<f.kind, st>>}]
        BY <1>1, <2>2 DEF Observes
      <3> HIDE DEF st, f
      <3>2. /\ log'[q].due = log[q].due /\ log'[q].exact = log[q].exact
            /\ log'[q].raw = log[q].raw
            /\ log'[q].seen = log[q].seen \cup {<<f.kind, st>>}
        BY <1>2, <3>1 DEF Memory
      <3>3. \A z : <<"metrics", z>> = <<f.kind, st>> => f.kind = "metrics" /\ z = st
        OBVIOUS
      <3> QED
        BY <2>2, <3>2, <3>3
    <2> QED
      BY <2>1, <2>2
  <1> QED
    BY <1>1, <1>3, Drops DEF Writing

LEMMA DropCaptureHolds ==
  ASSUME IInv, RInv, NEW q \in Request, DropCapture(q) PROVE RInv'
  <1>1. /\ Rising(q) /\ Pop(q, g[q].out) /\ Top(q).kind = "etag" /\ g[q].out # "ok" /\ OwnOnly(q)
        /\ Silent(Released(Top(q).x)) /\ Restore(q) /\ log' = log
    BY StepIsOwn DEF DropCapture, Step
  <1> QED
    BY <1>1, Drops DEF Writing

\* Of the front and the wrappers X in state wrs, only place has a body.
OnlyIn(q, place, X, wrs) ==
    /\ Front(q).body \in Body(q) /\ (place # None => Front(q).body = <<>>)
    /\ \A x \in X : wrs[x].out.body \in Body(q) /\ (place # x => wrs[x].out.body = <<>>)

\* A write of no body, or of the first one, leaves at most one.
LEMMA OnlyWrites ==
  ASSUME TypeOK, UNCHANGED app, NEW q \in Request, NEW t \in Seq(Frame), NEW v, NEW native,
         FramesOK(Base(q), t, v, wr, native), NEW w \in Outer(Base(q), Taken(t, Writing, 0)),
         NEW st, NEW body \in Body(q), NEW wrs \in [Wrapper -> WrapperState],
         Write(w, st, body, wrs), Held(q)' = Taken(t, Writing, 0),
         NEW place \in Wrapper \cup {None}, OnlyIn(q, place, Taken(t, Writing, 0), wrs),
         \/ body = <<>>
         \/ Front(q).body = <<>> /\ \A x \in Taken(t, Writing, 0) : wrs[x].out.body = <<>>
  PROVE  \E p \in Wrapper \cup {None} : Only(q, p)'
  <1> DEFINE X == Taken(t, Writing, 0)
             T == Thru(w)
  <1>1. /\ T \subseteq Taken(t, Recorders, 0)
        /\ \/ Reaches(q, w, st, body, wrs)
           \/ \E e \in Taken(t, Captors, 0) : Caught(q, e, w, st, body, wrs)
    BY WriteEffect
  <1>2. /\ X \subseteq Wrapper /\ Taken(t, Captors, 0) \subseteq X
        /\ Taken(t, Recorders, 0) \subseteq X
    BY TakenType, TakenMono DEF Captors, Recorders, Writing
  <1>3. Body(q)' = Body(q) /\ <<>> \in Body(q)
    BY DEF Body
  <1>4. \A b \in Body(q) : b \in Seq(Token) /\ <<>> \o b = b /\ b \o <<>> = b
    BY BodyFacts
  <1>5. \A x \in X : wrs[x] \in WrapperState /\ wrs[x].out.body \in Body(q)
    BY <1>2 DEF OnlyIn
  <1>6. \A out : Put(out, st, body).body = out.body \o body /\ Put(out, st, <<>>).body = out.body \o <<>>
    BY DEF Put
  <1> HIDE DEF X, T
  <1>7. ASSUME NEW x \in X,
               wr'[x] = [wrs[x] EXCEPT !.out = Put(wrs[x].out, st, <<>>)] \/ wr'[x] = wrs[x]
        PROVE  wr'[x].out.body = wrs[x].out.body
    <2>1. wrs[x] \in WrapperState /\ wrs[x].out.body \in Body(q)
      BY <1>5
    <2>2. [wrs[x] EXCEPT !.out = Put(wrs[x].out, st, <<>>)].out = Put(wrs[x].out, st, <<>>)
      BY <2>1 DEF WrapperState
    <2>3. wrs[x].out.body \o <<>> = wrs[x].out.body
      BY <1>4, <2>1
    <2>4. Put(wrs[x].out, st, <<>>).body = wrs[x].out.body
      BY <1>6, <2>3
    <2> QED
      BY <1>7, <2>2, <2>4
  <1>8. CASE Reaches(q, w, st, body, wrs)
    <2>1. Front(q)'.body = Front(q).body \o body
      BY <1>6, <1>8 DEF Reaches
    <2>2. \A x \in X : wr'[x].out.body = wrs[x].out.body
      BY <1>2, <1>7, <1>8 DEF Reaches, T
    <2>3. CASE body = <<>>
      <3>1. Front(q)'.body = Front(q).body
        BY <1>4, <2>1, <2>3 DEF OnlyIn
      <3>2. Only(q, place)'
        BY <1>3, <2>2, <3>1 DEF Only, OnlyIn, X
      <3> QED
        BY <3>2
    <2>4. CASE Front(q).body = <<>> /\ \A x \in X : wrs[x].out.body = <<>>
      <3>1. Front(q)'.body = body
        BY <1>4, <2>1, <2>4
      <3>2. Only(q, None)'
        BY <1>3, <2>2, <2>4, <3>1 DEF Only, X
      <3> QED
        BY <3>2
    <2> QED
      BY <2>3, <2>4 DEF X
  <1>9. ASSUME NEW e \in Taken(t, Captors, 0), Caught(q, e, w, st, body, wrs)
        PROVE  \E p \in Wrapper \cup {None} : Only(q, p)'
    <2>1. Front(q)' = Front(q) /\ e \in X /\ e \in Wrapper
      BY <1>2, <1>9 DEF Caught
    <2>2. wr'[e].out.body = wrs[e].out.body \o body
      <3> DEFINE all == wrs[e].out.body \o body
      <3>1. wr'[e] = [wrs[e] EXCEPT !.out = [status |-> st, body |-> all]]
        BY <1>9 DEF Caught
      <3>2. wrs[e] \in WrapperState
        BY <1>5, <2>1
      <3> HIDE DEF all
      <3>3. wr'[e].out.body = all
        BY <3>1, <3>2 DEF WrapperState
      <3> QED
        BY <3>3 DEF all
    <2>3. \A x \in X \ {e} : wr'[x].out.body = wrs[x].out.body
      BY <1>2, <1>7, <1>9 DEF Caught, T
    <2>4. CASE body = <<>>
      <3>1. wr'[e].out.body = wrs[e].out.body
        BY <1>4, <1>5, <2>1, <2>2, <2>4
      <3>2. \A x \in X : wr'[x].out.body = wrs[x].out.body
        BY <2>3, <3>1
      <3>3. Only(q, place)'
        BY <1>3, <2>1, <3>2 DEF Only, OnlyIn, X
      <3> QED
        BY <3>3
    <2>5. CASE Front(q).body = <<>> /\ \A x \in X : wrs[x].out.body = <<>>
      <3>1. wr'[e].out.body = body
        BY <1>4, <2>1, <2>2, <2>5
      <3>2. \A x \in X : wr'[x].out.body \in Body(q) /\ (e # x => wr'[x].out.body = <<>>)
        BY <1>3, <2>3, <2>5, <3>1
      <3>3. Only(q, e)'
        BY <1>3, <2>1, <2>5, <3>2 DEF Only, X
      <3> QED
        BY <2>1, <3>3
    <2> QED
      BY <2>4, <2>5 DEF X
  <1> QED
    BY <1>1, <1>8, <1>9

\* A write of pieces of q's own leaves nothing but such pieces.
LEMMA PiecesWrites ==
  ASSUME TypeOK, UNCHANGED app, NEW q \in Request, NEW t \in Seq(Frame), NEW v, NEW native,
         FramesOK(Base(q), t, v, wr, native), NEW w \in Outer(Base(q), Taken(t, Writing, 0)),
         NEW st, NEW body \in Seq(Own(q)), NEW wrs \in [Wrapper -> WrapperState],
         Write(w, st, body, wrs), Held(q)' = Taken(t, Writing, 0),
         Front(q).body \in Seq(Own(q)),
         \A x \in Taken(t, Writing, 0) : wrs[x].out.body \in Seq(Own(q))
  PROVE  Pieces(q)'
  <1> DEFINE X == Taken(t, Writing, 0)
             T == Thru(w)
             S == Seq(Own(q))
  <1>1. /\ T \subseteq Taken(t, Recorders, 0)
        /\ \/ Reaches(q, w, st, body, wrs)
           \/ \E e \in Taken(t, Captors, 0) : Caught(q, e, w, st, body, wrs)
    BY WriteEffect
  <1>2. /\ X \subseteq Wrapper /\ Taken(t, Captors, 0) \subseteq X
        /\ Taken(t, Recorders, 0) \subseteq X
    BY TakenType, TakenMono DEF Captors, Recorders, Writing
  <1>3. S' = S /\ <<>> \in S
    BY DEF Own
  <1>4. \A a, b \in S : a \o b \in S
    BY OwnPieces
  <1>5. \A x \in X : wrs[x] \in WrapperState /\ wrs[x].out.body \in S
    BY <1>2
  <1>6. \A out : Put(out, st, body).body = out.body \o body /\ Put(out, st, <<>>).body = out.body \o <<>>
    BY DEF Put
  <1>7. body \in S /\ Front(q).body \in S
    OBVIOUS
  <1>8. Pieces(q)' <=> Front(q)'.body \in S /\ \A x \in X : wr'[x].out.body \in S
    BY <1>3 DEF Pieces
  <1> HIDE DEF X, T, S
  <1>9. ASSUME NEW x \in X,
               wr'[x] = [wrs[x] EXCEPT !.out = Put(wrs[x].out, st, <<>>)] \/ wr'[x] = wrs[x]
        PROVE  wr'[x].out.body \in S
    <2>1. wrs[x] \in WrapperState /\ wrs[x].out.body \in S
      BY <1>5
    <2>2. [wrs[x] EXCEPT !.out = Put(wrs[x].out, st, <<>>)].out = Put(wrs[x].out, st, <<>>)
      BY <2>1 DEF WrapperState
    <2>3. Put(wrs[x].out, st, <<>>).body \in S
      BY <1>3, <1>4, <1>6, <2>1
    <2> QED
      BY <1>9, <2>1, <2>2, <2>3
  <1>10. CASE Reaches(q, w, st, body, wrs)
    <2>1. Front(q)'.body = Front(q).body \o body
      BY <1>6, <1>10 DEF Reaches
    <2>2. \A x \in X : wr'[x].out.body \in S
      BY <1>2, <1>9, <1>10 DEF Reaches, T
    <2> QED
      BY <1>4, <1>7, <1>8, <2>1, <2>2
  <1>11. ASSUME NEW e \in Taken(t, Captors, 0), Caught(q, e, w, st, body, wrs)
         PROVE  Pieces(q)'
    <2>1. Front(q)' = Front(q) /\ e \in X /\ e \in Wrapper
      BY <1>2, <1>11 DEF Caught
    <2>2. wr'[e].out.body = wrs[e].out.body \o body
      <3> DEFINE all == wrs[e].out.body \o body
      <3>1. wr'[e] = [wrs[e] EXCEPT !.out = [status |-> st, body |-> all]]
        BY <1>11 DEF Caught
      <3>2. wrs[e] \in WrapperState
        BY <1>5, <2>1
      <3> HIDE DEF all
      <3>3. wr'[e].out.body = all
        BY <3>1, <3>2 DEF WrapperState
      <3> QED
        BY <3>3 DEF all
    <2>3. \A x \in X \ {e} : wr'[x].out.body \in S
      BY <1>2, <1>9, <1>11 DEF Caught, T
    <2>4. wr'[e].out.body \in S
      BY <1>4, <1>5, <1>7, <2>1, <2>2
    <2> QED
      BY <1>7, <1>8, <2>1, <2>3, <2>4
  <1> QED
    BY <1>1, <1>10, <1>11

\* The captured response is sent on, and with it what is due.
LEMMA CaptureSettles ==
  ASSUME TypeOK, NEW q \in Request, NEW x \in Wrapper, Captures(q) = {x}, x \in Held(q),
         Settled(q), Front(q).body \in Body(q), wr[x].out.body \in Body(q),
         Captures(q)' = {}, Chain(q)' = Chain(q), log'[q].due = log[q].due,
         \E i \in DOMAIN Chain(q) : Chain(q)[i] = "etag",
         NEW st, NEW body, Front(q)' = Put(Front(q), st, body),
         \/ st = Effective(wr[x].out.status) /\ body = wr[x].out.body
         \/ /\ Effective(wr[x].out.status) = "200" /\ wr[x].out.body # <<>>
            /\ st = "304" /\ body = <<>>
  PROVE  Settled(q)'
  <1> DEFINE out == wr[x].out
             due == log[q].due
  <1>1. \A b \in Body(q) : <<>> \o b = b /\ b \o <<>> = b
    BY BodyFacts
  <1>2. Front(q)' = [status |-> IF Front(q).status = "none" THEN st ELSE Front(q).status,
                     body |-> Front(q).body \o body]
    BY DEF Put
  <1>3. Blank.status = "none" /\ Blank.body = <<>> /\ Shown(Blank) = [status |-> "200", body |-> <<>>]
    BY DEF Blank, Shown, Effective
  <1>4. SUFFICES ASSUME NEW new, Front(q)' = new PROVE new.status # "none" /\ Matches(q, new)
    BY DEF Settled, Matches, Shown
  <1>5. CASE AllBlank(q) /\ Shown(due) = Shown(Blank)
    <2>1. out = Blank /\ Front(q) = Blank
      BY <1>5 DEF AllBlank
    <2>2. st = "200" /\ body = <<>>
      BY <1>3, <2>1 DEF Effective
    <2>3. new = [status |-> "200", body |-> <<>>]
      BY <1>1, <1>2, <1>3, <1>4, <2>1, <2>2
    <2> QED
      BY <1>3, <1>4, <1>5, <2>3 DEF Matches, Shown, Effective
  <1>6. CASE (\A y \in Captures(q) : wr[y].out = Blank) /\ Front(q).status # "none" /\ Matches(q, Front(q))
    <2>1. out = Blank
      BY <1>6
    <2>2. body = <<>>
      BY <1>3, <2>1
    <2>3. new = [status |-> Front(q).status, body |-> Front(q).body]
      BY <1>1, <1>2, <1>4, <1>6, <2>2
    <2>4. Front(q) \in Output
      BY DEF TypeOK, Front
    <2>5. new = Front(q)
      BY <2>3, <2>4 DEF Output
    <2> QED
      BY <1>4, <1>6, <2>5
  <1>7. CASE Front(q) = Blank /\ \E y \in Captures(q) :
               wr[y].out.status # "none" /\ Shown(wr[y].out) = Shown(due)
    <2>1. out.status # "none" /\ Shown(out) = Shown(due)
      BY <1>7
    <2>2. Effective(out.status) = out.status
      BY <2>1 DEF Effective
    <2>3. CASE st = Effective(out.status) /\ body = out.body
      <3>1. new = [status |-> out.status, body |-> out.body]
        BY <1>1, <1>2, <1>3, <1>4, <1>7, <2>2, <2>3
      <3> QED
        BY <1>4, <2>1, <3>1 DEF Matches, Shown
    <2>4. CASE Effective(out.status) = "200" /\ st = "304" /\ body = <<>>
      <3>1. new = [status |-> "304", body |-> <<>>]
        BY <1>1, <1>2, <1>3, <1>4, <1>7, <2>4
      <3>2. Effective(due.status) = "200"
        BY <2>1, <2>4 DEF Shown
      <3> QED
        BY <1>4, <3>1, <3>2 DEF Matches
    <2> QED
      BY <2>3, <2>4
  <1> QED
    BY <1>5, <1>6, <1>7 DEF Settled

LEMMA LeaveCaptureHolds ==
  ASSUME IInv, RInv, NEW q \in Request, LeaveCapture(q) PROVE RInv'
  <1> DEFINE s == g[q].stack
             t == Tail(s)
             f == Top(q)
             x == f.x
             X == Taken(t, Writing, 0)
             wrs == Released(x)
  <1>1. /\ Rising(q) /\ Pop(q, "ok") /\ f.kind = "etag" /\ g[q].out = "ok" /\ OwnOnly(q)
        /\ UNCHANGED app /\ Restore(q) /\ log' = log
    BY StepIsOwn DEF LeaveCapture, Step
  <1>2. /\ t \in Seq(Frame) /\ Goes(q, "up", t, f.w, "ok") /\ Wired(q, t, f.w, wr)
        /\ Takes(q, f, t) /\ g[q].pc = "up" /\ s # <<>> /\ f \in Frame
    BY <1>1, Rises
  <1>3. /\ TypeOK /\ ResponseOK(q) /\ HoldsOK(q) /\ g[q].c \in Ctx /\ s \in Seq(Frame)
        /\ Held(q) \subseteq Wrapper /\ Meters(q) \subseteq Held(q) /\ Captures(q) \subseteq Held(q)
        /\ Wired(q, s, g[q].w, wr)
    BY <1>2, Upward
  <1>4. g[q].way = "native" => ctx'[g[q].c].res = f.w
    BY <1>1, <1>2, <1>3, RestoreFacts DEF Writing
  <1>5. /\ Held(q)' = X /\ Captures(q)' = Taken(t, Captors, 0)
        /\ Meters(q)' = Taken(t, {"metrics"}, 0) /\ Has("OnSend")' = Has("OnSend")
        /\ OneETag(q)' = OneETag(q) /\ Metered(q)' = Metered(q) /\ Chain(q)' = Chain(q)
        /\ g'[q].out = "ok"
    <2>1. g'[q].out = "ok"
      BY <1>2 DEF Goes
    <2> HIDE DEF t, f
    <2> QED
      BY <1>1, <1>2, <2>1, GoesKeeps
  <1>6. /\ Held(q) = X \cup {x} /\ x \notin X /\ x \in Wrapper
        /\ Captures(q) = Captures(q)' \cup {x} /\ Meters(q) = Meters(q)'
    BY <1>1, <1>2, <1>5 DEF Takes, Held, Captures, Meters, Captors, Writing
  <1>7. wrs \in [Wrapper -> WrapperState] /\ \A y \in X : wrs[y] = wr[y]
    BY <1>1, <1>3, <1>6, TopType, ReleaseFacts DEF Writing
  <1>8. Composed(q) /\ log'[q].raw = log[q].raw /\ (log[q].exact => ~log[q].raw)
    BY <1>1, <1>3 DEF HoldsOK, Composed
  <1>9. Effective(wr[x].out.status) \in Status \ {"none"} /\ wr[x].out.body \in Bodies(q)
        /\ Front(q).body \in Bodies(q) /\ <<>> \in Bodies(q)
    <2>1. wr[x].out.status \in Status
      BY <1>3, <1>6 DEF TypeOK, Output
    <2>2. CASE log[q].raw
      BY <1>6, <1>8, <2>1, <2>2 DEF Effective, Status, Composed, Pieces, Bodies
    <2>3. CASE ~log[q].raw
      BY <1>6, <1>8, <2>1, <2>3, OwnBody DEF Effective, Status, Composed, Only, Bodies
    <2> QED
      BY <2>2, <2>3
  <1>10. \E st \in Status \ {"none"}, body \in Bodies(q) :
           /\ Write(f.w, st, body, wrs)
           /\ \/ st = Effective(wr[x].out.status) /\ body = wr[x].out.body
              \/ /\ Effective(wr[x].out.status) = "200" /\ wr[x].out.body # <<>>
                 /\ st = "304" /\ body = <<>>
    <2>1. CASE Write(f.w, Effective(wr[x].out.status), wr[x].out.body, wrs)
      BY <1>9, <2>1
    <2>2. CASE /\ Effective(wr[x].out.status) = "200" /\ wr[x].out.body # <<>>
               /\ Write(f.w, "304", <<>>, wrs)
      BY <1>9, <2>2, OwnBody
    <2> QED
      BY <2>1, <2>2 DEF LeaveCapture
  <1>11. PICK st \in Status \ {"none"}, body \in Bodies(q) :
           /\ Write(f.w, st, body, wrs)
           /\ \/ st = Effective(wr[x].out.status) /\ body = wr[x].out.body
              \/ /\ Effective(wr[x].out.status) = "200" /\ wr[x].out.body # <<>>
                 /\ st = "304" /\ body = <<>>
    BY <1>10
  <1>12. /\ FramesOK(Base(q), t, f.w, wr, g[q].way = "native") /\ f.w \in Outer(Base(q), X)
         /\ Metered(q) => Through(Base(q), f.w, Taken(t, {"metrics"}, 0), wr)
    BY <1>2 DEF Wired
  <1> HIDE DEF s, t, f, x, X, wrs
  <1>13. /\ Contained(q) /\ Thru(f.w) \subseteq Taken(t, Recorders, 0)
         /\ \/ Reaches(q, f.w, st, body, wrs)
            \/ \E e \in Taken(t, Captors, 0) : Caught(q, e, f.w, st, body, wrs)
    BY <1>1, <1>2, <1>3, <1>7, <1>11, <1>12, WriteEffect DEF X
  <1>14. Composed(q)'
    <2>1. CASE log[q].raw
      <3>1. body \in Seq(Own(q)) /\ Front(q).body \in Seq(Own(q))
        BY <1>9, <1>11, <2>1 DEF Bodies
      <3>2. \A y \in X : wrs[y].out.body \in Seq(Own(q))
        BY <1>6, <1>7, <1>8, <2>1 DEF Composed, Pieces
      <3>3. Pieces(q)'
        BY <1>1, <1>2, <1>3, <1>5, <1>7, <1>11, <1>12, <3>1, <3>2, PiecesWrites DEF X
      <3> QED
        BY <1>1, <1>8, <2>1, <3>3 DEF Composed
    <2>2. CASE ~log[q].raw
      <3>1. PICK place \in Wrapper \cup {None} : Only(q, place)
        BY <1>8, <2>2 DEF Composed
      <3>2. OnlyIn(q, place, X, wrs) /\ body \in Body(q)
        BY <1>6, <1>7, <1>11, <2>2, <3>1 DEF Only, OnlyIn, Bodies
      <3>3. body = <<>> \/ (Front(q).body = <<>> /\ \A y \in X : wrs[y].out.body = <<>>)
        <4>1. CASE place = x
          BY <1>6, <1>7, <3>1, <4>1, NoneAssumption DEF Only
        <4>2. CASE place # x
          BY <1>6, <1>11, <3>1, <4>2 DEF Only
        <4> QED
          BY <4>1, <4>2
      <3>4. \E p \in Wrapper \cup {None} : Only(q, p)'
        BY <1>1, <1>2, <1>3, <1>5, <1>7, <1>11, <1>12, <3>2, <3>3, OnlyWrites DEF X
      <3> QED
        BY <1>8, <2>2, <3>4, OnlyComposed
    <2> QED
      BY <2>1, <2>2
  <1>15. OneETag(q) /\ log'[q].exact => Settled(q)'
    <2> SUFFICES ASSUME OneETag(q), log'[q].exact PROVE Settled(q)'
      OBVIOUS
    <2>1. Captures(q)' = {}
      BY <1>1, <1>5, NoCaptureOutside DEF f, t, s
    <2>2. Front(q)' = Put(Front(q), st, body)
      BY <1>5, <1>13, <2>1 DEF Reaches
    <2>3. Captures(q) = {x} /\ x \in Held(q)
      BY <1>6, <2>1
    <2>4. Settled(q)
      BY <1>1, <1>3 DEF HoldsOK
    <2>5. \E i \in DOMAIN Chain(q) : Chain(q)[i] = "etag"
      <3>1. Chain(q) \in Seq(Kind) /\ TrailOK(s, Chain(q))
        BY <1>3, ChainType DEF Wired
      <3>2. x \in Taken(s, Captors, 0)
        BY <2>3 DEF Captures, s
      <3> QED
        BY <1>3, <3>1, <3>2, CaptureInChain
    <2>6. wr[x].out.body \in Body(q) /\ Front(q).body \in Body(q)
      BY <1>1, <1>8, <1>9 DEF Bodies
    <2> QED
      BY <1>1, <1>3, <1>5, <1>6, <1>9, <1>11, <2>1, <2>2, <2>3, <2>4, <2>5, <2>6, CaptureSettles
  <1>16. Metered(q) => \A y \in Meters(q)' : wr'[y].out.status = Front(q)'.status
    <2> SUFFICES ASSUME Metered(q)
                 PROVE  \A y \in Taken(t, {"metrics"}, 0) : wr'[y].out.status = Front(q)'.status
      BY <1>5
    <2>1. Meters(q)' \subseteq X
      BY <1>2, <1>5, TakenMono DEF X, Writing
    <2>2. \A y \in Taken(t, {"metrics"}, 0) : wrs[y].out.status = Front(q).status
      BY <1>3, <1>5, <1>6, <1>7, <2>1 DEF HoldsOK
    <2>3. f.w \in Outer(Base(q), Taken(t, Writing, 0))
      BY <1>12 DEF X
    <2> QED
      BY <1>1, <1>2, <1>3, <1>7, <1>11, <1>12, <2>2, <2>3, MeterWrite
  <1>17. Metered(q) => \A z \in Status : <<"metrics", z>> \notin log'[q].seen
    BY <1>1, <1>3, <1>6 DEF HoldsOK
  <1>18. HoldsOK(q)'
    <2>1. /\ ~Has("OnSend") => ~buf'[q].bypassed
          /\ Has("OnSend") /\ ~buf'[q].bypassed => client'[q] = Blank
      BY <1>3, <1>13 DEF HoldsOK, Contained
    <2> QED
      BY <1>5, <1>14, <1>15, <1>16, <1>17, <2>1 DEF HoldsOK
  <1>19. Wired(q, t, f.w, wr')
    <2>1. ASSUME NEW y \in X PROVE SameWiring(y, wr, wr')
      <3>1. SameWiring(y, wrs, wr')
        BY <1>3, <1>6, <1>7, <1>11, WriteWiring
      <3> QED
        BY <1>7, <3>1 DEF SameWiring
    <2> QED
      BY <1>2, <2>1, WiredKept DEF X
  <1>20. ResponseOK(q)'
    BY <1>1, <1>2, <1>4, <1>18, <1>19, UpKeeps
  <1>21. \A y \in Wrapper \ Held(q) : wr'[y] = wr[y]
    <2>1. /\ Taken(t, Recorders, 0) \subseteq X /\ Taken(t, Captors, 0) \subseteq X
      BY <1>2, TakenMono DEF X, Recorders, Captors, Writing
    <2>2. \A y \in Wrapper \ Held(q) : wrs[y] = wr[y]
      BY <1>3, <1>6, ReleaseFacts DEF wrs
    <2> QED
      BY <1>6, <1>13, <2>1, <2>2 DEF Reaches, Caught
  <1> QED
    BY <1>1, <1>5, <1>6, <1>13, <1>20, <1>21, Alone DEF Contained

\* An error or a panic is answered, unless c.written says that there is an answer.
LEMMA Mends ==
  ASSUME IInv, RInv, NEW q \in Request, g[q].pc = "up", g[q].out # "ok", OwnOnly(q),
         NEW t \in Seq(Frame), Goes(q, "up", t, g[q].w, "ok"), Wired(q, t, g[q].w, wr),
         \A kinds \in {Writing, Captors, {"metrics"}} :
             Taken(t, kinds, 0) = Taken(g[q].stack, kinds, 0),
         log'[q].exact = log[q].exact, log'[q].seen = log[q].seen, log'[q].raw = log[q].raw,
         g[q].way = "native" => ctx'[g[q].c].res = g[q].w,
         NEW body \in Body(q),
         \/ ctx[g[q].c].written /\ Silent(wr)
         \/ /\ Write(g[q].w, "error", body, wr) /\ (ctx[g[q].c].written => body = <<>>)
            /\ log'[q].due = [status |-> "error", body |-> body]
  PROVE  RInv'
  <1> DEFINE w == g[q].w
             s == g[q].stack
             X == Taken(t, Writing, 0)
  <1>1. UNCHANGED app
    BY DEF OwnOnly
  <1>2. /\ TypeOK /\ ResponseOK(q) /\ HoldsOK(q) /\ s \in Seq(Frame) /\ Wired(q, s, w, wr)
        /\ wr \in [Wrapper -> WrapperState] /\ Held(q) \subseteq Wrapper
        /\ Meters(q) \subseteq Held(q) /\ Captures(q) \subseteq Held(q)
    BY Upward
  <1>3. /\ Held(q)' = Held(q) /\ Captures(q)' = Captures(q) /\ Meters(q)' = Meters(q)
        /\ Has("OnSend")' = Has("OnSend") /\ Metered(q)' = Metered(q)
        /\ g'[q].out = "ok" /\ Held(q) = X
    <2>1. g'[q].out = "ok"
      BY DEF Goes
    <2>2. Held(q) = X /\ Captures(q) = Taken(t, Captors, 0) /\ Meters(q) = Taken(t, {"metrics"}, 0)
      BY DEF Held, Captures, Meters
    <2> QED
      BY <1>1, <2>1, <2>2, GoesKeeps
  <1>4. /\ ~ctx[g[q].c].written /\ ~log[q].raw => AllBlank(q)
        /\ log[q].exact => ~ctx[g[q].c].written /\ ~log[q].raw
    BY <1>2 DEF ResponseOK, AnswerOK, Composed
  <1>5. Metered(q) => \A z \in Status : <<"metrics", z>> \notin log'[q].seen
    BY <1>2 DEF HoldsOK
  <1>6. Composed(q)
    BY <1>2 DEF HoldsOK
  <1>7. w \in Outer(Base(q), Held(q)) /\ FramesOK(Base(q), t, w, wr, g[q].way = "native")
        /\ (Metered(q) => Through(Base(q), w, Taken(t, {"metrics"}, 0), wr))
    BY <1>3 DEF Wired
  <1> HIDE DEF w, s, X
  <1>8. CASE ctx[g[q].c].written /\ Silent(wr)
    <2>1. wr' = wr /\ buf' = buf /\ client' = client /\ ~log'[q].exact
      BY <1>4, <1>8 DEF Silent
    <2>2. Front(q)' = Front(q)
      BY <1>3, <2>1 DEF Front
    <2>3. Composed(q)'
      <3>1. \A place : Only(q, place)' = Only(q, place)
        BY <1>3, <2>1, <2>2 DEF Only, Body
      <3>2. Pieces(q)' = Pieces(q)
        BY <1>3, <2>1, <2>2 DEF Pieces, Own
      <3> QED
        BY <1>6, <3>1, <3>2 DEF Composed
    <2>4. HoldsOK(q)'
      BY <1>2, <1>3, <1>5, <2>1, <2>2, <2>3 DEF HoldsOK
    <2>5. ResponseOK(q)'
      BY <1>1, <2>1, <2>4, UpKeeps DEF w
    <2> QED
      BY <1>3, <2>1, <2>5, Alone
  <1>9. CASE /\ Write(w, "error", body, wr) /\ (ctx[g[q].c].written => body = <<>>)
             /\ log'[q].due = [status |-> "error", body |-> body]
    <2>1. /\ Contained(q) /\ Thru(w) \subseteq Taken(t, Recorders, 0)
          /\ \/ Reaches(q, w, "error", body, wr)
             \/ \E e \in Taken(t, Captors, 0) : Caught(q, e, w, "error", body, wr)
      BY <1>1, <1>2, <1>3, <1>7, <1>9, WriteEffect DEF X
    <2>2. Composed(q)'
      <3>1. CASE log[q].raw
        <4>1. /\ body \in Seq(Own(q)) /\ Front(q).body \in Seq(Own(q))
              /\ \A y \in X : wr[y].out.body \in Seq(Own(q))
          BY <1>3, <1>6, <3>1, OwnPieces DEF Composed, Pieces
        <4>2. Pieces(q)'
          BY <1>1, <1>2, <1>3, <1>7, <1>9, <4>1, PiecesWrites DEF X
        <4> QED
          BY <1>4, <3>1, <4>2 DEF Composed
      <3>2. CASE ~log[q].raw
        <4>1. PICK place \in Wrapper \cup {None} : Only(q, place)
          BY <1>6, <3>2 DEF Composed
        <4>2. OnlyIn(q, place, X, wr)
          BY <1>3, <4>1 DEF Only, OnlyIn
        <4>3. body = <<>> \/ (Front(q).body = <<>> /\ \A y \in X : wr[y].out.body = <<>>)
          BY <1>3, <1>4, <1>9, <3>2 DEF AllBlank, Blank
        <4>4. \E p \in Wrapper \cup {None} : Only(q, p)'
          BY <1>1, <1>2, <1>3, <1>7, <1>9, <4>2, <4>3, OnlyWrites DEF X
        <4> QED
          BY <3>2, <4>4, OnlyComposed
      <3> QED
        BY <3>1, <3>2
    <2>3. log'[q].exact => Settled(q)'
      <3> SUFFICES ASSUME log'[q].exact PROVE Settled(q)'
        OBVIOUS
      <3>1. AllBlank(q)
        BY <1>4
      <3>2. "error" \in Status \ {"none"}
        BY DEF Status
      <3>3. Landed(q, "error", body)'
        BY <1>1, <1>2, <1>3, <1>7, <1>9, <3>1, <3>2, Lands
      <3> QED
        BY <1>9, <3>2, <3>3, LandedSettles
    <2>4. Metered(q) => \A y \in Meters(q) : wr'[y].out.status = Front(q)'.status
      <3> SUFFICES ASSUME Metered(q)
                   PROVE  \A y \in Taken(t, {"metrics"}, 0) : wr'[y].out.status = Front(q)'.status
        BY DEF Meters
      <3>1. \A y \in Taken(t, {"metrics"}, 0) : wr[y].out.status = Front(q).status
        BY <1>2 DEF HoldsOK, Meters
      <3>2. w \in Outer(Base(q), Taken(t, Writing, 0))
        BY <1>3, <1>7 DEF X
      <3> QED
        BY <1>1, <1>2, <1>7, <1>9, <3>1, <3>2, MeterWrite
    <2>5. HoldsOK(q)'
      <3>1. /\ ~Has("OnSend") => ~buf'[q].bypassed
            /\ Has("OnSend") /\ ~buf'[q].bypassed => client'[q] = Blank
        BY <1>2, <2>1 DEF HoldsOK, Contained
      <3> QED
        BY <1>3, <1>5, <2>2, <2>3, <2>4, <3>1 DEF HoldsOK
    <2>6. Wired(q, t, w, wr')
      <3>1. \A y \in Taken(t, Writing, 0) : SameWiring(y, wr, wr')
        BY <1>2, <1>3, <1>9, WriteWiring DEF X
      <3> QED
        BY <3>1, WiredKept DEF w
    <2>7. ResponseOK(q)'
      BY <1>1, <2>5, <2>6, UpKeeps DEF w
    <2>8. \A y \in Wrapper \ Held(q) : wr'[y] = wr[y]
      <3>1. /\ Taken(t, Recorders, 0) \subseteq X /\ Taken(t, Captors, 0) \subseteq X
        BY TakenMono DEF X, Recorders, Captors, Writing
      <3> QED
        BY <1>3, <2>1, <3>1 DEF Reaches, Caught
    <2> QED
      BY <1>3, <2>1, <2>7, <2>8, Alone DEF Contained
  <1> QED
    BY <1>8, <1>9 DEF w

LEMMA RecoverHolds ==
  ASSUME IInv, RInv, NEW q \in Request, Recover(q) PROVE RInv'
  <1> DEFINE s == g[q].stack
             t == Tail(s)
             f == Top(q)
             c == g[q].c
             answer == <<<<q, "error">>>>
  <1>1. /\ Rising(q) /\ Pop(q, "ok") /\ f.kind = "recover" /\ g[q].out = "panic" /\ OwnOnly(q)
    BY StepIsOwn DEF Recover, Step
  <1>2. /\ t \in Seq(Frame) /\ Goes(q, "up", t, f.w, "ok") /\ Wired(q, t, f.w, wr)
        /\ Takes(q, f, t) /\ g[q].pc = "up"
    BY <1>1, Rises
  <1>3. TypeOK /\ c \in Ctx
    BY <1>2, Upward
  <1>4. /\ g[q].w = f.w
        /\ \A kinds \in {Writing, Captors, {"metrics"}} : Taken(t, kinds, 0) = Taken(s, kinds, 0)
    BY <1>1, <1>2 DEF Takes, Writing, Captors
  <1>5. g[q].way = "native" => ctx[c].res = f.w
    BY <1>2, <1>4, Upward
  <1>6. <<>> \in Body(q) /\ answer \in Body(q)
    BY OwnBody
  <1>7. CASE g[q].way = "native" \/ Found(q, f.r)
    <2>1. HandleError(q, f.w, wr) /\ Due(q, "error", "error")
      BY <1>5, <1>7 DEF Recover
    <2>2. /\ log'[q].due = [status |-> "error", body |-> answer]
          /\ log'[q].exact = log[q].exact /\ log'[q].seen = log[q].seen
          /\ log'[q].raw = log[q].raw
      BY <1>3, <2>1, DueFacts DEF Due
    <2>3. ctx'[c].res = f.w
      BY <1>3, <2>1, WrittenFacts DEF HandleError
    <2>4. \/ ctx[c].written /\ Silent(wr)
          \/ ~ctx[c].written /\ Write(f.w, "error", answer, wr)
      BY <2>1 DEF HandleError, JSON
    <2> HIDE DEF t, f, answer
    <2> QED
      BY <1>1, <1>2, <1>4, <1>6, <2>2, <2>3, <2>4, Mends DEF s, c
  <1>8. CASE ~(g[q].way = "native" \/ Found(q, f.r))
    <2>1. /\ Write(f.w, "error", <<>>, wr) /\ UNCHANGED ctx
          /\ log' = [log EXCEPT ![q].due = [status |-> "error", body |-> <<>>]]
      BY <1>8 DEF Recover
    <2>2. /\ log'[q].due = [status |-> "error", body |-> <<>>]
          /\ log'[q].exact = log[q].exact /\ log'[q].seen = log[q].seen
          /\ log'[q].raw = log[q].raw
      BY <1>3, <2>1, DueFacts
    <2> HIDE DEF t, f
    <2> QED
      BY <1>1, <1>2, <1>4, <1>6, <1>8, <2>1, <2>2, Mends DEF s, c
  <1> QED
    BY <1>7, <1>8

LEMMA AnswerErrorHolds ==
  ASSUME IInv, RInv, NEW q \in Request, AnswerError(q) PROVE RInv'
  <1> DEFINE c == g[q].c
             answer == <<<<q, "error">>>>
  <1>1. /\ g[q].pc = "up" /\ g[q].out = "err" /\ OwnOnly(q) /\ log' = log
        /\ HandleError(q, ctx[c].res, wr) /\ Turned(q, "up", "ok")
    BY StepIsOwn DEF AnswerError, AtErrorHandler, Step, Turned
  <1>2. TypeOK /\ c \in Ctx /\ g[q].stack \in Seq(Frame) /\ Wired(q, g[q].stack, g[q].w, wr)
        /\ ResponseOK(q)
    BY <1>1, Upward
  <1>3. ctx[c].res = g[q].w
    BY <1>1, <1>2 DEF ResponseOK, AnswerOK
  <1>4. log[q].due = [status |-> "error", body |-> answer]
    BY <1>1, <1>2 DEF ResponseOK, AnswerOK
  <1>5. ctx'[c].res = g[q].w
    BY <1>1, <1>2, <1>3, <1>4, WrittenFacts DEF HandleError
  <1>6. \/ ctx[c].written /\ Silent(wr)
        \/ ~ctx[c].written /\ Write(g[q].w, "error", answer, wr)
    BY <1>1, <1>3, <1>4 DEF HandleError, JSON
  <1>7. answer \in Body(q) /\ Goes(q, "up", g[q].stack, g[q].w, "ok")
    BY <1>1, <1>2, OwnBody, TurnGoes
  <1> HIDE DEF answer
  <1> QED
    BY <1>1, <1>2, <1>4, <1>5, <1>6, <1>7, Mends DEF c

----------------------------------------------------------------------------
(* Down the chain.                                                          *)

\* A frame is pushed.
LEMMA PushWired ==
  ASSUME TypeOK, NEW q \in Request, NEW t \in Seq(Frame), NEW f \in Frame, NEW w, NEW wrs,
         Wired(q, t, f.w, wrs), Len(t) + 1 <= Len(Chain(q)), f.kind = Chain(q)[Len(t) + 1],
         FrameOK(Base(q), f, w, Taken(t, Writing, 0), Taken(t, Captors, 0),
                 Taken(t, Recorders, 0), wrs, g[q].way = "native"),
         w \in Outer(Base(q), Taken(<<f>> \o t, Writing, 0)),
         Metered(q) => Through(Base(q), w, Taken(<<f>> \o t, {"metrics"}, 0), wrs)
  PROVE  Wired(q, <<f>> \o t, w, wrs)
  <1> DEFINE s == <<f>> \o t
  <1>1. s \in Seq(Frame) /\ s # <<>> /\ Head(s) = f /\ Tail(s) = t
    BY Pushed
  <1>2. Len(s) = Len(t) + 1
    BY <1>1, StackIndex
  <1>3. Chain(q) \in Seq(Kind)
    BY ChainType
  <1> HIDE DEF s
  <1>4. FramesOK(Base(q), s, w, wrs, g[q].way = "native")
    BY <1>1, FramesSplit DEF Wired
  <1>5. TrailOK(s, Chain(q))
    BY <1>1, <1>2, <1>3, TrailSplit DEF Wired
  <1>6. Metered(q) => MetersOK(Base(q), s, wrs)
    BY <1>1, MetersSplit DEF Wired
  <1> QED
    BY <1>4, <1>5, <1>6 DEF Wired, s

\* Down the chain nothing is written.
LEMMA DownKeeps ==
  ASSUME NEW q \in Request, UNCHANGED app, NEW s \in Seq(Frame), NEW w,
         Goes(q, "down", s, w, "ok"), Wired(q, s, w, wr'),
         ctx'[g[q].c].res \in Outer(Base(q), Taken(s, Writing, 0)), ~ctx'[g[q].c].written,
         g[q].way = "native" => ctx'[g[q].c].res = w,
         Metered(q) /\ Found(q, g[q].r)' =>
             Through(Base(q), ctx'[g[q].c].res, Taken(s, {"metrics"}, 0), wr'),
         AllBlank(q)', ~buf'[q].bypassed, client'[q] = Blank,
         log'[q].due = Blank, log'[q].exact, ~log'[q].raw, log'[q].seen = {}
  PROVE  ResponseOK(q)'
  <1>1. /\ Chain(q)' = Chain(q) /\ Base(q)' = Base(q) /\ Metered(q)' = Metered(q)
        /\ Held(q)' = Taken(s, Writing, 0) /\ Meters(q)' = Taken(s, {"metrics"}, 0)
        /\ (g[q].way = "native")' = (g[q].way = "native")
    BY GoesKeeps
  <1>2. TrailOK(g[q].stack, Chain(q))'
    BY <1>1 DEF Wired, Goes
  <1>3. WritersOK(q)'
    BY <1>1 DEF Wired, Goes, WritersOK
  <1>4. EarlyOK(q)'
    BY DEF EarlyOK, Goes
  <1>5. AnswerOK(q)'
    BY DEF AnswerOK, Goes
  <1>6. FaithfulOK(q)'
    BY DEF FaithfulOK, Goes
  <1>7. MeterOK(q)'
    <2>1. Meters(q)' \subseteq Held(q)'
      <3>1. {"metrics"} \subseteq Writing /\ 0 \in Nat
        BY DEF Writing
      <3> QED
        BY <1>1, <3>1, TakenMono
    <2>2. \A x \in Meters(q)' : wr'[x].out.status = Front(q)'.status
      BY <2>1 DEF AllBlank
    <2> QED
      BY <1>1, <2>2 DEF MeterOK, Goes, Wired
  <1> QED
    BY <1>2, <1>3, <1>4, <1>5, <1>6, <1>7 DEF ResponseOK

\* The frame f of a middleware that is entered, on top of the stack s.
NewFrame(q, f, x, back, s) ==
    /\ s = <<f>> \o g[q].stack /\ s \in Seq(Frame)
    /\ f.w = g[q].w /\ f.x = x /\ f.back = back
    /\ Len(g[q].stack) + 1 <= Len(Chain(q)) /\ f.kind = Chain(q)[Len(g[q].stack) + 1]
    /\ f.kind = Chain(q)[Depth(q)]
    /\ Taken(s, Writing, 0) =
         Taken(g[q].stack, Writing, 0) \cup (IF f.kind \in Writing THEN {x} ELSE {})
    /\ Taken(s, {"metrics"}, 0) =
         Taken(g[q].stack, {"metrics"}, 0) \cup (IF f.kind = "metrics" THEN {x} ELSE {})

LEMMA Pushes ==
  ASSUME IInv, RInv, NEW q \in Request, NEW kinds, At(q, kinds),
         NEW x \in Wrapper \cup {None}, NEW back \in Writers,
         Chain(q)[Depth(q)] \in Writing => x \in Wrapper
  PROVE  \E f \in Frame : NewFrame(q, f, x, back, Push(q, x, back)) /\ f.kind \in kinds
  <1> DEFINE f == [kind |-> Chain(q)[Depth(q)], r |-> g[q].r, w |-> g[q].w, x |-> x, back |-> back]
             t == g[q].stack
  <1>1. g[q].pc = "down" /\ Depth(q) <= Len(Chain(q)) /\ Chain(q)[Depth(q)] \in kinds
        /\ Depth(q) = Len(t) + 1
    BY DEF At, Depth
  <1>2. TypeOK /\ t \in Seq(Frame) /\ g[q] \in Goroutine
    BY <1>1, Downward DEF TypeOK
  <1>3. Chain(q) \in Seq(Kind) /\ DOMAIN Chain(q) = 1 .. Len(Chain(q)) /\ Len(Chain(q)) \in Nat
    BY <1>2, ChainType
  <1>4. Depth(q) \in DOMAIN Chain(q)
    BY <1>1, <1>2, <1>3
  <1>5. Chain(q)[Depth(q)] \in Kind /\ g[q].r \in Nat /\ g[q].w \in Writers
    BY <1>2, <1>3, <1>4 DEF Goroutine
  <1>6. f \in Frame
    BY <1>5 DEF Frame
  <1>7. f.kind = Chain(q)[Depth(q)] /\ f.w = g[q].w /\ f.x = x /\ f.back = back
    OBVIOUS
  <1>8. Push(q, x, back) = <<f>> \o t
    BY DEF Push
  <1> HIDE DEF f
  <1>9. /\ <<f>> \o t \in Seq(Frame) /\ <<f>> \o t # <<>>
        /\ Head(<<f>> \o t) = f /\ Tail(<<f>> \o t) = t
    BY <1>2, <1>6, Pushed
  <1>10. \A K : Taken(<<f>> \o t, K, 0) = Taken(t, K, 0) \cup (IF f.kind \in K THEN {x} ELSE {})
    <2> DEFINE s == <<f>> \o t
    <2>1. s \in Seq(Frame) /\ s # <<>> /\ Head(s) = f /\ Tail(s) = t
      BY <1>9
    <2> HIDE DEF s, t
    <2>2. \A K : Taken(s, K, 0) = Taken(t, K, 0) \cup (IF f.kind \in K THEN {f.x} ELSE {})
      BY <2>1, TakenSplit
    <2> QED
      BY <1>7, <2>2 DEF s
  <1>11. NewFrame(q, f, x, back, <<f>> \o t)
    <2>1. f.kind \in {"metrics"} <=> f.kind = "metrics"
      OBVIOUS
    <2>2. Taken(<<f>> \o t, {"metrics"}, 0) =
            Taken(t, {"metrics"}, 0) \cup (IF f.kind = "metrics" THEN {x} ELSE {})
      BY <1>10, <2>1
    <2>3. Taken(<<f>> \o t, Writing, 0) =
            Taken(t, Writing, 0) \cup (IF f.kind \in Writing THEN {x} ELSE {})
      BY <1>10
    <2> QED
      BY <1>1, <1>7, <1>9, <2>2, <2>3 DEF NewFrame
  <1> QED
    BY <1>1, <1>6, <1>7, <1>8, <1>11

\* A middleware that does not write passes its writer on.
LEMMA EnterSame ==
  ASSUME IInv, RInv, NEW q \in Request, OwnOnly(q), NEW kinds, At(q, kinds),
         kinds \cap Writing = {},
         Goes(q, "down", Push(q, None, Nil), g[q].w, "ok"),
         UNCHANGED <<wr, buf, client, log>>,
         ctx'[g[q].c].res = ctx[g[q].c].res, ctx'[g[q].c].written = ctx[g[q].c].written,
         g[q].way # "native" /\ Found(q, g[q].r)' => Found(q, g[q].r)
  PROVE  RInv'
  <1> DEFINE t == g[q].stack
             s == Push(q, None, Nil)
  <1>1. g[q].pc = "down" /\ UNCHANGED app /\ Chain(q)[Depth(q)] \notin Writing
    BY DEF At, OwnOnly
  <1>2. /\ TypeOK /\ ResponseOK(q) /\ AllBlank(q) /\ ~buf[q].bypassed /\ client[q] = Blank
        /\ log[q].due = Blank /\ log[q].exact /\ ~log[q].raw /\ log[q].seen = {}
        /\ t \in Seq(Frame) /\ Wired(q, t, g[q].w, wr)
        /\ ctx[g[q].c].res \in Outer(Base(q), Held(q)) /\ ~ctx[g[q].c].written
        /\ g[q].w \in Outer(Base(q), Held(q))
    BY <1>1, Downward
  <1>3. g[q].way = "native" => ctx[g[q].c].res = g[q].w
    BY <1>1, Downward
  <1>4. PICK f \in Frame : NewFrame(q, f, None, Nil, s) /\ f.kind \in kinds
    <2>1. None \in Wrapper \cup {None} /\ Nil \in Writers
      BY DEF Writers
    <2> QED
      BY <1>1, <2>1, Pushes
  <1>5. f.kind \notin Writing /\ f.kind \notin Captors /\ f.kind \notin Recorders /\ f.kind # "metrics"
    BY <1>1, <1>4 DEF Writing, Captors, Recorders
  <1> HIDE DEF s
  <1>6. /\ Taken(s, Writing, 0) = Taken(t, Writing, 0) /\ s = <<f>> \o t /\ s \in Seq(Frame)
        /\ Taken(s, {"metrics"}, 0) = Taken(t, {"metrics"}, 0)
        /\ f.w = g[q].w /\ Len(t) + 1 <= Len(Chain(q)) /\ f.kind = Chain(q)[Len(t) + 1]
    BY <1>4, <1>5 DEF NewFrame
  <1> HIDE DEF t
  <1>7. Held(q) = Taken(t, Writing, 0) /\ Meters(q) = Taken(t, {"metrics"}, 0)
    BY DEF Held, Meters, t
  <1>8. Wired(q, s, g[q].w, wr)
    <2>1. FrameOK(Base(q), f, g[q].w, Taken(t, Writing, 0), Taken(t, Captors, 0),
                  Taken(t, Recorders, 0), wr, g[q].way = "native")
      BY <1>2, <1>5, <1>6, <1>7 DEF FrameOK
    <2>2. Wired(q, t, f.w, wr) /\ f.kind = Chain(q)[Len(t) + 1]
      BY <1>2, <1>6
    <2>3. g[q].w \in Outer(Base(q), Taken(<<f>> \o t, Writing, 0))
      BY <1>2, <1>6, <1>7
    <2>4. Metered(q) => Through(Base(q), g[q].w, Taken(<<f>> \o t, {"metrics"}, 0), wr)
      BY <1>2, <1>6 DEF Wired
    <2>5. Wired(q, <<f>> \o t, g[q].w, wr)
      BY <1>2, <1>6, <2>1, <2>2, <2>3, <2>4, PushWired
    <2> QED
      BY <1>6, <2>5
  <1>9. Metered(q) /\ Found(q, g[q].r)' =>
          Through(Base(q), ctx'[g[q].c].res, Taken(s, {"metrics"}, 0), wr')
    BY <1>1, <1>2, <1>6, <1>7 DEF ResponseOK, MeterOK, Metered
  <1>10. AllBlank(q)' /\ Held(q)' = Held(q)
    <2>1. Held(q)' = Held(q)
      BY <1>1, <1>6, <1>7, GoesKeeps DEF s
    <2>2. Front(q)' = Front(q)
      BY <1>1 DEF Front, Has
    <2> QED
      BY <1>2, <2>1, <2>2 DEF AllBlank
  <1>11. ResponseOK(q)'
    <2>1. Goes(q, "down", s, g[q].w, "ok")
      BY DEF s
    <2> QED
      BY <1>1, <1>2, <1>3, <1>6, <1>7, <1>8, <1>9, <1>10, <2>1, DownKeeps
  <1> QED
    BY <1>1, <1>10, <1>11, Alone

\* The goroutine of q has entered a middleware.
LEMMA EnterGoes ==
  ASSUME IInv, RInv, NEW q \in Request, NEW kinds, At(q, kinds), NEW x, NEW back, NEW r, NEW w,
         Entered(q, x, back, r, w)
  PROVE  Goes(q, "down", Push(q, x, back), w, "ok") /\ g'[q].r = r
  <1> DEFINE s == Push(q, x, back)
  <1>1. g[q].pc = "down"
    BY DEF At
  <1>2. g[q] \in Goroutine /\ g \in [Request -> Goroutine] /\ g[q].out = "ok"
    BY <1>1, Downward DEF TypeOK
  <1> HIDE DEF s
  <1>3. CASE g' = [g EXCEPT ![q].stack = s, ![q].r = r] /\ w = g[q].w
    BY <1>1, <1>2, <1>3 DEF Goes, Goroutine, s
  <1>4. CASE g' = [g EXCEPT ![q].stack = s, ![q].w = w] /\ r = g[q].r
    BY <1>1, <1>2, <1>4 DEF Goes, Goroutine, s
  <1>5. CASE g' = [g EXCEPT ![q].stack = s] /\ r = g[q].r /\ w = g[q].w
    BY <1>1, <1>2, <1>5 DEF Goes, Goroutine, s
  <1> QED
    BY <1>3, <1>4, <1>5 DEF Entered, s

\* A copy of the request leads to the *Context only through its own context.
LEMMA CopyKnown ==
  ASSUME IInv, NEW q \in Request, NEW kinds, At(q, kinds), NEW r \in DOMAIN reqs[q],
         NEW by \in Ctx \cup {None}, Copy(q, r, by, {Depth(q)}), UNCHANGED reg,
         g'[q].r = Fresh(q), Found(q, g[q].r)'
  PROVE  by # None
  <1>1. {Depth(q)} \subseteq Nat /\ g[q].pc = "down" /\ Active(q)
    BY AtHand
  <1>2. TypeOK /\ RegOK(q)
    BY <1>1, OwnCtx DEF RequestOK
  <1>3. Copied(q, r, by, {Depth(q)})
    BY <1>1, <1>2, CopyFacts
  <1>4. reqs'[q][Fresh(q)].by = by /\ Fresh(q) > 1 /\ Fresh(q) \in Nat
    BY <1>3 DEF Copied
  <1>5. \A e \in reg[q] : e[1] # Fresh(q)
    <2>1. Fresh(q) # 1
      BY <1>4
    <2> QED
      BY <1>2, <2>1 DEF RegOK
  <1> QED
    BY <1>4, <1>5 DEF Found

LEMMA EnterPlainHolds ==
  ASSUME IInv, RInv, NEW q \in Request, EnterPlain(q) PROVE RInv'
  <1> DEFINE kinds == {"plain", "recover", "clone"}
  <1>1. /\ At(q, kinds) /\ OwnOnly(q) /\ UNCHANGED <<wr, buf, client, log>> /\ UNCHANGED ctx
        /\ UNCHANGED reg /\ kinds \cap Writing = {}
    BY StepIsOwn DEF EnterPlain, Step, Writing
  <1>2. g[q].r \in DOMAIN reqs[q] /\ g[q].pc = "down"
    BY <1>1, AtHand
  <1>3. CASE ~At(q, {"clone"})
    <2>1. Entered(q, None, Nil, g[q].r, g[q].w) /\ UNCHANGED reqs
      BY <1>3 DEF EnterPlain, Entered
    <2>2. Goes(q, "down", Push(q, None, Nil), g[q].w, "ok") /\ g'[q].r = g[q].r
      BY <1>1, <2>1, EnterGoes
    <2>3. Found(q, g[q].r)' => Found(q, g[q].r)
      BY <1>1, <2>1, <2>2 DEF Found
    <2> HIDE DEF kinds
    <2> QED
      BY <1>1, <2>2, <2>3, EnterSame
  <1>4. CASE At(q, {"clone"})
    <2>1. /\ Copy(q, g[q].r, reqs[q][g[q].r].by, {Depth(q)})
          /\ Entered(q, None, Nil, Fresh(q), g[q].w)
      BY <1>4 DEF EnterPlain, Entered
    <2>2. Goes(q, "down", Push(q, None, Nil), g[q].w, "ok") /\ g'[q].r = Fresh(q)
      BY <1>1, <2>1, EnterGoes
    <2>3. reqs[q][g[q].r].by \in Ctx \cup {None}
      <3>1. reqs[q][g[q].r] \in Pointer
        BY <1>2 DEF IInv, TypeOK
      <3> QED
        BY <3>1 DEF Pointer
    <2>4. Found(q, g[q].r)' => Found(q, g[q].r)
      <3>1. Found(q, g[q].r)' => reqs[q][g[q].r].by # None
        BY <1>1, <1>2, <2>1, <2>2, <2>3, CopyKnown
      <3> QED
        BY <3>1 DEF Found
    <2> HIDE DEF kinds
    <2> QED
      BY <1>1, <2>2, <2>4, EnterSame
  <1> QED
    BY <1>3, <1>4

LEMMA EnterValueHolds ==
  ASSUME IInv, RInv, NEW q \in Request, EnterValue(q) PROVE RInv'
  <1> DEFINE kinds == {"value", "bind", "wrap"}
             fwd == IF At(q, {"wrap"}) /\ g[q].way # "native" THEN g[q].r ELSE Fresh(q)
  <1>1. /\ At(q, kinds) /\ OwnOnly(q) /\ UNCHANGED <<wr, buf, client, log>>
        /\ kinds \cap Writing = {} /\ Known(q) /\ SetReq(q, Fresh(q))
        /\ Entered(q, None, Nil, fwd, g[q].w)
    BY StepIsOwn DEF EnterValue, Step, Writing, Entered
  <1>2. g[q].pc = "down" /\ Active(q)
    BY <1>1, AtHand
  <1>3. TypeOK /\ g[q].c \in Ctx
    BY <1>2, OwnCtx
  <1>4. ctx'[g[q].c].res = ctx[g[q].c].res /\ ctx'[g[q].c].written = ctx[g[q].c].written
    <2>1. ctx[g[q].c] \in [req : Nat, res : Writers, written : BOOLEAN]
      BY <1>3 DEF TypeOK
    <2> QED
      BY <1>1, <1>3, <2>1 DEF SetReq, TypeOK
  <1> HIDE DEF kinds, fwd
  <1>5. Goes(q, "down", Push(q, None, Nil), g[q].w, "ok")
    BY <1>1, EnterGoes
  <1>6. g[q].way # "native" => Found(q, g[q].r)
    BY <1>1 DEF Known
  <1> QED
    BY <1>1, <1>4, <1>5, <1>6, EnterSame

LEMMA EnterValueLostHolds ==
  ASSUME IInv, RInv, NEW q \in Request, EnterValueLost(q) PROVE RInv'
  <1> DEFINE kinds == {"value", "bind", "wrap"}
  <1>1. /\ At(q, kinds) /\ OwnOnly(q) /\ UNCHANGED <<wr, buf, client, log>> /\ UNCHANGED ctx
        /\ UNCHANGED reg /\ kinds \cap Writing = {} /\ ~Known(q)
    BY StepIsOwn DEF EnterValueLost, Step, Writing
  <1>2. g[q].r \in DOMAIN reqs[q] /\ g[q].pc = "down"
    BY <1>1, AtHand
  <1>3. CASE At(q, {"wrap"})
    <2>1. Entered(q, None, Nil, g[q].r, g[q].w) /\ UNCHANGED reqs
      BY <1>3 DEF EnterValueLost, Entered
    <2>2. Goes(q, "down", Push(q, None, Nil), g[q].w, "ok") /\ g'[q].r = g[q].r
      BY <1>1, <2>1, EnterGoes
    <2>3. Found(q, g[q].r)' => Found(q, g[q].r)
      BY <1>1, <2>1, <2>2 DEF Found
    <2> HIDE DEF kinds
    <2> QED
      BY <1>1, <2>2, <2>3, EnterSame
  <1>4. CASE ~At(q, {"wrap"})
    <2>1. /\ Copy(q, g[q].r, None, {Depth(q)}) /\ Entered(q, None, Nil, Fresh(q), g[q].w)
      BY <1>4 DEF EnterValueLost, Entered
    <2>2. Goes(q, "down", Push(q, None, Nil), g[q].w, "ok") /\ g'[q].r = Fresh(q)
      BY <1>1, <2>1, EnterGoes
    <2>3. ~Found(q, g[q].r)'
      <3>1. None \in Ctx \cup {None}
        OBVIOUS
      <3> HIDE DEF kinds
      <3> QED
        BY <1>1, <1>2, <2>1, <2>2, <3>1, CopyKnown
    <2> HIDE DEF kinds
    <2> QED
      BY <1>1, <2>2, <2>3, EnterSame
  <1> QED
    BY <1>3, <1>4

\* Outside of metrics that are outside of captures there is no capture.
LEMMA NoCaptureAbove ==
  ASSUME IInv, RInv, NEW q \in Request, At(q, {"metrics"}), Metered(q)
  PROVE  Taken(g[q].stack, Captors, 0) = {}
  <1> DEFINE t == g[q].stack
             chain == Chain(q)
  <1> SUFFICES ASSUME NEW e \in Taken(t, Captors, 0) PROVE FALSE
    OBVIOUS
  <1>1. /\ g[q].pc = "down" /\ t \in Seq(Frame) /\ Len(t) \in Nat /\ Depth(q) = Len(t) + 1
        /\ Depth(q) \in DOMAIN chain /\ chain[Depth(q)] = "metrics"
    BY AtHand
  <1>2. TypeOK /\ Wired(q, t, g[q].w, wr)
    BY <1>1, Downward
  <1>3. chain \in Seq(Kind) /\ TrailOK(t, chain) /\ DOMAIN chain = 1 .. Len(chain)
    BY <1>2, ChainType DEF Wired
  <1> HIDE DEF t, chain
  <1>4. PICK i \in DOMAIN chain : i <= Len(t) /\ chain[i] = "etag"
    BY <1>1, <1>3, CaptureInChain
  <1>5. i < Depth(q)
    BY <1>1, <1>3, <1>4
  <1> QED
    BY <1>1, <1>4, <1>5 DEF Metered, Inside, chain

\* The wrapper that logger, prometheus and etag put around the writer.
Fitted(q, x, kind) ==
    /\ wr'[x].busy /\ wr'[x].kind = kind /\ wr'[x].out = Blank
    /\ kind = "etag" => wr'[x].sink = Wrap(x) /\ wr'[x].thru = {}
    /\ kind # "etag" => /\ wr'[x].sink = SinkIn(g[q].w, wr)
                        /\ wr'[x].thru = {x} \cup ThruIn(g[q].w, wr)
    /\ \A y \in Wrapper \ {x} : wr'[y] = wr[y]

LEMMA AcquireFacts ==
  ASSUME TypeOK, NEW q \in Request, NEW x \in Wrapper, Acquire(q, x)
  PROVE  Fitted(q, x, Chain(q)[Depth(q)])
  <1>1. SinkIn(g[q].w, wr) = Sink(g[q].w) /\ ThruIn(g[q].w, wr) = Thru(g[q].w)
    BY DEF SinkIn, ThruIn, Sink, Thru
  <1> DEFINE kind == Chain(q)[Depth(q)]
             sink == Sink(g[q].w)
             thru == Thru(g[q].w)
  <1>2. wr' = [wr EXCEPT ![x] = [kind |-> kind, busy |-> TRUE, out |-> Blank,
                                 sink |-> IF kind = "etag" THEN Wrap(x) ELSE sink,
                                 thru |-> IF kind = "etag" THEN {} ELSE {x} \cup thru]]
    BY DEF Acquire
  <1> HIDE DEF kind, sink, thru
  <1>3. \A y \in Wrapper \ {x} : wr'[y] = wr[y]
    BY <1>2 DEF TypeOK
  <1>4. wr'[x] = [kind |-> kind, busy |-> TRUE, out |-> Blank,
                  sink |-> IF kind = "etag" THEN Wrap(x) ELSE sink,
                  thru |-> IF kind = "etag" THEN {} ELSE {x} \cup thru]
    BY <1>2 DEF TypeOK
  <1> QED
    BY <1>1, <1>3, <1>4 DEF Fitted, kind, sink, thru

\* What is written to the new wrapper is seen by the metrics if it reaches the front.
LEMMA FittedThrough ==
  ASSUME IInv, RInv, NEW q \in Request, NEW kind \in Writing, At(q, {kind}), Metered(q),
         NEW x \in Wrapper, Fitted(q, x, kind), x \notin Held(q)
  PROVE  Through(Base(q), Wrap(x), Meters(q) \cup (IF kind = "metrics" THEN {x} ELSE {}), wr')
  <1> DEFINE b == Base(q)
             w == g[q].w
             M == Meters(q)
             t == g[q].stack
  <1>1. g[q].pc = "down"
    BY DEF At
  <1>2. /\ TypeOK /\ t \in Seq(Frame) /\ Wired(q, t, w, wr) /\ M \subseteq Held(q)
        /\ w \in Outer(b, Taken(t, Writing, 0))
    BY <1>1, Downward DEF Held
  <1>3. Through(b, w, M, wr) /\ FramesOK(b, t, w, wr, g[q].way = "native")
    BY <1>2 DEF Wired, Meters
  <1>4. SinkIn(Wrap(x), wr') = wr'[x].sink /\ ThruIn(Wrap(x), wr') = wr'[x].thru
    BY DEF SinkIn, ThruIn, Wrap
  <1>5. x \notin M /\ Wrap(x) # b
    BY <1>2, BaseFacts
  <1>6. CASE kind = "etag"
    BY <1>4, <1>5, <1>6 DEF Fitted, Through
  <1>7. CASE kind = "log"
    BY <1>3, <1>4, <1>5, <1>7 DEF Fitted, Through
  <1>8. CASE kind = "metrics"
    <2>1. Taken(t, Captors, 0) = {}
      BY <1>8, NoCaptureAbove
    <2>2. Sink(w) \in Outer(b, Taken(t, Captors, 0))
      BY <1>2, <1>3, WriterLeads
    <2>3. SinkIn(w, wr) = b
      BY <2>1, <2>2 DEF SinkIn, Sink, Outer
    <2> QED
      BY <1>3, <1>4, <1>8, <2>3 DEF Fitted, Through
  <1> QED
    BY <1>6, <1>7, <1>8 DEF Writing

\* The frame of the new wrapper.
LEMMA FittedFrame ==
  ASSUME IInv, RInv, NEW q \in Request, NEW kind \in Writing, At(q, {kind}),
         NEW x \in Wrapper, Fitted(q, x, kind), x \notin Held(q), NEW f \in Frame,
         f.kind = kind, f.x = x, f.w = g[q].w, g[q].way = "native" => f.back = f.w
  PROVE  FrameOK(Base(q), f, Wrap(x), Taken(g[q].stack, Writing, 0),
                 Taken(g[q].stack, Captors, 0), Taken(g[q].stack, Recorders, 0), wr',
                 g[q].way = "native")
  <1> DEFINE b == Base(q)
             w == g[q].w
             t == g[q].stack
  <1>1. g[q].pc = "down"
    BY DEF At
  <1>2. t \in Seq(Frame) /\ Wired(q, t, w, wr) /\ w \in Outer(b, Taken(t, Writing, 0))
    BY <1>1, Downward DEF Held
  <1>3. FramesOK(b, t, w, wr, g[q].way = "native")
    BY <1>2 DEF Wired
  <1>4. Sink(w) \in Outer(b, Taken(t, Captors, 0)) /\ Thru(w) \subseteq Taken(t, Recorders, 0)
    BY <1>2, <1>3, WriterLeads
  <1>5. SinkIn(w, wr) = Sink(w) /\ ThruIn(w, wr) = Thru(w)
    BY DEF SinkIn, ThruIn, Sink, Thru
  <1>6. x \notin Taken(t, Writing, 0)
    BY DEF Held
  <1>7. kind \in Captors <=> kind = "etag"
    BY DEF Captors
  <1>8. kind \in Recorders => kind # "etag"
    BY DEF Recorders
  <1> QED
    BY <1>2, <1>4, <1>5, <1>6, <1>7, <1>8 DEF FrameOK, Fitted

LEMMA EnterWriterHolds ==
  ASSUME IInv, RInv, NEW q \in Request, EnterWriter(q) PROVE RInv'
  <1> DEFINE t == g[q].stack
             c == g[q].c
             kind == Chain(q)[Depth(q)]
             back == IF Redirects(q) THEN ctx[c].res ELSE Nil
  <1>1. PICK x \in Wrapper :
          /\ Acquire(q, x)
          /\ ctx' = IF Redirects(q) THEN [ctx EXCEPT ![c].res = Wrap(x)] ELSE ctx
          /\ g' = [g EXCEPT ![q].stack = Push(q, x, back), ![q].w = Wrap(x)]
    BY DEF EnterWriter
  <1> DEFINE s == Push(q, x, back)
  <1>2. /\ At(q, Writing) /\ OwnOnly(q) /\ UNCHANGED app /\ UNCHANGED <<reg, reqs, buf, client, log>>
    BY StepIsOwn DEF EnterWriter, Step
  <1>3. g[q].pc = "down" /\ kind \in Writing /\ At(q, {kind})
    BY <1>2 DEF At
  <1>4. /\ TypeOK /\ ResponseOK(q) /\ AllBlank(q) /\ ~buf[q].bypassed /\ client[q] = Blank
        /\ log[q].due = Blank /\ log[q].exact /\ ~log[q].raw /\ log[q].seen = {} /\ c \in Ctx
        /\ t \in Seq(Frame) /\ Wired(q, t, g[q].w, wr)
        /\ ctx[c].res \in Outer(Base(q), Held(q)) /\ ~ctx[c].written
        /\ g[q].w \in Outer(Base(q), Held(q)) /\ Held(q) \subseteq Wrapper
    BY <1>3, Downward
  <1>5. g[q].way = "native" => ctx[c].res = g[q].w
    BY <1>3, Downward
  <1>6. Fitted(q, x, kind) /\ ~wr[x].busy
    BY <1>1, <1>4, AcquireFacts DEF Acquire
  <1>7. x \notin Held(q)
    BY <1>6, HeldBusy
  <1>8. ctx[c] \in [req : Nat, res : Writers, written : BOOLEAN]
    BY <1>4 DEF TypeOK
  <1>9. /\ Redirects(q) => ctx'[c].res = Wrap(x)
        /\ ~Redirects(q) => ctx'[c].res = ctx[c].res
        /\ ~ctx'[c].written
    BY <1>1, <1>4, <1>8 DEF TypeOK
  <1>10. PICK f \in Frame : NewFrame(q, f, x, back, s)
    <2>1. back \in Writers
      BY <1>8 DEF Writers
    <2> HIDE DEF back
    <2> QED
      BY <1>2, <2>1, Pushes
  <1>11. g[q].way = "native" => Redirects(q) /\ back = g[q].w
    BY <1>5 DEF Redirects
  <1>12. Goes(q, "down", s, Wrap(x), "ok") /\ g'[q].r = g[q].r
    <2>1. Entered(q, x, back, g[q].r, Wrap(x))
      BY <1>1 DEF Entered
    <2> HIDE DEF back
    <2> QED
      BY <1>2, <2>1, EnterGoes
  <1>13. f.kind = kind /\ f.x = x /\ f.w = g[q].w /\ (g[q].way = "native" => f.back = f.w)
    BY <1>10, <1>11 DEF NewFrame
  <1>14. /\ Taken(s, Writing, 0) = Held(q) \cup {x} /\ s = <<f>> \o t /\ s \in Seq(Frame)
         /\ Taken(s, {"metrics"}, 0) = Meters(q) \cup (IF kind = "metrics" THEN {x} ELSE {})
         /\ Len(t) + 1 <= Len(Chain(q)) /\ f.kind = Chain(q)[Len(t) + 1]
    BY <1>3, <1>10, <1>13 DEF NewFrame, Held, Meters
  <1> HIDE DEF s, t, kind, back
  <1>15. Metered(q) => Through(Base(q), Wrap(x), Taken(s, {"metrics"}, 0), wr')
    BY <1>3, <1>6, <1>7, <1>14, FittedThrough
  <1>16. \A y \in Held(q) : wr'[y] = wr[y]
    BY <1>4, <1>6, <1>7 DEF Fitted
  <1>17. Wired(q, s, Wrap(x), wr')
    <2>1. FrameOK(Base(q), f, Wrap(x), Taken(t, Writing, 0), Taken(t, Captors, 0),
                  Taken(t, Recorders, 0), wr', g[q].way = "native")
      BY <1>3, <1>6, <1>7, <1>13, FittedFrame DEF t
    <2>2. Wired(q, t, f.w, wr')
      <3>1. \A y \in Taken(t, Writing, 0) : SameWiring(y, wr, wr')
        BY <1>16 DEF SameWiring, Held, t
      <3> QED
        BY <1>4, <1>13, <3>1, WiredKept
    <2>3. Wrap(x) \in Outer(Base(q), Taken(<<f>> \o t, Writing, 0))
      BY <1>14 DEF Outer
    <2> QED
      BY <1>4, <1>14, <1>15, <2>1, <2>2, <2>3, PushWired
  <1>18. ctx'[c].res \in Outer(Base(q), Taken(s, Writing, 0))
    BY <1>4, <1>9, <1>14 DEF Outer
  <1>19. Metered(q) /\ Found(q, g[q].r)' =>
           Through(Base(q), ctx'[c].res, Taken(s, {"metrics"}, 0), wr')
    <2> SUFFICES ASSUME Metered(q), Found(q, g[q].r)'
                 PROVE  Through(Base(q), ctx'[c].res, Taken(s, {"metrics"}, 0), wr')
      OBVIOUS
    <2>1. Found(q, g[q].r)
      BY <1>2, <1>12 DEF Found
    <2>2. CASE kind = "metrics"
      <3>1. Redirects(q)
        BY <1>3, <2>1, <2>2 DEF Redirects
      <3> QED
        BY <1>9, <1>15, <3>1
    <2>3. CASE kind # "metrics"
      <3>1. ~Redirects(q)
        BY <2>3 DEF Redirects, Metered, At, kind
      <3>2. Taken(s, {"metrics"}, 0) = Meters(q)
        BY <1>14, <2>3
      <3>3. Through(Base(q), ctx[c].res, Meters(q), wr)
        BY <1>3, <1>4, <2>1 DEF ResponseOK, MeterOK
      <3>4. \A y \in Held(q) : SameWiring(y, wr, wr')
        BY <1>16 DEF SameWiring
      <3>5. Through(Base(q), ctx[c].res, Meters(q), wr')
        BY <1>4, <3>3, <3>4, ThroughKept
      <3> QED
        BY <1>9, <3>1, <3>2, <3>5
    <2> QED
      BY <2>2, <2>3
  <1>20. Held(q)' = Held(q) \cup {x}
    BY <1>2, <1>12, <1>14, GoesKeeps
  <1>21. AllBlank(q)'
    <2>1. Front(q)' = Front(q)
      BY <1>2 DEF Front, Has
    <2> QED
      BY <1>4, <1>6, <1>16, <1>20, <2>1 DEF AllBlank, Fitted
  <1>22. ResponseOK(q)'
    <2>1. g[q].way = "native" => ctx'[c].res = Wrap(x)
      BY <1>9, <1>11
    <2> QED
      BY <1>2, <1>4, <1>9, <1>12, <1>14, <1>17, <1>18, <1>19, <1>21, <2>1, DownKeeps
  <1>23. \A y \in Wrapper \ Held(q) : wr[y].busy => wr'[y] = wr[y]
    BY <1>6 DEF Fitted
  <1> QED
    BY <1>2, <1>6, <1>20, <1>22, <1>23, Alone

----------------------------------------------------------------------------
(* Before and after the chain.                                              *)

\* Outside of the chain there is only the outermost writer.
LEMMA Bare ==
  ASSUME NEW q \in Request, g[q].stack = <<>>
  PROVE  /\ Held(q) = {} /\ Captures(q) = {} /\ Meters(q) = {}
         /\ Outer(Base(q), Held(q)) = {Base(q)}
  <1>1. Held(q) = {} /\ Captures(q) = {} /\ Meters(q) = {}
    BY TakenNone DEF Held, Captures, Meters
  <1> QED
    BY <1>1 DEF Outer

LEMMA BareNext ==
  ASSUME TypeOK, NEW q \in Request, UNCHANGED app, g'[q].stack = <<>>
  PROVE  /\ Held(q)' = {} /\ Captures(q)' = {} /\ Meters(q)' = {} /\ Base(q)' = Base(q)
         /\ Outer(Base(q), {}) = {Base(q)}
         /\ TrailOK(g[q].stack, Chain(q))'
         /\ FramesOK(Base(q), g[q].stack, g[q].w, wr, g[q].way = "native")'
         /\ MetersOK(Base(q), g[q].stack, wr)'
  <1>1. Held(q)' = {} /\ Captures(q)' = {} /\ Meters(q)' = {}
    BY TakenNone DEF Held, Captures, Meters
  <1>2. Chain(q)' \in Seq(Kind)
    <2>1. app.global \in Seq(Kind) /\ app.route \in Seq(Kind)
      BY ChainType
    <2>2. app.global \o app.route \in Seq(Kind)
      BY <2>1
    <2> QED
      BY <2>1, <2>2 DEF Chain
  <1>3. TrailOK(g[q].stack, Chain(q))'
    <2> DEFINE chain == Chain(q)'
    <2> HIDE DEF chain
    <2>1. TrailOK(<<>>, chain)
      BY <1>2, TrailNone DEF chain
    <2> QED
      BY <2>1 DEF chain
  <1>4. Base(q)' = Base(q)
    BY DEF Base, Has, Client, Buf
  <1> QED
    BY <1>1, <1>3, <1>4, FramesNone DEF MetersOK, Outer

\* The beginning of a request: nothing has been written.
LEMMA StartKeeps ==
  ASSUME TypeOK, NEW q \in Request, UNCHANGED app, g'[q].stack = <<>>,
         g'[q].pc \in {"hooks", "dispatch", "down"}, g'[q].w = Base(q),
         ctx'[g'[q].c].res = Base(q), ~ctx'[g'[q].c].written, g'[q].out = "ok",
         Front(q)' = Blank, ~buf'[q].bypassed, client'[q] = Blank,
         log'[q].due = Blank, log'[q].exact, ~log'[q].raw, log'[q].seen = {}
  PROVE  ResponseOK(q)'
  <1>1. /\ Held(q)' = {} /\ Captures(q)' = {} /\ Meters(q)' = {} /\ Base(q)' = Base(q)
        /\ Outer(Base(q), {}) = {Base(q)}
        /\ TrailOK(g[q].stack, Chain(q))'
        /\ FramesOK(Base(q), g[q].stack, g[q].w, wr, g[q].way = "native")'
        /\ MetersOK(Base(q), g[q].stack, wr)'
    BY BareNext
  <1>2. WritersOK(q)'
    BY <1>1 DEF WritersOK
  <1>3. EarlyOK(q)'
    BY <1>1 DEF EarlyOK, AllBlank
  <1>4. AnswerOK(q)'
    BY DEF AnswerOK
  <1>5. FaithfulOK(q)'
    BY DEF FaithfulOK
  <1>6. MeterOK(q)'
    <2>1. Through(Base(q), Base(q), {}, wr')
      BY DEF Through
    <2> QED
      BY <1>1, <2>1 DEF MeterOK
  <1> QED
    BY <1>1, <1>2, <1>3, <1>4, <1>5, <1>6 DEF ResponseOK

\* What is known before the chain.
LEMMA Early ==
  ASSUME IInv, RInv, NEW q \in Request, g[q].pc \in {"arrive", "hooks", "dispatch"}
  PROVE  /\ TypeOK /\ g[q].stack = <<>> /\ Front(q) = Blank /\ ~buf[q].bypassed
         /\ client[q] = Blank /\ g[q].out = "ok" /\ Held(q) = {}
         /\ log[q].due = Blank /\ log[q].exact /\ ~log[q].raw /\ log[q].seen = {}
         /\ g[q].pc # "arrive" => /\ g[q].w = Base(q) /\ g[q].c \in Ctx
                                  /\ ctx[g[q].c].res = Base(q) /\ ~ctx[g[q].c].written
  <1>1. TypeOK /\ ResponseOK(q)
    BY DEF IInv, RInv
  <1>2. g[q].stack = <<>>
    BY <1>1 DEF ResponseOK, WritersOK
  <1>3. Held(q) = {} /\ Outer(Base(q), Held(q)) = {Base(q)}
    BY <1>2, Bare
  <1>4. g[q].pc # "arrive" => g[q].c \in Ctx
    BY OwnCtx DEF Active
  <1> QED
    BY <1>1, <1>2, <1>3, <1>4 DEF ResponseOK, WritersOK, EarlyOK, AllBlank

LEMMA BeginHolds ==
  ASSUME IInv, RInv, NEW q \in Request, Begin(q) PROVE RInv'
  <1>1. g[q].pc = "arrive" /\ OwnOnly(q) /\ UNCHANGED app /\ UNCHANGED <<wr, buf, client, log>>
    BY StepIsOwn DEF Begin, Step
  <1>2. /\ TypeOK /\ g[q].stack = <<>> /\ Front(q) = Blank /\ ~buf[q].bypassed
        /\ client[q] = Blank /\ g[q].out = "ok" /\ Held(q) = {}
        /\ log[q].due = Blank /\ log[q].exact /\ ~log[q].raw /\ log[q].seen = {}
    BY <1>1, Early
  <1>3. PICK c \in pool, hit \in {"route", "none", "mount"} :
          /\ ctx' = [ctx EXCEPT ![c] = [req |-> 1, res |-> Base(q), written |-> FALSE]]
          /\ g' = [g EXCEPT ![q].pc = "hooks", ![q].c = c, ![q].hit = hit, ![q].r = 1,
                            ![q].w = Base(q)]
    BY DEF Begin
  <1>4. c \in Ctx /\ g[q] \in Goroutine /\ g \in [Request -> Goroutine]
    BY <1>2 DEF TypeOK
  <1>5. /\ g'[q].pc = "hooks" /\ g'[q].c = c /\ g'[q].w = Base(q) /\ g'[q].stack = g[q].stack
        /\ g'[q].out = g[q].out
    BY <1>3, <1>4 DEF Goroutine
  <1>6. ctx'[c].res = Base(q) /\ ~ctx'[c].written
    BY <1>2, <1>3, <1>4 DEF TypeOK
  <1>7. Front(q)' = Blank
    BY <1>1, <1>2 DEF Front, Has
  <1>8. ResponseOK(q)' /\ Held(q)' = {}
    BY <1>1, <1>2, <1>5, <1>6, <1>7, StartKeeps, BareNext
  <1> QED
    BY <1>1, <1>8, Alone

LEMMA RunOnRequestHolds ==
  ASSUME IInv, RInv, NEW q \in Request, RunOnRequest(q) PROVE RInv'
  <1>1. /\ g[q].pc = "hooks" /\ OwnOnly(q) /\ UNCHANGED app /\ UNCHANGED <<wr, buf, client, log>>
        /\ UNCHANGED ctx /\ g' = [g EXCEPT ![q].pc = "dispatch"]
    BY StepIsOwn DEF RunOnRequest, Step
  <1>2. /\ TypeOK /\ g[q].stack = <<>> /\ Front(q) = Blank /\ ~buf[q].bypassed
        /\ client[q] = Blank /\ g[q].out = "ok" /\ Held(q) = {}
        /\ log[q].due = Blank /\ log[q].exact /\ ~log[q].raw /\ log[q].seen = {}
        /\ g[q].w = Base(q) /\ g[q].c \in Ctx
        /\ ctx[g[q].c].res = Base(q) /\ ~ctx[g[q].c].written
    BY <1>1, Early
  <1>3. g[q] \in Goroutine /\ g \in [Request -> Goroutine]
    BY <1>2 DEF TypeOK
  <1>4. /\ g'[q].pc = "dispatch" /\ g'[q].c = g[q].c /\ g'[q].w = g[q].w
        /\ g'[q].stack = g[q].stack /\ g'[q].out = g[q].out
    BY <1>1, <1>3 DEF Goroutine
  <1>5. Front(q)' = Blank
    BY <1>1, <1>2 DEF Front, Has
  <1>6. ResponseOK(q)' /\ Held(q)' = {}
    BY <1>1, <1>2, <1>4, <1>5, StartKeeps, BareNext
  <1> QED
    BY <1>1, <1>6, Alone

LEMMA DispatchHolds ==
  ASSUME IInv, RInv, NEW q \in Request, Dispatch(q) PROVE RInv'
  <1>1. g[q].pc = "dispatch" /\ OwnOnly(q) /\ UNCHANGED app /\ UNCHANGED <<wr, buf, client, log>>
    BY StepIsOwn DEF Dispatch, Step
  <1>2. /\ TypeOK /\ g[q].stack = <<>> /\ Front(q) = Blank /\ ~buf[q].bypassed
        /\ client[q] = Blank /\ g[q].out = "ok" /\ Held(q) = {}
        /\ log[q].due = Blank /\ log[q].exact /\ ~log[q].raw /\ log[q].seen = {}
        /\ g[q].w = Base(q) /\ g[q].c \in Ctx
        /\ ctx[g[q].c].res = Base(q) /\ ~ctx[g[q].c].written
    BY <1>1, Early
  <1>3. \E way, r : g' = [g EXCEPT ![q].pc = "down", ![q].way = way, ![q].r = r]
    BY DEF Dispatch
  <1>4. PICK way, r : g' = [g EXCEPT ![q].pc = "down", ![q].way = way, ![q].r = r]
    BY <1>3
  <1>5. g[q] \in Goroutine /\ g \in [Request -> Goroutine]
    BY <1>2 DEF TypeOK
  <1>6. /\ g'[q].pc = "down" /\ g'[q].c = g[q].c /\ g'[q].w = g[q].w
        /\ g'[q].stack = g[q].stack /\ g'[q].out = g[q].out
    BY <1>4, <1>5 DEF Goroutine
  <1>7. ctx'[g[q].c].res = ctx[g[q].c].res /\ ctx'[g[q].c].written = ctx[g[q].c].written
    <2>1. ctx[g[q].c] \in [req : Nat, res : Writers, written : BOOLEAN]
      BY <1>2 DEF TypeOK
    <2>2. UNCHANGED ctx \/ SetReq(q, Fresh(q))
      BY DEF Dispatch
    <2> QED
      BY <1>2, <2>1, <2>2 DEF SetReq, TypeOK
  <1>8. Front(q)' = Blank
    BY <1>1, <1>2 DEF Front, Has
  <1>9. ResponseOK(q)' /\ Held(q)' = {}
    BY <1>1, <1>2, <1>6, <1>7, <1>8, StartKeeps, BareNext
  <1> QED
    BY <1>1, <1>9, Alone

\* After the chain: the response is at the front.
EndOK(q) ==
    /\ Composed(q)
    /\ ~Has("OnSend") => ~buf[q].bypassed
    /\ Has("OnSend") /\ ~buf[q].bypassed => client[q] = Blank
    /\ OneETag(q) /\ g[q].out = "ok" /\ log[q].exact => Settled(q)
    /\ Metered(q) => \A st \in Status : <<"metrics", st>> \in log[q].seen =>
                        st = Effective(Front(q).status)

LEMMA EndKeeps ==
  ASSUME TypeOK, NEW q \in Request, UNCHANGED app, g'[q].stack = <<>>, g'[q].pc = "finish",
         EndOK(q)'
  PROVE  ResponseOK(q)' /\ Held(q)' = {}
  <1>1. /\ Held(q)' = {} /\ Meters(q)' = {}
        /\ TrailOK(g[q].stack, Chain(q))'
        /\ FramesOK(Base(q), g[q].stack, g[q].w, wr, g[q].way = "native")'
        /\ MetersOK(Base(q), g[q].stack, wr)'
    BY BareNext
  <1>2. WritersOK(q)'
    BY <1>1 DEF WritersOK
  <1>3. EarlyOK(q)'
    BY DEF EarlyOK
  <1>4. AnswerOK(q)'
    BY DEF AnswerOK, EndOK
  <1>5. FaithfulOK(q)'
    BY DEF FaithfulOK, EndOK
  <1>6. MeterOK(q)'
    BY <1>1 DEF MeterOK, EndOK
  <1> QED
    BY <1>1, <1>2, <1>3, <1>4, <1>5, <1>6 DEF ResponseOK

\* What is at the front is one body, or pieces of q's own.
LEMMA FrontBodies ==
  ASSUME NEW q \in Request, Composed(q)
  PROVE  Front(q).body \in Bodies(q)
  BY DEF Composed, Pieces, Only, Bodies

\* A request that is answered: the client has the response.
LEMMA DoneKeeps ==
  ASSUME TypeOK, NEW q \in Request, UNCHANGED app, g'[q].stack = <<>>, g'[q].pc = "done",
         client'[q].body \in Bodies(q)', ~Has("OnSend") => ~buf'[q].bypassed,
         OneETag(q)' /\ g'[q].out = "ok" /\ log'[q].exact => Matches(q, client[q])',
         Metered(q)' /\ g'[q].out = "ok" =>
            \A st \in Status : <<"metrics", st>> \in log'[q].seen =>
                st = Effective(client'[q].status)
  PROVE  ResponseOK(q)' /\ Held(q)' = {}
  <1>1. /\ Held(q)' = {} /\ Meters(q)' = {}
        /\ TrailOK(g[q].stack, Chain(q))'
        /\ FramesOK(Base(q), g[q].stack, g[q].w, wr, g[q].way = "native")'
        /\ MetersOK(Base(q), g[q].stack, wr)'
    BY BareNext
  <1>2. WritersOK(q)'
    BY <1>1 DEF WritersOK
  <1>3. EarlyOK(q)'
    BY DEF EarlyOK
  <1>4. AnswerOK(q)'
    BY DEF AnswerOK, Has
  <1>5. FaithfulOK(q)'
    BY DEF FaithfulOK
  <1>6. MeterOK(q)'
    BY <1>1 DEF MeterOK
  <1> QED
    BY <1>1, <1>2, <1>3, <1>4, <1>5, <1>6 DEF ResponseOK

LEMMA OnRequestFailsHolds ==
  ASSUME IInv, RInv, NEW q \in Request, OnRequestFails(q) PROVE RInv'
  <1> DEFINE c == g[q].c
             answer == <<<<q, "error">>>>
  <1>1. /\ g[q].pc = "hooks" /\ OwnOnly(q) /\ UNCHANGED app /\ g' = [g EXCEPT ![q].pc = "finish"]
        /\ HandleError(q, ctx[c].res, wr) /\ Due(q, "error", "error")
    BY StepIsOwn DEF OnRequestFails, Step
  <1>2. /\ TypeOK /\ g[q].stack = <<>> /\ Front(q) = Blank /\ ~buf[q].bypassed
        /\ client[q] = Blank /\ g[q].out = "ok" /\ Held(q) = {} /\ c \in Ctx
        /\ log[q].exact /\ ~log[q].raw /\ log[q].seen = {} /\ ctx[c].res = Base(q) /\ ~ctx[c].written
    BY <1>1, Early
  <1>3. /\ log'[q].due = [status |-> "error", body |-> answer]
        /\ log'[q].seen = log[q].seen /\ log'[q].raw = log[q].raw
    BY <1>1, <1>2, DueFacts DEF Due
  <1>4. Write(Base(q), "error", answer, wr)
    BY <1>1, <1>2 DEF HandleError, JSON
  <1>5. g'[q].stack = <<>> /\ g'[q].pc = "finish"
    <2>1. g[q] \in Goroutine /\ g \in [Request -> Goroutine]
      BY <1>2 DEF TypeOK
    <2> QED
      BY <1>1, <1>2, <2>1 DEF Goroutine
  <1>6. Held(q)' = {} /\ Captures(q)' = {} /\ Meters(q)' = {} /\ Captures(q) = {}
    BY <1>1, <1>2, <1>5, Bare, BareNext
  <1>7. /\ Landed(q, "error", answer)' /\ \E place \in Wrapper \cup {None} : Only(q, place)'
    <2>1. answer \in Body(q) /\ "error" \in Status
      BY OwnBody DEF Status
    <2>2. Base(q) \in Outer(Base(q), Held(q)) /\ AllBlank(q) /\ ResponseOK(q)
      BY <1>2 DEF Outer, AllBlank, RInv
    <2> HIDE DEF answer
    <2> QED
      BY <1>1, <1>2, <1>4, <1>6, <2>1, <2>2, Lands
  <1>8. Settled(q)'
    <2>1. "error" \in Status \ {"none"}
      BY DEF Status
    <2> HIDE DEF answer
    <2> QED
      BY <1>3, <1>7, <2>1, LandedSettles
  <1>9. Contained(q) /\ \A x \in Wrapper : wr'[x] = wr[x]
    <2>1. wr \in [Wrapper -> WrapperState] /\ <<>> \in Seq(Frame)
      BY <1>2 DEF TypeOK, WrapperState
    <2>2. FramesOK(Base(q), <<>>, Base(q), wr, FALSE)
      BY FramesNone
    <2>3. Base(q) \in Outer(Base(q), Taken(<<>>, Writing, 0))
      BY DEF Outer
    <2>4. Taken(<<>>, Recorders, 0) = {} /\ Taken(<<>>, Captors, 0) = {}
      BY TakenNone
    <2> HIDE DEF answer
    <2>5. /\ Contained(q) /\ Thru(Base(q)) = {} /\ Reaches(q, Base(q), "error", answer, wr)
      BY <1>1, <1>2, <1>4, <2>1, <2>2, <2>3, <2>4, WriteEffect
    <2> QED
      BY <2>5 DEF Reaches
  <1>10. EndOK(q)'
    <2>1. Composed(q)'
      BY <1>2, <1>3, <1>7, OnlyComposed
    <2> QED
      BY <1>1, <1>2, <1>3, <1>6, <1>8, <1>9, <2>1 DEF EndOK, Contained, Has
  <1>11. ResponseOK(q)' /\ Held(q)' = {}
    BY <1>1, <1>2, <1>5, <1>10, EndKeeps
  <1> QED
    BY <1>1, <1>9, <1>11, Alone DEF Contained

LEMMA OnRequestPanicsHolds ==
  ASSUME IInv, RInv, NEW q \in Request, OnRequestPanics(q) PROVE RInv'
  <1>1. /\ g[q].pc = "hooks" /\ OwnOnly(q) /\ UNCHANGED app /\ UNCHANGED <<wr, buf, client, log>>
        /\ g' = [g EXCEPT ![q].pc = "finish", ![q].out = "panic"]
    BY StepIsOwn DEF OnRequestPanics, Step
  <1>2. /\ TypeOK /\ g[q].stack = <<>> /\ Front(q) = Blank /\ ~buf[q].bypassed
        /\ client[q] = Blank /\ ~log[q].raw /\ log[q].seen = {}
    BY <1>1, Early
  <1>3. g'[q].stack = <<>> /\ g'[q].pc = "finish" /\ g'[q].out = "panic"
    <2>1. g[q] \in Goroutine /\ g \in [Request -> Goroutine]
      BY <1>2 DEF TypeOK
    <2> QED
      BY <1>1, <1>2, <2>1 DEF Goroutine
  <1>4. Held(q)' = {} /\ Meters(q)' = {} /\ Front(q)' = Blank
    <2>1. Front(q)' = Blank
      BY <1>1, <1>2 DEF Front, Has
    <2> QED
      BY <1>1, <1>2, <1>3, <2>1, BareNext
  <1>5. EndOK(q)'
    <2>1. Only(q, None)'
      BY <1>4 DEF Only, Body, Blank
    <2>2. Composed(q)'
      BY <1>1, <1>2, <2>1, OnlyComposed
    <2> QED
      BY <1>1, <1>2, <1>3, <1>4, <2>2 DEF EndOK
  <1>6. ResponseOK(q)'
    BY <1>1, <1>2, <1>3, <1>5, EndKeeps
  <1> QED
    BY <1>1, <1>4, <1>6, Alone

LEMMA ReturnHolds ==
  ASSUME IInv, RInv, NEW q \in Request, Return(q) PROVE RInv'
  <1>1. /\ g[q].pc = "up" /\ g[q].stack = <<>> /\ OwnOnly(q) /\ UNCHANGED app
        /\ UNCHANGED <<wr, buf, client, log>>
        /\ Turned(q, "finish", g[q].out) \/ Turned(q, "finish", "panic")
    BY StepIsOwn DEF Return, Step, Turned
  <1>2. TypeOK /\ HoldsOK(q)
    BY <1>1, Upward
  <1>3. PICK o \in {g[q].out, "panic"} : Goes(q, "finish", <<>>, g[q].w, o)
    BY <1>1, <1>2, TurnGoes
  <1>4. /\ OneETag(q)' = OneETag(q) /\ Metered(q)' = Metered(q) /\ Has("OnSend")' = Has("OnSend")
        /\ Chain(q)' = Chain(q) /\ g'[q].stack = <<>> /\ g'[q].pc = "finish" /\ g'[q].out = o
    BY <1>1, <1>3, GoesKeeps DEF Goes
  <1>5. /\ Held(q)' = {} /\ Captures(q)' = {} /\ Meters(q)' = {}
        /\ Held(q) = {} /\ Captures(q) = {} /\ Meters(q) = {} /\ Front(q)' = Front(q)
    <2>1. Front(q)' = Front(q)
      BY <1>1 DEF Front, Has
    <2> QED
      BY <1>1, <1>2, <1>4, <2>1, Bare, BareNext
  <1>6. /\ AllBlank(q)' = AllBlank(q) /\ Composed(q)' = Composed(q)
    <2>1. \A place : Only(q, place)' = Only(q, place)
      BY <1>1, <1>5 DEF Only, Body
    <2>2. Pieces(q)' = Pieces(q)
      BY <1>1, <1>5 DEF Pieces, Own
    <2> QED
      BY <1>1, <1>5, <2>1, <2>2 DEF AllBlank, Composed
  <1>7. Settled(q)' = Settled(q)
    BY <1>1, <1>4, <1>5, <1>6 DEF Settled, Matches, Shown
  <1>8. ResponseOK(q)'
    <2>1. /\ Composed(q)'
          /\ ~Has("OnSend") => ~buf[q].bypassed
          /\ Has("OnSend") /\ ~buf[q].bypassed => client[q] = Blank
      BY <1>2, <1>6 DEF HoldsOK
    <2>2. OneETag(q)' /\ g'[q].out = "ok" /\ log'[q].exact => Settled(q)'
      BY <1>1, <1>2, <1>3, <1>4, <1>7 DEF HoldsOK
    <2>3. Metered(q)' => \A st \in Status : <<"metrics", st>> \in log'[q].seen =>
                            st = Effective(Front(q)'.status)
      BY <1>1, <1>2, <1>4, <1>5 DEF HoldsOK
    <2>4. EndOK(q)'
      BY <1>1, <2>1, <2>2, <2>3 DEF EndOK, Has
    <2> QED
      BY <1>1, <1>2, <1>4, <2>4, EndKeeps
  <1> QED
    BY <1>1, <1>5, <1>8, Alone

LEMMA FinishHolds ==
  ASSUME IInv, RInv, NEW q \in Request, Finish(q) PROVE RInv'
  <1> DEFINE sent == Has("OnSend") /\ ~buf[q].bypassed
  <1>1. /\ g[q].pc = "finish" /\ OwnOnly(q) /\ UNCHANGED app /\ UNCHANGED <<wr, buf, log>>
        /\ client' = (IF Has("OnSend") THEN Flushed(q) ELSE client) /\ Turned(q, "done", g[q].out)
    BY StepIsOwn DEF Finish, Step, Turned
  <1>2. TypeOK /\ ResponseOK(q) /\ client \in [Request -> Output] /\ buf[q].out \in Output
    BY DEF IInv, RInv, TypeOK
  <1>3. g[q].stack = <<>> /\ EndOK(q)
    BY <1>1, <1>2 DEF ResponseOK, WritersOK, AnswerOK, FaithfulOK, MeterOK, EndOK
  <1>4. Goes(q, "done", <<>>, g[q].w, g[q].out)
    BY <1>1, <1>2, <1>3, TurnGoes
  <1>5. /\ OneETag(q)' = OneETag(q) /\ Metered(q)' = Metered(q)
        /\ Chain(q)' = Chain(q) /\ g'[q].stack = <<>> /\ g'[q].pc = "done" /\ g'[q].out = g[q].out
    BY <1>1, <1>4, GoesKeeps DEF Goes
  <1>6. /\ client' = IF sent THEN [client EXCEPT ![q] = Put(client[q], Effective(buf[q].out.status),
                                                          buf[q].out.body)]
                     ELSE client
    BY <1>1 DEF Flushed
  <1>7. client'[q] = IF sent THEN Shown(Front(q)) ELSE Front(q)
    <2>1. CASE sent
      <3>1. client[q] = Blank /\ Front(q) = buf[q].out
        BY <1>3, <2>1 DEF EndOK, Front
      <3>2. <<>> \o buf[q].out.body = buf[q].out.body
        BY <1>2 DEF Output
      <3>3. client'[q] = Put(Blank, Effective(buf[q].out.status), buf[q].out.body)
        BY <1>2, <1>6, <2>1, <3>1
      <3> QED
        BY <2>1, <3>1, <3>2, <3>3 DEF Put, Blank, Shown
    <2>2. CASE ~sent
      BY <1>6, <2>2 DEF Front
    <2> QED
      BY <2>1, <2>2
  <1>8. \A p \in Request \ {q} : client'[p] = client[p]
    BY <1>2, <1>6
  <1> HIDE DEF sent
  <1>9. Effective(Effective(Front(q).status)) = Effective(Front(q).status)
    BY DEF Effective
  <1>10. Shown(client'[q]) = Shown(Front(q)) /\ client'[q].body = Front(q).body
         /\ Effective(client'[q].status) = Effective(Front(q).status)
    BY <1>7, <1>9 DEF Shown
  <1>11. client'[q].body \in Bodies(q)'
    <2>1. Bodies(q)' = Bodies(q)
      BY <1>1 DEF Bodies, Body, Own
    <2> QED
      BY <1>3, <1>10, <2>1, FrontBodies DEF EndOK
  <1>12. OneETag(q) /\ g[q].out = "ok" /\ log[q].exact => Matches(q, client[q])'
    <2> SUFFICES ASSUME Settled(q) PROVE Matches(q, client[q])'
      BY <1>3 DEF EndOK
    <2>1. Captures(q) = {} /\ Shown(log'[q].due) = Shown(log[q].due)
      BY <1>1, <1>3, Bare
    <2>2. CASE AllBlank(q) /\ Shown(log[q].due) = Shown(Blank)
      BY <1>10, <2>1, <2>2 DEF AllBlank, Matches
    <2>3. CASE Front(q).status # "none" /\ Matches(q, Front(q))
      <3>1. CASE Shown(Front(q)) = Shown(log[q].due)
        BY <1>10, <2>1, <3>1 DEF Matches
      <3>2. CASE /\ \E i \in DOMAIN Chain(q) : Chain(q)[i] = "etag"
                 /\ Effective(log[q].due.status) = "200"
                 /\ Front(q) = [status |-> "304", body |-> <<>>]
        <4>1. client'[q] = [status |-> "304", body |-> <<>>]
          BY <1>7, <3>2 DEF Shown, Effective
        <4> QED
          BY <1>1, <1>5, <3>2, <4>1 DEF Matches, Effective
      <3> QED
        BY <2>3, <3>1, <3>2 DEF Matches
    <2> QED
      BY <2>1, <2>2, <2>3 DEF Settled
  <1>13. ResponseOK(q)' /\ Held(q)' = {}
    BY <1>1, <1>2, <1>3, <1>5, <1>10, <1>11, <1>12, DoneKeeps DEF EndOK
  <1> QED
    BY <1>1, <1>8, <1>13, Alone

LEMMA SendPanicsHolds ==
  ASSUME IInv, RInv, NEW q \in Request, SendPanics(q) PROVE RInv'
  <1>1. /\ g[q].pc = "finish" /\ OwnOnly(q) /\ UNCHANGED app
        /\ UNCHANGED <<wr, buf, client, log>> /\ Turned(q, "done", "sendPanic")
    BY StepIsOwn DEF SendPanics, Step, Turned
  <1>2. TypeOK /\ ResponseOK(q)
    BY DEF IInv, RInv
  <1>3. g[q].stack = <<>> /\ EndOK(q)
    BY <1>1, <1>2 DEF ResponseOK, WritersOK, AnswerOK, FaithfulOK, MeterOK, EndOK
  <1>4. g'[q].stack = <<>> /\ g'[q].pc = "done" /\ g'[q].out = "sendPanic"
    BY <1>1, <1>2, <1>3, TurnGoes DEF Goes
  <1>5. client'[q].body \in Bodies(q)'
    <2>1. Bodies(q)' = Bodies(q) /\ <<>> \in Bodies(q)
      BY <1>1 DEF Bodies, Body, Own
    <2>2. client[q].body = <<>> \/ client[q] = Front(q)
      BY <1>3 DEF EndOK, Front, Blank
    <2> QED
      BY <1>1, <1>3, <2>1, <2>2, FrontBodies DEF EndOK
  <1>6. ResponseOK(q)' /\ Held(q)' = {}
    BY <1>1, <1>2, <1>3, <1>4, <1>5, DoneKeeps DEF EndOK
  <1> QED
    BY <1>1, <1>6, Alone

LEMMA RedirectHolds ==
  ASSUME IInv, RInv, NEW q \in Request, Redirect(q) PROVE RInv'
  <1> DEFINE moved == [status |-> "301", body |-> <<>>]
  <1>1. /\ g[q].pc = "arrive" /\ OwnOnly(q) /\ UNCHANGED app /\ UNCHANGED <<wr, buf>>
        /\ client' = [client EXCEPT ![q] = Put(client[q], "301", <<>>)]
        /\ log' = [log EXCEPT ![q].due = moved] /\ Turned(q, "done", g[q].out)
    BY StepIsOwn DEF Redirect, Step, Turned
  <1>2. /\ TypeOK /\ g[q].stack = <<>> /\ ~buf[q].bypassed /\ client[q] = Blank
        /\ log[q].seen = {} /\ ~log[q].raw
    BY <1>1, Early
  <1>3. client'[q] = moved /\ \A p \in Request \ {q} : client'[p] = client[p]
    <2>1. <<>> \o <<>> = <<>>
      OBVIOUS
    <2> QED
      BY <1>1, <1>2, <2>1 DEF TypeOK, Put, Blank
  <1>4. log'[q].due = moved /\ log'[q].seen = {} /\ ~log'[q].raw
    BY <1>1, <1>2, DueFacts
  <1>5. g'[q].stack = <<>> /\ g'[q].pc = "done"
    BY <1>1, <1>2, TurnGoes DEF Goes
  <1>6. Matches(q, client[q])' /\ client'[q].body \in Bodies(q)'
    BY <1>3, <1>4 DEF Matches, Bodies, Body
  <1>7. ResponseOK(q)' /\ Held(q)' = {}
    BY <1>1, <1>2, <1>4, <1>5, <1>6, DoneKeeps
  <1> QED
    BY <1>1, <1>3, <1>7, Alone

----------------------------------------------------------------------------
(* The invariant holds, and what follows from it.                           *)

\* No request has begun.
LEMMA InitRInv ==
  ASSUME Init PROVE RInv
  <1>1. TypeOK
    BY InitIInv DEF IInv
  <1>2. ASSUME NEW q \in Request
        PROVE  /\ g[q].pc = "arrive" /\ g[q].stack = <<>> /\ g[q].out = "ok"
               /\ buf[q] = [bypassed |-> FALSE, out |-> Blank] /\ client[q] = Blank
               /\ log[q].due = Blank /\ log[q].exact /\ ~log[q].raw /\ log[q].seen = {}
    BY DEF Init
  <1>3. ASSUME NEW q \in Request PROVE Held(q) = {} /\ Meters(q) = {} /\ Front(q) = Blank
    BY <1>2, Bare DEF Front
  <1>4. ASSUME NEW q \in Request PROVE ResponseOK(q)
    <2>1. TrailOK(g[q].stack, Chain(q))
      BY <1>1, <1>2, ChainType, TrailNone
    <2>2. WritersOK(q)
      BY <1>2, FramesNone DEF WritersOK
    <2>3. EarlyOK(q)
      BY <1>2, <1>3 DEF EarlyOK, AllBlank
    <2>4. AnswerOK(q) /\ FaithfulOK(q)
      BY <1>2 DEF AnswerOK, FaithfulOK
    <2>5. MeterOK(q)
      BY <1>2, <1>3 DEF MeterOK, MetersOK
    <2> QED
      BY <2>1, <2>2, <2>3, <2>4, <2>5 DEF ResponseOK
  <1> QED
    BY <1>3, <1>4 DEF RInv, Apart

\* Every step of every request keeps the invariant.
LEMMA StepRInv ==
  ASSUME IInv, RInv, NEW q \in Request, Step(q) PROVE RInv'
  <1>1. CASE \/ Begin(q) \/ Redirect(q) \/ RunOnRequest(q) \/ OnRequestFails(q)
             \/ OnRequestPanics(q) \/ Dispatch(q)
    BY <1>1, BeginHolds, RedirectHolds, RunOnRequestHolds, OnRequestFailsHolds,
       OnRequestPanicsHolds, DispatchHolds
  <1>2. CASE EnterPlain(q) \/ EnterValue(q) \/ EnterValueLost(q) \/ Reject(q) \/ EnterWriter(q)
    BY <1>2, EnterPlainHolds, EnterValueHolds, EnterValueLostHolds, RejectAnswers, EnterWriterHolds
  <1>3. CASE \/ HandlerLost(q) \/ HandlerAnswers(q) \/ HandlerStreams(q) \/ HandlerFails(q)
             \/ HandlerPanics(q)
    BY <1>3, HandlerLostAnswers, HandlerAnswersOnce, HandlerStreamsOnce, HandlerFailsOnce,
       HandlerPanicsOnce
  <1>4. CASE NotFound(q) \/ MountSilent(q)
    <2>1. /\ g[q].pc = "down" /\ g[q].hit # "route" /\ AnswerNotFound(q, ctx[g[q].c].res)
      BY <1>4 DEF NotFound, MountSilent, Bottom
    <2>2. OwnOnly(q)
      BY StepIsOwn
    <2> QED
      BY <2>1, <2>2, NotFoundAnswers
  <1>5. CASE MountAnswers(q) \/ MountSilentLost(q) \/ MountPanics(q)
    BY <1>5, MountTurns
  <1>6. CASE \/ LeavePlain(q) \/ LeaveRecorder(q) \/ LeaveCapture(q) \/ DropCapture(q)
             \/ Recover(q) \/ AnswerError(q)
    BY <1>6, LeavePlainHolds, LeaveRecorderHolds, LeaveCaptureHolds, DropCaptureHolds,
       RecoverHolds, AnswerErrorHolds
  <1>7. CASE Return(q) \/ Finish(q) \/ SendPanics(q)
    BY <1>7, ReturnHolds, FinishHolds, SendPanicsHolds
  <1> QED
    BY <1>1, <1>2, <1>3, <1>4, <1>5, <1>6, <1>7 DEF Step

LEMMA NextRInv ==
  ASSUME IInv, RInv, [Next]_vars PROVE RInv'
  <1>1. CASE Next
    <2>1. PICK q \in Request : Step(q)
      BY <1>1 DEF Next, Step
    <2> QED
      BY <2>1, StepRInv
  <1>2. CASE UNCHANGED vars
    <2>1. /\ UNCHANGED app /\ g' = g /\ client' = client /\ buf' = buf /\ log' = log
          /\ reqs' = reqs /\ reg' = reg /\ ctx' = ctx /\ wr' = wr
      BY <1>2 DEF vars
    <2>2. ASSUME NEW p \in Request PROVE ResponseOK(p)' /\ Held(p)' = Held(p)
      BY <2>1, Bystander DEF IInv, RInv
    <2> QED
      BY <2>2 DEF RInv, Apart
  <1> QED
    BY <1>1, <1>2

LEMMA ResponseInvariance == Spec => [](IInv /\ RInv)
  BY InitIInv, NextIInv, InitRInv, NextRInv, PTL DEF Spec

\* What a client is sent is of its own request, with OnSend hooks nothing of it before
\* they have run, and one body at most unless the handler failed after a write that left
\* c.written FALSE: the first three parts of ResponseFaithful.
OwnResponse ==
    \A q \in Request :
        /\ OnSendFirst(q)
        /\ \A i \in DOMAIN client[q].body : client[q].body[i][1] = q
        /\ ~log[q].raw => Len(client[q].body) <= 1

LEMMA BodiesOwn ==
  ASSUME NEW q \in Request, NEW body \in Bodies(q)
  PROVE  /\ \A i \in DOMAIN body : body[i][1] = q
         /\ ~log[q].raw => Len(body) <= 1
  <1>1. body \in Seq(Own(q))
    BY OwnPieces DEF Bodies
  <1>2. ASSUME NEW i \in DOMAIN body PROVE body[i][1] = q
    <2>1. body[i] \in Own(q)
      BY <1>1
    <2> QED
      BY <2>1 DEF Own
  <1>3. ASSUME body \in Body(q) PROVE Len(body) <= 1
    <2>1. body = <<>> \/ \E what : body = <<<<q, what>>>>
      BY <1>3 DEF Body
    <2> QED
      BY <2>1
  <1> QED
    BY <1>2, <1>3 DEF Bodies

LEMMA OwnIsOwn == ASSUME IInv, RInv PROVE OwnResponse
  <1>1. ASSUME NEW q \in Request PROVE OnSendFirst(q) /\ client[q].body \in Bodies(q)
    <2>1. /\ EarlyOK(q) /\ AnswerOK(q)
          /\ g[q].pc \in {"arrive", "hooks", "dispatch", "down", "up", "finish", "done"}
      BY DEF RInv, ResponseOK, IInv, TypeOK, Goroutine
    <2>2. Blank.status = "none" /\ Blank.body \in Bodies(q)
      BY DEF Blank, Bodies, Body
    <2>3. OnSendFirst(q)
      BY <2>1, <2>2 DEF AnswerOK, OnSendFirst
    <2>4. g[q].pc \in {"up", "finish"} => Front(q).body \in Bodies(q)
      BY <2>1, FrontBodies DEF AnswerOK
    <2>5. client[q].body \in Bodies(q)
      BY <2>1, <2>2, <2>4 DEF EarlyOK, AnswerOK, Front
    <2> QED
      BY <2>3, <2>5
  <1> QED
    BY <1>1, BodiesOwn DEF OwnResponse

\* ServeHTTP with pooled StatusRecorders, captureWriters and bufferedResponseWriters: for
\* every application and whatever fails, a client gets nothing but what was written for its
\* own request, with OnSend hooks no byte before they have run, unless the handler streams,
\* and one body at most, unless a mounted or adapted http.Handler panics after a write or a
\* handler returns an error after a write to c.Response() (OneBody).
THEOREM ResponsesApart == Spec => []OwnResponse
  BY OwnIsOwn, ResponseInvariance, PTL

\* The client has the response that is due, or a 304 in its place.
Answered(q) ==
    LET got == [client[q] EXCEPT !.status = Effective(@)]
        due == [log[q].due EXCEPT !.status = Effective(@)]
    IN \/ got = due
       \/ /\ \E i \in DOMAIN Chain(q) : Chain(q)[i] = "etag"
          /\ due.status = "200" /\ got = [status |-> "304", body |-> <<>>]

\* ServeHTTP, etag, Recovery and the error and 404 handlers: if no chain of an application
\* has two etags, every request that is served gets the one response that is due to it (or
\* the 304 that etag makes of it), through all wrappers and whichever writer c.res is; only
\* when the handler fails after it has begun a response is it open which one that is.
\* With metrics between two etags it would not hold: the 404 handler answers through c.res,
\* past the inner etag, whose empty 200 then replaces the status that the outer one has.
THEOREM ResponseIsFaithful ==
  ASSUME \A a \in App : ETagOnce(a.global) /\ ETagOnce(a.global \o a.route)
  PROVE  Spec => []ResponseFaithful
  <1>1. IInv /\ RInv => ResponseFaithful
    <2> SUFFICES ASSUME IInv, RInv, NEW q \in Request, g[q].pc = "done", g[q].out = "ok",
                        log[q].exact
                 PROVE  Answered(q)
      BY OwnIsOwn DEF ResponseFaithful, OwnResponse, Answered
    <2>1. OneETag(q)
      BY DEF IInv, TypeOK, Chain, OneETag
    <2>2. Matches(q, client[q])
      BY <2>1 DEF RInv, ResponseOK, FaithfulOK
    <2>3. /\ client[q] \in Output /\ log[q].due \in Output
      BY DEF IInv, TypeOK, Memory
    <2> QED
      BY <2>2, <2>3 DEF Matches, Shown, Output, Effective, Answered
  <1> QED
    BY <1>1, ResponseInvariance, PTL

\* prometheus on the stdlib paths: whatever the middleware, as long as no etag is around it,
\* the status that it counts is the one that the client gets, for 404s that are answered
\* through c.res and for recovered panics, too.
THEOREM MetricsAreTrue == Spec => []MetricsTrue
  <1>1. IInv /\ RInv => MetricsTrue
    <2> SUFFICES ASSUME IInv, RInv, NEW q \in Request, g[q].way # "native", g[q].pc = "done",
                        g[q].out = "ok", ~Inside(q, "metrics", "etag"),
                        NEW s \in log[q].seen, s[1] = "metrics"
                 PROVE  s[2] = Effective(client[q].status)
      BY DEF MetricsTrue, Observed
    <2>1. MeterOK(q) /\ Metered(q)
      BY DEF RInv, ResponseOK, Metered
    <2>2. s = <<"metrics", s[2]>> /\ s[2] \in Status
      BY DEF IInv, TypeOK, Memory
    <2> QED
      BY <2>1, <2>2 DEF MeterOK
  <1> QED
    BY <1>1, ResponseInvariance, PTL
=============================================================================
