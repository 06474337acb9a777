-------------------------- MODULE IdempotencyFlow --------------------------
(***************************************************************************)
(* The request flow of plugins/idempotency: what one HTTP request does     *)
(* between entering the middleware and leaving it, apart from the calls it *)
(* makes on its Store.  A composition module (IdempotencyMemory,           *)
(* IdempotencyRedis) joins these steps with those of a concrete Store.     *)
(*                                                                         *)
(* A request runs the handler at most once, so the response it produces is *)
(* identified by the request itself; status, headers and body are          *)
(* abstracted to that identity and to the class of outcome of the handler. *)
(***************************************************************************)
EXTENDS IdempotencyTypes

CONSTANTS
    HashRequestBody,    \* Config.HashRequestBody
    ConflictBehaviors,  \* ConflictBehavior of the middlewares that share the Store
    WaitMayTimeOut,     \* WaitTimeout > 0, or the client may go away
    Outcomes            \* what the handler may do in this instance

\* "ok": a response the status policy caches.  "uncached": one it does not, or
\* a route whose TTL override is zero.  "overflow": a body above
\* MaxResponseBytes.  "error": next(c) returned an error and wrote nothing.
\* "panic": the handler panicked.
AllOutcomes == {"ok", "uncached", "overflow", "error", "panic"}

ASSUME FlowAssumption ==
    /\ HashRequestBody \in BOOLEAN
    /\ ConflictBehaviors \subseteq {"wait", "reject"}
    /\ WaitMayTimeOut \in BOOLEAN
    /\ Outcomes \subseteq AllOutcomes

VARIABLES
    pc,       \* where each request is
    key,      \* its Idempotency-Key
    payload,  \* its body
    result,   \* what its handler did
    reply     \* what its client was sent: kind, and whose response it is

flowVars == <<pc, key, payload, result, reply>>

ReplyKinds == {"none", "bypass", "error", "fresh", "replay", "conflict",
               "mismatch", "panic"}

Phases == {"idle", "get", "lock", "conflict", "waiting", "run", "save",
           "flush", "unlock", "done"}

\* The phases between a successful Lock and the deferred Unlock.
Holding == {"run", "save", "flush", "unlock"}

FlowTypeOK ==
    /\ pc \in [Request -> Phases]
    /\ key \in [Request -> Key]
    /\ payload \in [Request -> Payload]
    /\ result \in [Request -> AllOutcomes \cup {"none"}]
    /\ reply \in [Request -> [kind : ReplyKinds, from : Request]]

\* Requests before they arrive. What New and normalize make of the configuration is
\* the CONSTANTS of the module.
FlowInit ==
    /\ pc = [r \in Request |-> "idle"]
    /\ key \in [Request -> Key]
    /\ payload \in [Request -> Payload]
    /\ result = [r \in Request |-> "none"]
    /\ reply = [r \in Request |-> [kind |-> "none", from |-> r]]

----------------------------------------------------------------------------
Goto(r, phase) ==
    /\ pc' = [pc EXCEPT ![r] = phase]
    /\ UNCHANGED <<key, payload, result, reply>>

\* The middleware returns: the client gets its answer and nothing is left to do.
Finish(r, kind, from) ==
    /\ pc' = [pc EXCEPT ![r] = "done"]
    /\ reply' = [reply EXCEPT ![r] = [kind |-> kind, from |-> from]]
    /\ UNCHANGED <<key, payload, result>>

\* A request with a key takes part: it goes on to Store.Get.
Enter(r) ==
    /\ pc[r] = "idle"
    /\ Goto(r, "get")

\* A skipped path, a safe method or an absent key: the handler runs outside the
\* middleware, or the request is refused because RequireKey is set.  A body that
\* cannot be read or exceeds the hash cap is refused before the store is used.
PassBy(r) ==
    /\ pc[r] = "idle"
    /\ \E kind \in {"bypass", "error"} : Finish(r, kind, r)

\* Mutant: the hash of the body is not compared.
AnswerUnchecked(r, resp) == Finish(r, "replay", resp.by)

\* A response found in the store is replayed, unless the bodies differ.
Answer(r, resp) ==
    IF HashRequestBody /\ resp.hash # NoHash /\ resp.hash # payload[r]
    THEN Finish(r, "mismatch", resp.by)
    ELSE Finish(r, "replay", resp.by)

\* After Store.Get: a hit is answered, a miss goes on to Store.Lock.
AfterGet(r, resp) ==
    IF resp # NoResponse THEN Answer(r, resp) ELSE Goto(r, "lock")

\* After Store.Lock: the holder runs the handler, the others are in conflict.
AfterLock(r, acquired) ==
    IF acquired THEN Goto(r, "run") ELSE Goto(r, "conflict")

\* A conflict that is not waited for is answered 409.
Reject(r) ==
    /\ pc[r] = "conflict"
    /\ "reject" \in ConflictBehaviors
    /\ Finish(r, "conflict", r)

\* Mutant: the conflict path forgets the comparison of the bodies.
AfterWaitUnchecked(r, resp) ==
    IF resp # NoResponse THEN Finish(r, "replay", resp.by) ELSE Finish(r, "conflict", r)

\* After Store.Wait: nil (or a context error) is answered 409.
AfterWait(r, resp) ==
    IF resp # NoResponse THEN Answer(r, resp) ELSE Finish(r, "conflict", r)

\* shouldCacheForRequest(cw.Status()): a capture writer on which nothing was
\* written reports 200, so an error that next(c) returned passes the policy.
Cacheable(outcome) == outcome \in {"ok", "error"}

\* The step after next(c) returns.  A panic unwinds to the deferred Unlock; an
\* overflow has already been streamed to the client and is not saved.
AfterHandler(outcome) ==
    IF outcome \in {"overflow", "panic"} THEN "unlock"
    ELSE IF Cacheable(outcome) THEN "save" ELSE "flush"

\* next(c), with the capture writer in place.
RunHandler(r, outcome) ==
    /\ pc[r] = "run"
    /\ result' = [result EXCEPT ![r] = outcome]
    /\ pc' = [pc EXCEPT ![r] = AfterHandler(outcome)]
    /\ reply' = CASE outcome = "overflow" ->
                       [reply EXCEPT ![r] = [kind |-> "fresh", from |-> r]]
                  [] outcome = "panic" ->
                       [reply EXCEPT ![r] = [kind |-> "panic", from |-> r]]
                  [] OTHER -> reply
    /\ UNCHANGED <<key, payload>>

\* Snapshot of the captured response, with the payload hash when hashing is on.
Snapshot(r) ==
    [by |-> r, hash |-> IF HashRequestBody THEN payload[r] ELSE NoHash]

\* FlushUnderCap: the buffered response goes to the client, before the deferred
\* Unlock runs.
Flush(r) ==
    /\ pc[r] = "flush"
    /\ reply' = [reply EXCEPT ![r] = [kind |-> "fresh", from |-> r]]
    /\ pc' = [pc EXCEPT ![r] = "unlock"]
    /\ UNCHANGED <<key, payload, result>>

----------------------------------------------------------------------------
\* A replayed response is one that the handler produced for the same key and,
\* when bodies are hashed, for the same body: replayNative is never reached with
\* somebody else's response, whatever expired or was evicted in between.
ReplayFaithful ==
    \A r \in Request : reply[r].kind = "replay" =>
        LET s == reply[r].from IN
        /\ s # r
        /\ key[s] = key[r]
        /\ Cacheable(result[s])
        /\ HashRequestBody => payload[s] = payload[r]

\* The comment of handleConflictNative: a holder whose handler returned an error
\* finishes without saving.  So no client is ever replayed such a response.
ErrorNeverReplayed ==
    \A r \in Request : reply[r].kind = "replay" => result[reply[r].from] # "error"
=============================================================================
